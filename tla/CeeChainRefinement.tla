-------------------------- MODULE CeeChainRefinement --------------------------
(***************************************************************************)
(* CeeChain implements CeeTracked as long as a program only grows the      *)
(* block it registered last.  The list of tracked blocks is what           *)
(* trace_prev spells from the tail to the state, read from the state on.   *)
(***************************************************************************)
EXTENDS CeeChain, Sequences

(* The header n steps of trace_prev before the tail. *)
Predecessor[n \in 0..Cardinality(Blocks)] ==
    IF n = 0 THEN links.tail
    ELSE IF Predecessor[n - 1] = State THEN State
    ELSE links.prev[Predecessor[n - 1]]

(* The blocks from the first registered to the tail. *)
TrackedSeq ==
    LET n == Cardinality({k \in DOMAIN Predecessor : Predecessor[k] # State})
    IN  [i \in 1..n |-> Predecessor[n - i]]

Tracked == INSTANCE CeeTracked WITH
               phase   <- pc,
               tracked <- TrackedSeq,
               doomed  <- IF pc = "sweep" THEN live \ keep ELSE {}

(* Refinement: a resize, a free, a sweep and a deletion change the chain   *)
(* exactly as the list of tracked blocks changes, and the loops of state.c *)
(* reach their end: see CeeTracked.                                        *)
ImplementsTracked == Tracked!Spec
=============================================================================
