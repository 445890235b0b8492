----------------------------- MODULE CeeTracked -----------------------------
(***************************************************************************)
(* What a cee_state promises about the blocks allocated under it, with no  *)
(* pointer in sight: it tracks them in the order they were registered, a   *)
(* block that is freed or moved leaves the list, a garbage collection      *)
(* frees exactly the blocks it did not mark, and deleting the state frees  *)
(* every block, newest first.  CeeChain implements this with the           *)
(* trace_next / trace_prev chain of cee-resize.h and state.c.              *)
(***************************************************************************)
EXTENDS SequencesExt

CONSTANT Blocks

VARIABLES phase,    \* "run", "sweep", "teardown" or "gone"
          tracked,  \* the blocks of the state, oldest first
          doomed    \* the blocks the current collection still has to free

vars == <<phase, tracked, doomed>>

Free == Blocks \ ToSet(tracked)

(* A list without a block that is in it once. *)
Without(s, b) == RemoveAt(s, CHOOSE i \in DOMAIN s : s[i] = b)

Init == phase = "run" /\ tracked = <<>> /\ doomed = {}

(* A state is made again after the previous one was deleted. *)
Create == /\ phase = "gone"
          /\ phase' = "run" /\ tracked' = <<>> /\ doomed' = {}

Running == phase = "run" /\ UNCHANGED <<phase, doomed>>

Register(b) == Running /\ tracked' = Append(tracked, b)

Forget(b) == Running /\ tracked' = Without(tracked, b)

(* A block that grows is a new registration; realloc gives the old one up, *)
(* malloc keeps both.                                                      *)
Move(b, new) == Running /\ tracked' = Append(Without(tracked, b), new)

Collect(keep) == /\ phase = "run"
                 /\ phase' = "sweep"
                 /\ doomed' = ToSet(tracked) \ keep
                 /\ UNCHANGED tracked

Reap(b) == /\ phase = "sweep"
           /\ tracked' = Without(tracked, b)
           /\ doomed' = doomed \ {b}
           /\ UNCHANGED phase

CollectDone == /\ phase = "sweep" /\ doomed = {}
               /\ phase' = "run"
               /\ UNCHANGED <<tracked, doomed>>

Delete == /\ phase = "run"
          /\ phase' = "teardown"
          /\ UNCHANGED <<tracked, doomed>>

DropNewest == /\ phase = "teardown" /\ tracked # <<>>
              /\ tracked' = Front(tracked)
              /\ UNCHANGED <<phase, doomed>>

DeleteDone == /\ phase = "teardown" /\ tracked = <<>>
              /\ phase' = "gone"
              /\ UNCHANGED <<tracked, doomed>>

Next == \/ Create
        \/ \E b \in Free : Register(b)
        \/ \E b \in ToSet(tracked) : Forget(b)
        \/ \E b \in ToSet(tracked), new \in Blocks :
              new \in Free \cup {b} /\ Move(b, new)
        \/ \E keep \in SUBSET ToSet(tracked) : Collect(keep)
        \/ \E b \in doomed : Reap(b)
        \/ CollectDone
        \/ Delete
        \/ DropNewest
        \/ DeleteDone

Fairness == /\ WF_vars(\E b \in doomed : Reap(b))
            /\ WF_vars(CollectDone)
            /\ WF_vars(DropNewest)
            /\ WF_vars(DeleteDone)

Safety == Init /\ [][Next]_vars
Spec == Safety /\ Fairness
=============================================================================
