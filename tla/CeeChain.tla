------------------------------ MODULE CeeChain ------------------------------
(***************************************************************************)
(* The trace chain of a cee_state: every block allocated under the state   *)
(* is threaded, newest last, on a doubly linked list that starts at the    *)
(* state's own header.  Allocation registers a block (chain), freeing it   *)
(* unlinks it (de_chain), growing it (resize) does both, cee_state_gc      *)
(* sweeps the list forward along trace_next, and cee_del of the state      *)
(* frees it backward along trace_prev.                                     *)
(*                                                                         *)
(* Source: src/cee-resize.h and src/state.c.  A program is single          *)
(* threaded, so an operation is one step; the two loops of state.c are     *)
(* modelled iteration by iteration, because what a loop reads from a block *)
(* after freeing its neighbour is what can go wrong in them.               *)
(***************************************************************************)
EXTENDS Integers, FiniteSets

CONSTANTS
    Blocks,   \* the addresses malloc can return
    State,    \* the header of the cee_state itself
    NULL,
    GrowOld   \* TRUE: a program grows any block it holds; FALSE: only ever
              \* the block it registered last

ASSUME ChainAssumption ==
    /\ State \notin Blocks
    /\ NULL \notin Blocks \cup {State}
    /\ GrowOld \in BOOLEAN

Sects == Blocks \cup {State}

LinksType == [next : [Sects -> Sects \cup {NULL}],
              prev : [Sects -> Sects \cup {NULL}],
              tail : Sects]

VARIABLES
    pc,     \* what the program is doing: "run", "sweep", "teardown", "gone"
            \* (the state is deleted), "fault" (freed memory was read)
    links,  \* trace_next, trace_prev of every header; trace_tail of the state
    live,   \* the blocks that are allocated
    keep,   \* the blocks the mark phase of the current collection reached
    head    \* the cursor of sweep

vars == <<pc, links, live, keep, head>>

-----------------------------------------------------------------------------
(* The list operations of cee-resize.h, on the record of all the links.    *)

(* Faulty: the new block does not point back. *)
ChainNoPrev(c, h) == [c EXCEPT !.next[c.tail] = h, !.tail = h]

(* chain: append h.  It leaves h's own trace_next as it finds it.          *)
Chain(c, h) == [next |-> [c.next EXCEPT ![c.tail] = h],
                prev |-> [c.prev EXCEPT ![h] = c.tail],
                tail |-> h]

(* Faulty variants of de_chain: the new tail keeps pointing at h; the tail *)
(* is not moved.                                                           *)
DeChainKeepsForwardLink(c, h) ==
    IF c.tail = h
    THEN [c EXCEPT !.tail = c.prev[h]]
    ELSE [c EXCEPT !.next[c.prev[h]] = c.next[h], !.prev[c.next[h]] = c.prev[h]]
DeChainKeepsTail(c, h) ==
    [c EXCEPT !.next[c.prev[h]] = c.next[h]]

(* de_chain: unlink h, whose own two links stay behind.                    *)
DeChain(c, h) ==
    IF c.tail = h
    THEN [c EXCEPT !.next[c.prev[h]] = NULL, !.tail = c.prev[h]]
    ELSE [next |-> [c.next EXCEPT ![c.prev[h]] = c.next[h]],
          prev |-> IF c.next[h] = NULL THEN c.prev
                   ELSE [c.prev EXCEPT ![c.next[h]] = c.prev[h]],
          tail |-> c.tail]

(* ZERO_CEE_SECT on a block that malloc returned. *)
Zeroed(c, h) == [c EXCEPT !.next[h] = NULL, !.prev[h] = NULL]

(* realloc and memcpy carry the links of h over to the new address. *)
CopyLinks(c, h, new) == [c EXCEPT !.next[new] = c.next[h],
                                  !.prev[new] = c.prev[h]]

EmptyChain == [next |-> [b \in Sects |-> NULL],
               prev |-> [b \in Sects |-> NULL],
               tail |-> State]

-----------------------------------------------------------------------------
Init == /\ pc = "run"
        /\ links = EmptyChain
        /\ live = {} /\ keep = {}
        /\ head = NULL

(* cee_state_mk, after the last state was deleted or the process died. *)
Create == /\ pc \in {"gone", "fault"}
          /\ pc' = "run"
          /\ links' = EmptyChain
          /\ live' = {} /\ keep' = {}
          /\ head' = NULL

(* Any of the cee_*_mk functions. *)
Alloc(b) == /\ pc = "run" /\ b \notin live
            /\ links' = Chain(Zeroed(links, b), b)
            /\ live' = live \cup {b}
            /\ UNCHANGED <<pc, keep, head>>

(* The deletion of one block: de_chain and free. *)
Release(b) == /\ links' = DeChain(links, b)
              /\ live' = live \ {b}

Del(b) == /\ pc = "run" /\ b \in live
          /\ Release(b)
          /\ UNCHANGED <<pc, keep, head>>

Growable(b) == pc = "run" /\ b \in live /\ (GrowOld \/ b = links.tail)

(* Faulty: the block is registered again without leaving its old place. *)
ResizeReallocInPlace(b, new) ==
    /\ Growable(b) /\ new \notin live \ {b}
    /\ links' = Chain(CopyLinks(links, b, new), new)
    /\ live' = (live \ {b}) \cup {new}
    /\ UNCHANGED <<pc, keep, head>>

(* resize with CEE_RESIZE_WITH_REALLOC: the block may stay where it is. *)
ResizeRealloc(b, new) ==
    /\ Growable(b) /\ new \notin live \ {b}
    /\ links' = Chain(CopyLinks(DeChain(links, b), b, new), new)
    /\ live' = (live \ {b}) \cup {new}
    /\ UNCHANGED <<pc, keep, head>>

(* Faulty: the copy is not registered. *)
ResizeMallocUnchained(b, new) ==
    /\ Growable(b) /\ new \notin live
    /\ links' = CopyLinks(links, b, new)
    /\ live' = live \cup {new}
    /\ UNCHANGED <<pc, keep, head>>

(* resize with CEE_RESIZE_WITH_MALLOC: the old block is kept and leaks. *)
ResizeMalloc(b, new) ==
    /\ Growable(b) /\ new \notin live
    /\ links' = Chain(CopyLinks(links, b, new), new)
    /\ live' = live \cup {new}
    /\ UNCHANGED <<pc, keep, head>>

-----------------------------------------------------------------------------
(* Faulty: sweep starts at the newest block. *)
GcStartAtTail(marked) == /\ pc = "run"
                         /\ pc' = "sweep"
                         /\ keep' = marked
                         /\ head' = links.tail
                         /\ UNCHANGED <<links, live>>

(* cee_state_gc: the mark phase decides on a set of blocks to keep, then   *)
(* sweep walks the chain from the header of the state, which is marked.    *)
GcStart(marked) == /\ pc = "run"
                   /\ pc' = "sweep"
                   /\ keep' = marked
                   /\ head' = State
                   /\ UNCHANGED <<links, live>>

SweepKeep == /\ pc = "sweep" /\ head \in keep \cup {State}
             /\ head \in live \cup {State}
             /\ head' = links.next[head]
             /\ UNCHANGED <<pc, links, live, keep>>

SweepFree == /\ pc = "sweep" /\ head \in live \ keep
             /\ Release(head)
             /\ head' = links.next[head]
             /\ UNCHANGED <<pc, keep>>

(* The cursor is a freed block: whatever is read from it, the program is   *)
(* broken from here on.                                                    *)
SweepFault == /\ pc = "sweep" /\ head \in Blocks \ live
              /\ pc' = "fault"
              /\ UNCHANGED <<links, live, keep, head>>

SweepEnd == /\ pc = "sweep" /\ head = NULL
            /\ pc' = "run"
            /\ keep' = {}
            /\ UNCHANGED <<links, live, head>>

(* cee_del of the state. *)
DelState == /\ pc = "run"
            /\ pc' = "teardown"
            /\ UNCHANGED <<links, live, keep, head>>

TeardownFree == /\ pc = "teardown" /\ links.tail # State
                /\ Release(links.tail)
                /\ UNCHANGED <<pc, keep, head>>

TeardownEnd == /\ pc = "teardown" /\ links.tail = State
               /\ pc' = "gone"
               /\ UNCHANGED <<links, live, keep, head>>

Next == \/ Create
        \/ \E b \in Blocks : Alloc(b) \/ Del(b)
        \/ \E b, new \in Blocks : ResizeRealloc(b, new) \/ ResizeMalloc(b, new)
        \/ \E marked \in SUBSET live : GcStart(marked)
        \/ SweepKeep \/ SweepFree \/ SweepFault \/ SweepEnd
        \/ DelState \/ TeardownFree \/ TeardownEnd

(* Once called, the loops of gc and of cee_del run until they end. *)
Fairness == /\ WF_vars(SweepKeep) /\ WF_vars(SweepFree)
            /\ WF_vars(SweepFault) /\ WF_vars(SweepEnd)
            /\ WF_vars(TeardownFree) /\ WF_vars(TeardownEnd)

Spec == Init /\ [][Next]_vars /\ Fairness

-----------------------------------------------------------------------------
(* Type invariant: every link is a header or NULL, and only blocks that    *)
(* malloc returned are on the books.                                       *)
TypeOK == /\ pc \in {"run", "sweep", "teardown", "gone", "fault"}
          /\ links \in LinksType
          /\ live \subseteq Blocks
          /\ keep \subseteq Blocks
          /\ head \in Sects \cup {NULL}

(* The links of the allocated blocks agree with each other: the tail is    *)
(* allocated, every allocated block hangs behind an allocated header that  *)
(* points back at it, and every header but the tail has a successor.  The  *)
(* trace_next of the tail itself is not mentioned: resize can leave it     *)
(* stale.                                                                  *)
ConsistentOn(c, L) ==
    /\ c.tail \in L \cup {State}
    /\ \A b \in L : /\ c.prev[b] \in (L \cup {State}) \ {c.tail}
                    /\ c.next[c.prev[b]] = b
    /\ \A b \in (L \cup {State}) \ {c.tail} : /\ c.next[b] \in L
                                               /\ c.prev[c.next[b]] = b

(* Safety: after any sequence of allocations, frees, growths, collections  *)
(* and deletions, no link of an allocated block (the tail's trace_next     *)
(* aside) leads to a freed one, so de_chain never writes to freed memory.  *)
LinksConsistent == ConsistentOn(links, live)

(* Safety: a deleted state leaves no block behind.                         *)
TeardownLeavesNothing == pc = "gone" => live = {}

(* Safety: sweep never stands on a block that is not allocated.            *)
SweepOnLiveBlock == pc = "sweep" => head \in live \cup {State, NULL}

(* Action property: a collection that returns has freed every block the    *)
(* mark phase did not reach (state.c, "find all blocks that are not        *)
(* reachable in the mark cycle and delete them").                          *)
SweepIsComplete == [][SweepEnd => live \subseteq keep]_vars

(* Liveness: every collection returns.                                     *)
SweepTerminates == pc = "sweep" ~> pc # "sweep"

(* Liveness: every deletion of a state returns.                            *)
TeardownTerminates == pc = "teardown" ~> pc = "gone"
=============================================================================
