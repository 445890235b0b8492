------------------------------- MODULE MCCeeGC -------------------------------
(* CeeGC on a handful of addresses, which are interchangeable: a program   *)
(* that allocates the lowest free one behaves like any other.  A behaviour *)
(* either has lists only, with several references each, or all the kinds.  *)
(* Two roots at a time are enough for one to lead to what another does.    *)
EXTENDS CeeGC

VARIABLE using

AllocatesLowest ==
    \A o, p \in Objs : (heap[o] = Free /\ heap'[o] # Free /\ p < o) => heap'[p] # Free
Within(objects) ==
    \A o \in Objs :
        /\ using = "lists" => objects[o].kind \in {"free", "list"}
        /\ using = "kinds" => Len(objects[o].refs) <= 1 /\ objects[o].rc <= 1

GCInit == Init /\ using \in {"lists", "kinds"}
GCNext == /\ Next /\ AllocatesLowest /\ Within(heap') /\ Cardinality(roots') <= 2
          /\ UNCHANGED using
GCSpec == GCInit /\ [][GCNext]_<<vars, using>> /\ WF_vars(Gc)

(* The properties of CeeGC that need containers which mark themselves.     *)

(* Safety: the roots survive every collection (state.c:107), with all they *)
(* lead to, no count falls below the number of references, no call uses    *)
(* freed memory, and no mark phase is deeper than there are objects, with  *)
(* any containers.                                                         *)
ListsSurvive ==
    /\ TypeOK /\ MarkDepthBounded
    /\ using = "lists" =>
          RootsSurvive /\ SurvivorsIntact /\ InDegreeCovers /\ pc # "fault"

(* Liveness: every collection returns.                                     *)
ListGcTerminates == (using = "lists" /\ pc = "mark") ~> pc = "run"
=============================================================================
