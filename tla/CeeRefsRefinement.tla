-------------------------- MODULE CeeRefsRefinement --------------------------
(***************************************************************************)
(* Counting references implements ownership: see CeeOwnership.  While a    *)
(* deletion runs, the objects it is going to free count as freed already.  *)
(***************************************************************************)
EXTENDS CeeRefs

OwnsNow == UNION {{<<o, heap[o].slots[i].ref>> :
                      i \in {j \in Held(o) : heap[o].slots[j].pol # "NOOP"}} : o \in Live}

Heap == INSTANCE CeeOwnership WITH refs <- heap

Deleting == {frames[f].obj : f \in DOMAIN frames}
Surviving == Live \ Heap!Condemned(Live, OwnsNow, Deleting)
References == [o \in Surviving |-> heap[o].slots]

Ownership == INSTANCE CeeOwnership WITH refs <- References

(* Refinement: deleting an object frees it and exactly those objects whose *)
(* last owning reference goes with it, and changes no other.               *)
ImplementsOwnership == Ownership!Spec

(* Addresses are interchangeable. *)
Addresses == Permutations(Objs)
=============================================================================
