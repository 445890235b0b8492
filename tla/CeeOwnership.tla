---------------------------- MODULE CeeOwnership ----------------------------
(***************************************************************************)
(* What the delete policies of cee.h promise, without a counter: an object *)
(* is a list of references, each with a delete policy; deleting an object  *)
(* frees, in one step, it and every object whose last owning reference was *)
(* held by an object freed with it.  A reference with policy NOOP owns     *)
(* nothing.                                                                *)
(***************************************************************************)
EXTENDS Naturals, SequencesExt

CONSTANTS Objs, Policies

VARIABLE refs   \* the references of each allocated object: [ref, pol], in order

Slot == [ref : Objs, pol : Policies]
Live == DOMAIN refs

(* Who owns whom, as pairs of container and element. *)
OwnsIn(o) == {<<o, refs[o][i].ref>> :
                 i \in {j \in DOMAIN refs[o] : refs[o][j].pol # "NOOP"}}
Owns == UNION {OwnsIn(o) : o \in Live}

(* The objects of L freed along with the set D: the least set that holds D *)
(* and every object that has an owner and only owners in the set.          *)
Condemned(L, owns, D) ==
    LET Owners(e) == {x[1] : x \in {y \in owns : y[2] = e}}
        Closed(S) == D \subseteq S /\ \A e \in L \ S : Owners(e) \ S # {} \/ Owners(e) = {}
    IN  {e \in L : \A S \in SUBSET L : Closed(S) => e \in S}

Init == refs = << >>

Others(o) == \A x \in Live \ {o} : refs'[x] = refs[x]

Make(o) == /\ DOMAIN refs' = Live \cup {o} /\ refs'[o] \in Seq(Slot)
           /\ Others(o)

(* One reference more, or one less, in one object. *)
Insert(o) == /\ DOMAIN refs' = Live /\ refs'[o] \in Seq(Slot) /\ Others(o)
             /\ \E i \in DOMAIN refs'[o] : refs[o] = RemoveAt(refs'[o], i)

Drop(o) == \E i \in DOMAIN refs[o] : refs' = [refs EXCEPT ![o] = RemoveAt(@, i)]

Delete(o) == LET dead == Condemned(Live, Owns, {o})
             IN  refs' = [x \in Live \ dead |-> refs[x]]

Next == \/ \E o \in Objs \ Live : Make(o)
        \/ \E o \in Live : Insert(o) \/ Drop(o) \/ Delete(o)

Spec == Init /\ [][Next]_refs
=============================================================================
