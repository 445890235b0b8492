------------------------------- MODULE TreeSet -------------------------------
(***************************************************************************)
(* What musl's tsearch family promises: a set of elements no two of which  *)
(* compare equal.  An element is entered unless an equal one is there, and *)
(* is removed by any key equal to it.                                      *)
(***************************************************************************)
CONSTANTS Elements, Rank   \* Rank[e] = Rank[f]: e and f compare equal

VARIABLE elements

Equal(e) == {f \in elements : Rank[f] = Rank[e]}

Init == elements = {}

Search(e) == elements' = IF Equal(e) = {} THEN elements \cup {e} ELSE elements

Delete(e) == elements' = elements \ Equal(e)

Next == \E e \in Elements : Search(e) \/ Delete(e)

Spec == Init /\ [][Next]_elements
=============================================================================
