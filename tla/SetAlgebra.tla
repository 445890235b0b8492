------------------------------ MODULE SetAlgebra ------------------------------
(***************************************************************************)
(* What cee_set promises its users: named sets, in none of which two       *)
(* elements compare equal, and the operations of set algebra on them.      *)
(* There are no trees here, no counts and no sizes.                        *)
(***************************************************************************)
CONSTANTS Names, Elements, Rank   \* Rank[e] = Rank[f]: e and f compare equal

VARIABLE sets   \* from the names of the sets that exist to their elements

Equal(A, e) == {f \in A : Rank[f] = Rank[e]}

Init == sets = [n \in {} |-> {}]

Become(n, A) == sets' = [x \in DOMAIN sets \cup {n} |-> IF x = n THEN A ELSE sets[x]]

Add(n, e) == Become(n, IF Equal(sets[n], e) = {} THEN sets[n] \cup {e} ELSE sets[n])

Remove(n, e) == Become(n, sets[n] \ Equal(sets[n], e))

(* The elements of a come first, those of b join them if no equal one is   *)
(* there.                                                                  *)
Union(n, a, b) == Become(n, sets[a] \cup {e \in sets[b] : Equal(sets[a], e) = {}})

Delete(n) == sets' = [x \in DOMAIN sets \ {n} |-> sets[x]]

Next == \E n \in Names :
           \/ n \notin DOMAIN sets /\ Become(n, {})                    \* make
           \/ n \notin DOMAIN sets /\ \E a, b \in DOMAIN sets : Union(n, a, b)
           \/ n \notin DOMAIN sets /\ \E a \in DOMAIN sets : Become(n, sets[a])  \* clone
           \/ n \in DOMAIN sets /\ (Become(n, {}) \/ Delete(n))
           \/ n \in DOMAIN sets /\ \E e \in Elements : Add(n, e) \/ Remove(n, e)

Spec == Init /\ [][Next]_sets
=============================================================================
