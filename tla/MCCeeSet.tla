------------------------------ MODULE MCCeeSet ------------------------------
(* CeeSet with three elements, two of which compare equal.                 *)
EXTENDS CeeSet, TLC

CONSTANTS e1, e2, e3

MCElements == {e1, e2, e3}
MCRank == [e \in MCElements |-> IF e = e3 THEN 2 ELSE 1]
Interchangeable == Permutations(Sets) \cup Permutations({e1, e2})
=============================================================================
