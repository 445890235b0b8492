------------------------------ MODULE Dictionary ------------------------------
(***************************************************************************)
(* What cee_dict amounts to: a map in which the first value stored under a *)
(* key stays, and lookups that say what it holds.                          *)
(***************************************************************************)
CONSTANTS Keys, Values, NoValue

VARIABLES map, answer   \* the answer of the last call, NoValue for an addition

Init == map = [k \in {} |-> NoValue] /\ answer = NoValue

Add(k, v) == /\ map' = [x \in DOMAIN map \cup {k} |-> IF x \in DOMAIN map THEN map[x] ELSE v]
             /\ answer' = NoValue

Find(k) == /\ answer' = IF k \in DOMAIN map THEN map[k] ELSE NoValue
           /\ UNCHANGED map

Delete == Init'

Next == \/ \E k \in Keys : Find(k) \/ \E v \in Values : Add(k, v)
        \/ Delete

Spec == Init /\ [][Next]_<<map, answer>>
=============================================================================
