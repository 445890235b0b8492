----------------------------- MODULE KeyedTable -----------------------------
(***************************************************************************)
(* What the operations of the access layer amount to: requests on a table, *)
(* each with its effect in one step, while another connection inserts and  *)
(* deletes.  A request may also fail, without an effect.                   *)
(***************************************************************************)
EXTENDS Integers

CONSTANTS Ids, Ops, Inputs, New(_), Patch(_, _)

VARIABLES rows,      \* from row ids to rows; a row has a key
          request, outcome

Nothing == [op |-> "none"]
Same(r) == {i \in DOMAIN rows : rows[i].k = r.input["k"]}

Inserted(r) == /\ \E i \in Ids \ DOMAIN rows :
                     rows' = [n \in DOMAIN rows \cup {i} |-> IF n = i THEN New(r.input) ELSE rows[n]]
               /\ outcome' = "inserted"
Updated(r) == /\ rows' = [n \in DOMAIN rows |-> IF n \in Same(r) THEN Patch(rows[n], r.input) ELSE rows[n]]
              /\ outcome' = "updated"
Deleted(r) == /\ rows' = [n \in DOMAIN rows \ Same(r) |-> rows[n]]
              /\ outcome' = "deleted"
Unchanged == UNCHANGED rows /\ outcome' = "nothing"

Init == rows = [i \in {} |-> Nothing] /\ request = Nothing /\ outcome = "none"

Ask == /\ request = Nothing /\ request' \in [op : Ops, input : Inputs]
       /\ outcome' = "pending" /\ UNCHANGED rows

Serve == LET r == request IN
    /\ outcome = "pending" /\ UNCHANGED request
    /\ \/ r.op = "insert" /\ Inserted(r)
       \/ r.op = "update_or_insert" /\ Same(r) = {} /\ Inserted(r)
       \/ r.op \in {"update_or_insert", "update"} /\ Same(r) # {} /\ Updated(r)
       \/ r.op = "update" /\ Same(r) = {} /\ Unchanged
       \/ /\ r.op \in {"update_or_insert", "update"} /\ Same(r) # {}
          /\ \A i \in Same(r) : Patch(rows[i], r.input) = rows[i]
          /\ Unchanged
       \/ r.op = "select1_or_insert" /\ Same(r) = {} /\ Inserted(r)
       \/ r.op = "select1_or_insert" /\ Same(r) # {} /\ Unchanged
       \/ r.op = "delete" /\ Deleted(r)
       \/ r.op \in {"select", "own_select", "next_int"} /\ Unchanged
       \/ UNCHANGED rows /\ outcome' = "failed"

Finish == /\ outcome \notin {"none", "pending"}
          /\ request' = Nothing /\ outcome' = "none" /\ UNCHANGED rows

(* What the other connection inserts is any row. *)
Other == /\ UNCHANGED <<request, outcome>>
         /\ \/ \E i \in Ids \ DOMAIN rows :
                  /\ DOMAIN rows' = DOMAIN rows \cup {i}
                  /\ \A n \in DOMAIN rows : rows'[n] = rows[n]
            \/ \E i \in DOMAIN rows : rows' = [n \in DOMAIN rows \ {i} |-> rows[n]]

Next == Ask \/ Serve \/ Finish \/ Other
Spec == Init /\ [][Next]_<<rows, request, outcome>>
=============================================================================
