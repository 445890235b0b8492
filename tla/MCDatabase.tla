----------------------------- MODULE MCDatabase -----------------------------
(***************************************************************************)
(* The two modules over SQLite side by side: one behaviour of the run is   *)
(* either the manager of a database file or the calls on its table, the    *)
(* other stays as it was.                                                  *)
(***************************************************************************)
EXTENDS CeeDbm, CeeSqlite

VARIABLE using

(* An int key that an update must not set, an int64 with a default that    *)
(* may be null, and a text without one that may not.                       *)
Column(c, type, not_null, no_update, default) ==
    [col |-> c, type |-> type, not_null |-> not_null, no_update |-> no_update, default |-> default]
TableInfos == {Column("k", "int", FALSE, TRUE, NoDefault), Column("v", "int64", FALSE, FALSE, 1),
               Column("w", "text", TRUE, FALSE, NoDefault)}

(* Objects with a key alone or with the other columns, of which one is     *)
(* null; none to select everything; one whose key is wider than an int,    *)
(* where it is 1, and one with a value of another type.                    *)
Object(keys, k, v, w) == [c \in keys |-> IF c = "k" THEN k ELSE IF c = "v" THEN v ELSE w]
Text == CHOOSE text \in Texts \ {Empty} : TRUE
TableInputs ==
    {Object(keys, k, 9, Null) : keys \in {{}, {"k"}, {"k", "v", "w"}}, k \in {1, 2}}
    \cup {Object({"k", "v", "w"}, k, Null, Text) : k \in {1, 2}}
    \cup {Object({"k"}, 9, Null, Null), Object({"k", "v"}, 1, Bad, Null)}
Full(k, v) == Object({"k", "v", "w"}, k, v, Empty)
TableLists == {<<Full(1, 9), Full(2, Null)>>, <<Full(2, 9), Object({"v"}, 1, 9, Empty), Full(1, 9)>>,
               <<Full(1, 9), Full(Bad, 9)>>}

DatabaseInit == Init /\ TableInit /\ using \in {"file", "table"}
DatabaseNext == \/ using = "file" /\ Next /\ UNCHANGED <<table, using>>
                \/ using = "table" /\ TableNext /\ UNCHANGED <<vars, using>>
DatabaseSpec == DatabaseInit /\ [][DatabaseNext]_<<vars, table, using>> /\ WF_table(Step)
=============================================================================
