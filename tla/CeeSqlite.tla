------------------------------ MODULE CeeSqlite ------------------------------
(***************************************************************************)
(* The access layer over SQLite.  A call takes a JSON object, binds its    *)
(* values to the parameters of statements by way of two tables, info (what *)
(* the columns are) and data (what was found for each), runs one or two    *)
(* statements, and reports in a status object.  No call opens a            *)
(* transaction: between two statements another connection may change the   *)
(* table.                                                                  *)
(*                                                                         *)
(* Statements fail where a program must expect it.  TableFreedoms lifts    *)
(* what a program of this layer has to avoid: "select_fails", the SELECT   *)
(* of an update fails; "step_fails", so does the fetch of a further row;   *)
(* "others_delete", the other connection deletes rows; "reuse", one data   *)
(* serves several calls; "mistyped", a JSON value has not the type of its  *)
(* column; "wide", a number of an INT column fits no int; "null_update",   *)
(* an update gives null to a not_null column; "join_int64", a join is by   *)
(* an INT64 column.                                                        *)
(***************************************************************************)
EXTENDS Integers, FiniteSets, SequencesExt

CONSTANTS
    Infos,       \* the columns: [col, type, not_null, no_update, default]
    Inputs,      \* JSON objects: functions from keys to values
    Lists,       \* sequences of them, for joins and insertions of arrays
    Ops,         \* the calls that the program makes
    Ids,         \* row ids: the bound on the number of rows
    Unique,      \* whether the table refuses a second row of a key
    Texts, Empty,    \* texts, and the one without characters
    IntMax,      \* the greatest int; an int64 is any integer
    Null, Bad,   \* JSON null, and a value that is neither number nor text
    NoDefault,   \* a column of info without a default
    MaxEarlier,  \* bound on what a connection is taken to have changed before
    TableFreedoms

(* The calls that are about the rows of one key, or of all.                *)
OneRow == {"insert", "update", "update_or_insert", "delete", "select", "own_select",
           "select1_or_insert", "next_int"}

ASSUME SqliteAssumption ==
    /\ IsFiniteSet(Ids) /\ Ids \subseteq Nat
    /\ Ops \subseteq OneRow \cup {"select_op", "join", "insert_array"}
    /\ IntMax \in Nat /\ MaxEarlier \in Nat \ {0} /\ Empty \in Texts
    /\ Texts \cap Int = {} /\ Null \notin Int \cup Texts
    /\ "k" \in {info.col : info \in Infos}
    /\ \A info \in Infos : /\ info.not_null \in BOOLEAN /\ info.no_update \in BOOLEAN
                           /\ info.type \in {"int", "int64", "text"}
    /\ \A json \in Inputs : "k" \in DOMAIN json => json["k"] # Null
    /\ \A list \in Lists : /\ list \in Seq(Range(list))
                          /\ \A n \in DOMAIN list : list[n] = [c \in DOMAIN list[n] |-> list[n][c]]

VARIABLES
    rows,     \* from ids to rows, which are functions from columns to values
    changes,  \* sqlite3_changes
    earlier,  \* whether sqlite3_total_changes is above 0
    data,     \* what each column is bound to
    call      \* the call that runs

table == <<rows, changes, earlier, data, call>>

Cols == {info.col : info \in Infos}
InfoOf(c) == CHOOSE info \in Infos : info.col = c

-----------------------------------------------------------------------------
(* From JSON to bound values: each type of column has a field of its own   *)
(* in the data.                                                            *)

ToInt(n) == ((n + IntMax + 1) % (2 * (IntMax + 1))) - (IntMax + 1)
Fits(value, type) == value = Null \/ value \in IF type = "text" THEN Texts ELSE Int

Field(type) == CASE type = "int" -> "i" [] type = "int64" -> "i64" [] OTHER -> "value"
Stored(type, value) == IF type = "int" THEN ToInt(value) ELSE value
Blank(type) == IF type = "text" THEN Empty ELSE 0

Unbound == [c \in Cols |-> [has |-> FALSE, null |-> FALSE, i |-> 0, i64 |-> 0, value |-> Null]]
Given(d, c) == d[c].has \/ InfoOf(c).default # NoDefault

(* A value of the wrong type ends the iteration over the keys, which come  *)
(* in the order of a tree: any of the others may come first.  Keys that    *)
(* name no column are listed as unused and change nothing.                 *)
Known(json) == {c \in Cols : c \in DOMAIN json}
Mistyped(json) == {c \in Known(json) : ~ Fits(json[c], InfoOf(c).type)}
Reached(json) == IF Mistyped(json) = {} THEN {Known(json)} ELSE SUBSET (Known(json) \ Mistyped(json))

(* populate_usage, for one key: null means nothing to a column that may    *)
(* not be null.                                                            *)
Populated(entry, info, value) ==
    IF value # Null THEN [entry EXCEPT !.has = TRUE, ![Field(info.type)] = Stored(info.type, value)]
    ELSE IF info.not_null THEN entry
    ELSE [entry EXCEPT !.has = TRUE, !.null = TRUE]

FromJson(d, json, used) ==
    [c \in Cols |-> IF c \in used THEN Populated(d[c], InfoOf(c), json[c]) ELSE d[c]]

(* compose_dyn_stmts: what the update sets, and what the insertion names.  *)
UpdateSet(d, json) == {c \in Known(json) : ~ InfoOf(c).no_update /\ Given(d, c)}
InsertColumns(d) == {c \in Cols : Given(d, c) \/ InfoOf(c).not_null}

(* Faulty: the column's default goes before the value given. *)
BoundToDefault(d, c, insert) ==
    LET info == InfoOf(c)
    IN  IF info.default # NoDefault THEN info.default
        ELSE IF d[c].has THEN IF d[c].null /\ ~ info.not_null THEN Null ELSE d[c][Field(info.type)]
        ELSE IF insert /\ info.not_null THEN Blank(info.type) ELSE Null

(* What cee_sqlite3_bind_run_sql binds to the parameter of c. *)
BoundTo(d, c, insert) ==
    LET info == InfoOf(c)
    IN  IF d[c].has THEN IF d[c].null /\ ~ info.not_null THEN Null ELSE d[c][Field(info.type)]
        ELSE IF info.default # NoDefault THEN info.default
        ELSE IF insert /\ info.not_null THEN Blank(info.type)
        ELSE Null

(* cee_json_to_bind_info: the first key whose value is not null fills      *)
(* every entry, as an INT or a TEXT; a parameter named after another key   *)
(* stays unbound.                                                          *)
MayComeFirst(json) == {c \in DOMAIN json : json[c] # Null}
OwnKey(json) == IF json["k"] \in Int THEN ToInt(json["k"]) ELSE json["k"]

-----------------------------------------------------------------------------
(* What a program may give to a call, unless it takes a freedom.           *)
Wide(json) == {c \in Known(json) : /\ InfoOf(c).type = "int" /\ json[c] \in Int
                                   /\ ToInt(json[c]) # json[c]}
Nulled(json) == {c \in Known(json) : json[c] = Null /\ InfoOf(c).not_null /\ ~ InfoOf(c).no_update}

Allowed(op, json) ==
    /\ Mistyped(json) # {} => "mistyped" \in TableFreedoms
    /\ Wide(json) # {} => "wide" \in TableFreedoms
    /\ op = "own_select" /\ OwnKey(json) # json["k"] => "wide" \in TableFreedoms
    /\ op \in {"update", "update_or_insert"} /\ Nulled(json) # {} => "null_update" \in TableFreedoms

KeysOf(list) == {list[n]["k"] : n \in {n \in DOMAIN list : "k" \in DOMAIN list[n]}}
JoinAllowed(list) ==
    /\ InfoOf("k").type = "int64" => "join_int64" \in TableFreedoms
    /\ \A key \in KeysOf(list) :
          /\ key \in Int \cup Texts /\ ~ Fits(key, InfoOf("k").type) => "mistyped" \in TableFreedoms
          /\ key \in Int /\ ToInt(key) # key => "wide" \in TableFreedoms

-----------------------------------------------------------------------------
(* The table. *)
Same(k) == {i \in DOMAIN rows : rows[i]["k"] = k}
Meant(json) == IF "k" \in DOMAIN json THEN Same(json["k"]) ELSE DOMAIN rows
NewRow(d) == [c \in Cols |-> IF c \in InsertColumns(d) THEN BoundTo(d, c, TRUE) ELSE Null]
SetRow(row, d, json) ==
    [c \in Cols |-> IF c \in UpdateSet(d, json) THEN BoundTo(d, c, FALSE) ELSE row[c]]

With(i, row) == [n \in DOMAIN rows \cup {i} |-> IF n = i THEN row ELSE rows[n]]
Refused(row) == DOMAIN rows = Ids \/ row["k"] = Null \/ (Unique /\ Same(row["k"]) # {})

(* The counters of the connection after a statement that changed n rows.   *)
Changed(n) == changes' = n /\ earlier' = (earlier \/ n > 0)
NothingChanged == UNCHANGED <<rows, changes, earlier>>

-----------------------------------------------------------------------------
NoCall == [op |-> "none"]
CallAt(pc) == call.op # "none" /\ call.pc = pc
Key == BoundTo(data, "k", FALSE)

(* How a statement may go.  One whose parameter found no value, because a  *)
(* value of another type came first, does not run, which is an error too.  *)
Unreached == /\ call.op \in OneRow \ {"insert", "own_select", "next_int"}
             /\ "k" \in DOMAIN call.input /\ ~ Given(data, "k")
Hows == IF Unreached THEN {"prepare"} ELSE {"ok", "prepare", "step"}
Done(c, out) == [c EXCEPT !.pc = "done", !.out = out]
Failed(c) == [Done(c, "failed") EXCEPT !.error = TRUE]

TableInit == /\ rows = [i \in {} |-> Null] /\ changes = 0 /\ earlier = FALSE
             /\ data = Unbound /\ call = NoCall

Started(op, input, first) ==
    [op |-> op, input |-> input, pc |-> first, out |-> "pending", error |-> FALSE, stmts |-> 0,
     left |-> <<>>, got |-> <<>>, matched |-> {}, count |-> 0, first |-> FALSE]

(* cee_sqlite3_generic_opcode up to the call of f, and                     *)
(* cee_sqlite3_bind_data_from_json for the calls that are not opcodes.     *)
(* The status that the former makes is an object, which the select of      *)
(* cee_sqlite3_select_op refuses.                                          *)
Begin(op, json) ==
    LET first == CASE op = "insert" -> "insert"
                 [] op = "delete" -> "delete"
                 [] op \in {"update", "update_or_insert"} -> "probe"
                 [] op = "select_op" -> "segfault"
                 [] OTHER -> "select"
        before == IF "reuse" \in TableFreedoms THEN data ELSE Unbound
    IN  /\ ("k" \in DOMAIN json \/ op \in {"select", "select_op"})
        /\ op = "next_int" => InfoOf("k").type # "text"
        /\ Allowed(op, json)
        /\ IF op = "own_select" THEN data' = before
           ELSE \E used \in Reached(json) : data' = FromJson(before, json, used)
        /\ call' = [Started(op, json, first) EXCEPT !.error = op # "own_select" /\ Mistyped(json) # {}]
        /\ NothingChanged

(* The SELECT that cee_sqlite3_update_if_exists and _update_or_insert      *)
(* begin with.  The latter inserts whenever there is no row, the former    *)
(* returns; a failed step is in no status.                                 *)
Probe(how) ==
    /\ CallAt("probe")
    /\ \/ how = "ok" \/ "select_fails" \in TableFreedoms
       \/ how = "prepare" /\ (call.op = "update" \/ Unreached)
    /\ LET c == [call EXCEPT !.error = @ \/ how = "prepare"]
       IN  call' = IF how = "ok" /\ Same(Key) # {}
                   THEN IF UpdateSet(data, call.input) = {} THEN Done(c, "nothing")
                        ELSE [c EXCEPT !.pc = "update"]
                   ELSE IF call.op = "update_or_insert" THEN [c EXCEPT !.pc = "insert"]
                   ELSE Done(c, IF how = "ok" THEN "nothing" ELSE "failed")
    /\ NothingChanged /\ UNCHANGED data

(* cee_sqlite3_update reports what the connection has changed in all, the  *)
(* rows of this update among them; update_or_insert reports no number.     *)
Update(how) ==
    /\ CallAt("update")
    /\ IF how = "ok"
       THEN LET n == Cardinality(Same(Key))
            IN  /\ rows' = [i \in DOMAIN rows |-> IF i \in Same(Key) THEN SetRow(rows[i], data, call.input)
                                                  ELSE rows[i]]
                /\ Changed(n)
                /\ \E before \in IF earlier THEN 1..MaxEarlier ELSE {0} :
                      call' = [Done(call, "updated") EXCEPT
                                 !.got = IF call.op = "update" THEN <<before + n>> ELSE <<>>,
                                 !.count = Cardinality(Meant(call.input)), !.first = ~ earlier]
       ELSE call' = Failed(call) /\ NothingChanged
    /\ UNCHANGED data

(* Faulty: a refused insertion is not reported. *)
InsertQuiet(how) ==
    LET row == NewRow(data)
    IN  /\ CallAt("insert")
        /\ IF how = "ok" /\ ~ Refused(row)
           THEN /\ \E i \in Ids \ DOMAIN rows : rows' = With(i, row)
                /\ Changed(1) /\ call' = Done(call, "inserted")
           ELSE call' = Done(call, "failed") /\ NothingChanged
        /\ UNCHANGED data

(* cee_sqlite3_insert, and the INSERT of the other calls. *)
Insert(how) ==
    LET row == NewRow(data)
    IN  /\ CallAt("insert")
        /\ IF how = "ok" /\ ~ Refused(row)
           THEN /\ \E i \in Ids \ DOMAIN rows : rows' = With(i, row)
                /\ Changed(1) /\ call' = Done(call, "inserted")
           ELSE call' = Failed(call) /\ NothingChanged
        /\ UNCHANGED data

(* Faulty: the number is read before the statement runs. *)
DeleteCountsBefore(how) ==
    /\ CallAt("delete")
    /\ IF how = "ok"
       THEN /\ rows' = [i \in DOMAIN rows \ Same(Key) |-> rows[i]]
            /\ Changed(Cardinality(Same(Key)))
            /\ call' = [Done(call, "deleted") EXCEPT !.got = <<changes>>,
                                                     !.count = Cardinality(Meant(call.input))]
       ELSE call' = [Failed(call) EXCEPT !.got = <<changes>>] /\ NothingChanged
    /\ UNCHANGED data

(* cee_sqlite3_delete: it reports the changes of the last statement that   *)
(* succeeded, even when its own has failed.                                *)
Delete(how) ==
    /\ CallAt("delete")
    /\ IF how = "ok"
       THEN /\ rows' = [i \in DOMAIN rows \ Same(Key) |-> rows[i]]
            /\ Changed(Cardinality(Same(Key)))
            /\ call' = [Done(call, "deleted") EXCEPT !.got = <<changes'>>,
                                                     !.count = Cardinality(Meant(call.input))]
       ELSE call' = [Failed(call) EXCEPT !.got = <<changes>>] /\ NothingChanged
    /\ UNCHANGED data

-----------------------------------------------------------------------------
(* Selects.  cee_sqlite3_select_iter appends the row it is on, then        *)
(* fetches the next.                                                       *)
Finalized(c) == [c EXCEPT !.stmts = 0, !.pc = "selected"]

(* Faulty: the loop fetches before it appends. *)
OpenedLate(ids) ==
    LET c == [call EXCEPT !.stmts = 1, !.left = IF ids = <<>> THEN ids ELSE Tail(ids)]
    IN  IF c.left = <<>> THEN Finalized(c) ELSE [c EXCEPT !.pc = "rows"]
Opened(ids) ==
    LET c == [call EXCEPT !.stmts = 1, !.left = ids]
    IN  IF ids = <<>> THEN Finalized(c) ELSE [c EXCEPT !.pc = "rows"]

(* The rows come in the order of their ids.                                *)
Orders(S) == {ids \in [1..Cardinality(S) -> S] : \A m, n \in DOMAIN ids : m < n => ids[m] < ids[n]}

(* A select without info of its own binds what cee_json_to_bind_info makes *)
(* of the input, and dies of a first value of another type.                *)
Selecting == IF call.op = "own_select" THEN Same(OwnKey(call.input))
             ELSE IF "k" \in DOMAIN call.input THEN Same(Key) ELSE DOMAIN rows
Parameters == IF call.op = "own_select" THEN MayComeFirst(call.input) ELSE {"k"}

(* A statement whose first step failed is not finalized, nor is one with   *)
(* an unbound parameter.                                                   *)
OpenRows(how) ==
    /\ CallAt("select") /\ call.op # "next_int"
    /\ \E bound \in Parameters :
          IF call.op = "own_select" /\ call.input[bound] = Bad THEN call' = [call EXCEPT !.pc = "segfault"]
          ELSE IF how = "prepare" THEN call' = Failed(call)
          ELSE IF bound # "k" \/ how = "step" THEN call' = [Failed(call) EXCEPT !.stmts = 1]
          ELSE \E ids \in Orders(Selecting) :
                  call' = [Opened([n \in DOMAIN ids |-> rows[ids[n]]]) EXCEPT
                              !.matched = {rows[i] : i \in Meant(call.input)}]
    /\ NothingChanged /\ UNCHANGED data

(* Faulty: the statement is left to whoever reads on. *)
FetchLeaks(how) ==
    /\ CallAt("rows") /\ how = "ok"
    /\ LET c == [call EXCEPT !.got = Append(@, Head(call.left)), !.left = Tail(@)]
       IN  call' = IF c.left = <<>> THEN [c EXCEPT !.pc = "selected"] ELSE c
    /\ NothingChanged /\ UNCHANGED data
FetchStays(how) == CallAt("rows") /\ UNCHANGED table

(* After a failed fetch the loop appends a row of nulls, and the next      *)
(* fetch runs the statement from its beginning.                            *)
Fetch(how) ==
    /\ CallAt("rows") /\ (how = "ok" \/ "step_fails" \in TableFreedoms)
    /\ LET c == [call EXCEPT !.got = Append(@, Head(call.left)), !.left = Tail(@)]
           again == <<[x \in Cols |-> Null]>> \o call.got \o call.left
       IN  call' = IF how # "ok" THEN [c EXCEPT !.left = again]
                   ELSE IF c.left = <<>> THEN Finalized(c) ELSE c
    /\ NothingChanged /\ UNCHANGED data

(* The end of cee_sqlite3_select and, with the first of the rows, of       *)
(* cee_sqlite3_select1; select1_or_insert inserts if there is none.        *)
Selected == /\ CallAt("selected")
            /\ call' = IF call.op = "select1_or_insert" /\ call.got = <<>>
                       THEN [call EXCEPT !.pc = "insert"] ELSE Done(call, "nothing")
            /\ NothingChanged /\ UNCHANGED data

(* cee_sqlite3_next_int: one more than the greatest key, both as an int. *)
NextInt(how) ==
    /\ CallAt("select") /\ call.op = "next_int"
    /\ LET keys == {rows[i]["k"] : i \in DOMAIN rows}
           next == IF keys = {} THEN 1
                   ELSE ToInt(1 + ToInt(CHOOSE k \in keys : \A m \in keys : m <= k))
       IN  call' = IF how = "ok" THEN [Done(call, "nothing") EXCEPT !.got = <<next>>] ELSE Failed(call)
    /\ NothingChanged /\ UNCHANGED data

-----------------------------------------------------------------------------
(* Joins and arrays: one element after the other.  A join has an info of   *)
(* its own, of the key only, and data in which the elements replace the    *)
(* value of the key if there is one to replace; an insertion binds numbers *)
(* as INT64, texts as TEXT.                                                *)
BeginList(op, list) ==
    /\ op = "join" => JoinAllowed(list)
    /\ op = "insert_array" => \A n \in DOMAIN list : DOMAIN list[n] = Cols /\ Mistyped(list[n]) = {}
    /\ \E json \in Inputs : data' = FromJson(Unbound, json, {"k"} \cap (Known(json) \ Mistyped(json)))
    /\ call' = Started(op, list, op) /\ NothingChanged

Element == call.input[Len(call.got) + 1]
NoRow == [c \in Cols |-> Null]

(* join_one: a number of the element goes to i and a text to value, for    *)
(* any type of the column; the data is shared by the elements.  The first  *)
(* row that is found is merged into the element.                           *)
(* Faulty: what the element before has left is kept.                       *)
ReboundOnce(d, c, value) ==
    IF d[c].i # 0 \/ d[c].value # Null THEN d
    ELSE IF value \in Int THEN [d EXCEPT ![c].i = ToInt(value)] ELSE [d EXCEPT ![c].value = value]
Rebound(d, c, value) ==
    IF value \in Int THEN [d EXCEPT ![c].i = ToInt(value)] ELSE [d EXCEPT ![c].value = value]

Join(how) ==
    /\ CallAt("join") /\ Len(call.got) < Len(call.input)
    /\ IF data["k"].has /\ ("k" \notin DOMAIN Element \/ Element["k"] \notin Int \cup Texts)
       THEN call' = Failed(call) /\ UNCHANGED data
       ELSE /\ data' = IF data["k"].has THEN Rebound(data, "k", Element["k"]) ELSE data
            /\ LET found == {i \in DOMAIN rows : /\ data["k"].has
                                                 /\ rows[i]["k"] = data'["k"][Field(InfoOf("k").type)]}
                   row == IF found = {} THEN NoRow ELSE rows[CHOOSE i \in found : \A j \in found : i <= j]
               IN  call' = IF how = "ok" THEN [call EXCEPT !.got = Append(@, row)] ELSE Failed(call)
    /\ NothingChanged

(* insert_one_json_object, whose errors are printed and forgotten. *)
InsertElement(how) ==
    /\ CallAt("insert_array") /\ Len(call.got) < Len(call.input)
    /\ IF how = "ok" /\ ~ Refused(Element)
       THEN /\ \E i \in Ids \ DOMAIN rows : rows' = With(i, Element)
            /\ Changed(1) /\ call' = [call EXCEPT !.got = Append(@, Element)]
       ELSE call' = [call EXCEPT !.got = Append(@, NoRow)] /\ NothingChanged
    /\ UNCHANGED data

(* An array some element of which was not inserted has failed, without an  *)
(* error.                                                                  *)
EndList == /\ CallAt("join") \/ CallAt("insert_array")
           /\ Len(call.got) = Len(call.input)
           /\ call' = Done(call, IF call.op = "insert_array" /\ NoRow \in Range(call.got)
                                 THEN "failed" ELSE "nothing")
           /\ NothingChanged /\ UNCHANGED data

Return == CallAt("done") /\ call' = NoCall /\ NothingChanged /\ UNCHANGED data

(* The other connection. *)
Other ==
    /\ UNCHANGED <<changes, earlier, data, call>>
    /\ \/ \E json \in Inputs, i \in Ids \ DOMAIN rows :
             /\ Cardinality(DOMAIN rows) + 1 < Cardinality(Ids)
             /\ "k" \in DOMAIN json /\ Mistyped(json) = {}
             /\ LET row == NewRow(FromJson(Unbound, json, Known(json)))
                IN  ~ Refused(row) /\ rows' = With(i, row)
       \/ \E i \in DOMAIN rows :
             /\ "others_delete" \in TableFreedoms \/ call = NoCall
             /\ rows' = [n \in DOMAIN rows \ {i} |-> rows[n]]

Step == \/ \E how \in Hows : \/ Probe(how) \/ Update(how) \/ Insert(how) \/ Delete(how)
                             \/ OpenRows(how) \/ Fetch(how) \/ NextInt(how)
                             \/ Join(how) \/ InsertElement(how)
        \/ Selected \/ EndList \/ Return

TableNext == \/ /\ call = NoCall
                /\ \/ \E op \in Ops \ {"join", "insert_array"}, json \in Inputs : Begin(op, json)
                   \/ \E op \in Ops \cap {"join", "insert_array"}, list \in Lists : BeginList(op, list)
             \/ Step \/ Other

(* A call that has begun goes on. *)
TableSpec == TableInit /\ [][TableNext]_table /\ WF_table(Step)

-----------------------------------------------------------------------------
(* Safety: a call that is over reports an error exactly if it failed,      *)
(* except that insertions of arrays report none.                           *)
MarksErrors == CallAt("done") => \/ call.error <=> call.out = "failed"
                                 \/ call.op = "insert_array" /\ ~ call.error

(* Safety: a call that is over leaves a prepared statement behind only if  *)
(* it reports an error.                                                    *)
LeaksOnlyOnError == CallAt("done") => call.stmts = 0 \/ call.error

(* Safety: a select that succeeds has every row that had the key it asked  *)
(* for when it began exactly once, whatever the other connection inserts   *)
(* meanwhile.                                                              *)
RowsOnce ==
    (CallAt("done") /\ call.op \in {"select", "own_select"} /\ ~ call.error) =>
        /\ Cardinality(Range(call.got)) = Len(call.got)
        /\ Range(call.got) = call.matched

(* Safety: an element that is joined has the row of its own key, or none.  *)
JoinedByOwnKey ==
    call.op = "join" =>
        \A n \in DOMAIN call.got :
            \/ call.got[n]["k"] = Null
            \/ "k" \in DOMAIN call.input[n] /\ call.got[n]["k"] = call.input[n]["k"]

(* Safety: the number that a deletion reports is that of the rows that had *)
(* the key, and so is the number of an update if the connection had        *)
(* changed nothing before.                                                 *)
CountsOwnRows ==
    (CallAt("done") /\ (call.out = "deleted" \/ (call.op = "update" /\ call.out = "updated" /\ call.first)))
        => call.got = <<call.count>>

(* Safety: what a call that is over says of itself and of the rows it      *)
(* returns is true, with the two exceptions that MarksErrors and           *)
(* CountsOwnRows name.                                                     *)
ReportsTruly == MarksErrors /\ LeaksOnlyOnError /\ RowsOnce /\ JoinedByOwnKey /\ CountsOwnRows

(* Liveness: every call returns. *)
CallsReturn == call.op # "none" ~> call = NoCall

(* Refinement: each call is one step on a table, from the JSON object to   *)
(* the row, whatever the other connection inserts between its statements.  *)
(* As cee-sqlite3.h has it, not_null is about insertions only.             *)
NewOf(json) == [c \in Cols |->
    IF c \in DOMAIN json /\ json[c] # Null THEN json[c]
    ELSE IF c \in DOMAIN json /\ ~ InfoOf(c).not_null THEN Null
    ELSE IF InfoOf(c).default # NoDefault THEN InfoOf(c).default
    ELSE IF InfoOf(c).not_null THEN Blank(InfoOf(c).type) ELSE Null]
PatchOf(row, json) == [c \in Cols |->
    IF c \in DOMAIN json /\ ~ InfoOf(c).no_update THEN json[c] ELSE row[c]]

Requested == call.op \in OneRow
Table == INSTANCE KeyedTable WITH
    New <- NewOf, Patch <- PatchOf,
    Ops <- OneRow,
    request <- IF Requested THEN [op |-> call.op, input |-> call.input] ELSE NoCall,
    outcome <- IF Requested THEN call.out ELSE "none"
ImplementsTable == Table!Spec
=============================================================================
