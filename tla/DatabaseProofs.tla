---------------------------- MODULE DatabaseProofs ----------------------------
(***************************************************************************)
(* Proofs about the two modules over SQLite.                               *)
(*                                                                         *)
(* CeeSqlite, for any columns, any JSON objects and any bound on the rows: *)
(* a call that is over reports truly, and each call is one step on a keyed *)
(* table, whatever the other connection inserts between its statements.    *)
(*                                                                         *)
(* CeeDbm, for any number of versions, any migrations and any data: what   *)
(* an initialisation leaves behind is sound, wherever earlier ones were    *)
(* cut off, and what was backed up is restored.                            *)
(***************************************************************************)
EXTENDS CeeDbm, CeeSqlite, TLAPS, FiniteSetTheorems, SequenceTheorems, WellFoundedInduction

-----------------------------------------------------------------------------
(* The access layer. *)
Fields == {"op", "input", "pc", "out", "error", "stmts", "left", "got", "matched", "count", "first"}
Shaped(c) == DOMAIN c = Fields /\ c = [f \in Fields |-> c[f]]

(* Where a call of each kind can be.                                       *)
Staged(c) ==
    /\ c.op \in OneRow \cup {"select_op", "join", "insert_array"}
    /\ \/ c.pc = "done"
       \/ c.pc = "insert" /\ c.op \in {"insert", "update_or_insert", "select1_or_insert"}
       \/ c.pc \in {"probe", "update"} /\ c.op \in {"update", "update_or_insert"}
       \/ c.pc = "delete" /\ c.op = "delete"
       \/ c.pc = "select" /\ c.op \in {"select", "own_select", "select1_or_insert", "next_int"}
       \/ c.pc \in {"rows", "selected"} /\ c.op \in {"select", "own_select", "select1_or_insert"}
       \/ c.pc = "join" /\ c.op = "join"
       \/ c.pc = "insert_array" /\ c.op = "insert_array"
       \/ c.pc = "segfault" /\ c.op \in {"select_op", "own_select"}

(* Errors and outcomes go together, except that insertions of arrays make  *)
(* none, and a statement is open only while its rows are fetched or when   *)
(* there was an error.                                                     *)
Outcomes == {"inserted", "updated", "deleted", "nothing", "failed"}
Settled(c) ==
    /\ c.error \in BOOLEAN
    /\ (c.error <=> c.out = "failed") \/ (c.op = "insert_array" /\ ~ c.error)
    /\ IF c.pc = "done" THEN c.out \in Outcomes ELSE c.out = "pending"
    /\ c.stmts = 0 \/ c.pc = "rows" \/ c.error

(* The rows got and the rows left are those that matched, each once.       *)
OneToOne(s, S) ==
    /\ s \in Seq(S)
    /\ \A m, n \in 1..Len(s) : s[m] = s[n] => m = n
    /\ \A e \in S : \E n \in 1..Len(s) : s[n] = e
Collected(c) ==
    /\ c.pc = "select" => c.got = <<>>
    /\ (c.op \in {"select", "own_select", "select1_or_insert"} /\
        (c.pc \in {"rows", "selected"}
         \/ (c.pc = "done" /\ c.op \in {"select", "own_select"} /\ ~ c.error))) =>
           /\ c.got \in Seq(c.matched) /\ c.left \in Seq(c.matched)
           /\ c.pc = "rows" <=> c.left # <<>>
           /\ OneToOne(c.got \o c.left, c.matched)

(* What a change is said to have changed is what had the key.              *)
Counted(c) ==
    (c.pc = "done" /\ (c.out = "deleted" \/ (c.op = "update" /\ c.out = "updated" /\ c.first)))
        => c.got = <<c.count>>

(* The data is what the input of the call gives.                           *)
Bound(c, d) == c.op \in OneRow =>
    /\ c.input \in Inputs /\ ("k" \in DOMAIN c.input \/ c.op = "select")
    /\ Mistyped(c.input) = {} /\ Wide(c.input) = {}
    /\ c.op \in {"update", "update_or_insert"} => Nulled(c.input) = {}
    /\ IF c.op = "own_select" THEN OwnKey(c.input) = c.input["k"]
       ELSE d = FromJson(Unbound, c.input, Known(c.input))

(* The lists, the elements joined so far, and the entries that the key of  *)
(* the next one is put in.                                                 *)
Entry(e) == LET fields == {"has", "null", "i", "i64", "value"}
            IN  DOMAIN e = fields /\ e = [f \in fields |-> e[f]]
Entries(d) == DOMAIN d = Cols /\ d = [x \in Cols |-> d[x]] /\ \A x \in Cols : Entry(d[x])
Listed(c) ==
    c.op \in {"join", "insert_array"} =>
        /\ c.input \in Lists /\ \E S : c.got \in Seq(S)
        /\ c.op = "join" => JoinAllowed(c.input)
        /\ c.op = "insert_array" => \A n \in DOMAIN c.input : DOMAIN c.input[n] = Cols
OwnRow(row, element) == \/ row["k"] = Null
                        \/ "k" \in DOMAIN element /\ row["k"] = element["k"]
Joined(c, d) ==
    c.op = "join" => Entries(d) /\ \A n \in 1..Len(c.got) : OwnRow(c.got[n], c.input[n])

Fed(c, d) == Bound(c, d) /\ Listed(c) /\ Joined(c, d)

CallSound(c, d) ==
    /\ c.op = "none" => c = NoCall
    /\ c.op # "none" =>
          Shaped(c) /\ Staged(c) /\ Settled(c) /\ Collected(c) /\ Counted(c) /\ Fed(c, d)

(* No two rows have the same key.                                          *)
Keyed(r) == /\ DOMAIN r \subseteq Ids
            /\ \A i, j \in DOMAIN r : r[i]["k"] = r[j]["k"] => i = j

SInv == Keyed(rows) /\ CallSound(call, data)

(* What the program of this layer does not do, and the table does.         *)
WellUsed == /\ Unique = TRUE
            /\ TableFreedoms \cap {"mistyped", "wide", "null_update", "join_int64", "reuse",
                                   "select_fails", "step_fails"} = {}

-----------------------------------------------------------------------------
(* Steps that end a call, or change where it is.                           *)

LEMMA DoneFields ==
    ASSUME NEW c, Shaped(c), NEW out
    PROVE  /\ Shaped(Done(c, out)) /\ Done(c, out).pc = "done" /\ Done(c, out).out = out
           /\ Done(c, out).op = c.op /\ Done(c, out).input = c.input
           /\ Done(c, out).error = c.error /\ Done(c, out).stmts = c.stmts
           /\ Done(c, out).got = c.got /\ Done(c, out).left = c.left
           /\ Done(c, out).matched = c.matched
BY DEF Done, Shaped, Fields

LEMMA FailedFields ==
    ASSUME NEW c, Shaped(c)
    PROVE  /\ Shaped(Failed(c)) /\ Failed(c).pc = "done" /\ Failed(c).out = "failed"
           /\ Failed(c).op = c.op /\ Failed(c).input = c.input
           /\ Failed(c).error = TRUE /\ Failed(c).stmts = c.stmts
           /\ Failed(c).got = c.got /\ Failed(c).left = c.left
           /\ Failed(c).matched = c.matched
<1> DEFINE d == Done(c, "failed")
<1>1. /\ Shaped(d) /\ d.pc = "done" /\ d.out = "failed" /\ d.op = c.op /\ d.input = c.input
      /\ d.error = c.error /\ d.stmts = c.stmts /\ d.got = c.got /\ d.left = c.left
      /\ d.matched = c.matched
  BY DoneFields
<1>2. Failed(c) = [d EXCEPT !.error = TRUE]
  BY DEF Failed
<1> HIDE DEF d
<1> QED BY <1>1, <1>2 DEF Shaped, Fields

(* A call that is over, for good or ill.                                   *)
LEMMA OverSound ==
    ASSUME NEW c, NEW d, Staged(c), Fed(c, d),
           NEW e, Shaped(e), e.op = c.op, e.input = c.input, e.pc = "done", e.out \in Outcomes,
           e.error \in BOOLEAN, (e.error <=> e.out = "failed") \/ (e.op = "insert_array" /\ ~ e.error),
           e.stmts = 0 \/ e.error, e.op \in {"select", "own_select"} => e.error,
           e.op \in {"join", "insert_array"} => e.got = c.got, Counted(e)
    PROVE  CallSound(e, d)
<1>1. Staged(e) /\ e.op # "none"
  BY DEF Staged, OneRow
<1>2. Settled(e)
  BY DEF Settled
<1>3. Collected(e)
  BY DEF Collected
<1>4. Bound(e, d)
  BY DEF Fed, Bound
<1>5. Listed(e) /\ Joined(e, d)
  BY DEF Fed, Listed, Joined
<1> QED BY <1>1, <1>2, <1>3, <1>4, <1>5 DEF CallSound, Fed

LEMMA EndSound ==
    ASSUME NEW c, NEW d, Shaped(c), Staged(c), Settled(c), Fed(c, d), c.pc # "done",
           c.stmts = 0, c.op \notin {"select", "own_select"}, NEW out \in {"inserted", "nothing"}
    PROVE  CallSound(Done(c, out), d)
<1> DEFINE e == Done(c, out)
<1>1. /\ Shaped(e) /\ e.pc = "done" /\ e.out = out /\ e.op = c.op /\ e.input = c.input
      /\ e.error = c.error /\ e.stmts = c.stmts /\ e.got = c.got /\ e.left = c.left
      /\ e.matched = c.matched
  BY DoneFields
<1> HIDE DEF e
<1>2. e.out \in Outcomes /\ e.error = FALSE /\ Counted(e)
  BY <1>1 DEF Outcomes, Settled, Counted
<1>3. CallSound(e, d)
  BY <1>1, <1>2, OverSound
<1> QED BY <1>3 DEF e

LEMMA FailSound ==
    ASSUME NEW c, NEW d, Shaped(c), Staged(c), Fed(c, d)
    PROVE  CallSound(Failed(c), d)
<1> DEFINE e == Failed(c)
<1>1. /\ Shaped(e) /\ e.pc = "done" /\ e.out = "failed" /\ e.op = c.op /\ e.input = c.input
      /\ e.error = TRUE /\ e.stmts = c.stmts /\ e.got = c.got /\ e.left = c.left
      /\ e.matched = c.matched
  BY FailedFields
<1> HIDE DEF e
<1>2. e.out \in Outcomes /\ Counted(e)
  BY <1>1 DEF Outcomes, Counted
<1>3. CallSound(e, d)
  BY <1>1, <1>2, OverSound
<1> QED BY <1>3 DEF e

(* A call goes on to another place.                                        *)
LEMMA MovesFields ==
    ASSUME NEW c, Shaped(c), NEW pc
    PROVE  LET e == [c EXCEPT !.pc = pc]
           IN  /\ Shaped(e) /\ e.pc = pc /\ e.out = c.out /\ e.op = c.op /\ e.input = c.input
               /\ e.error = c.error /\ e.stmts = c.stmts /\ e.got = c.got /\ e.left = c.left
               /\ e.matched = c.matched
BY DEF Shaped, Fields

(* The places where no rows are held.                                      *)
LEMMA MovesSound ==
    ASSUME NEW c, NEW d, Shaped(c), Staged(c), Settled(c), Fed(c, d), c.pc # "done",
           c.stmts = 0, NEW pc \in {"insert", "update", "segfault"},
           Staged([c EXCEPT !.pc = pc])
    PROVE  CallSound([c EXCEPT !.pc = pc], d)
<1> DEFINE e == [c EXCEPT !.pc = pc]
<1>1. /\ Shaped(e) /\ e.pc = pc /\ e.out = c.out /\ e.op = c.op /\ e.input = c.input
      /\ e.error = c.error /\ e.stmts = c.stmts /\ e.got = c.got /\ e.left = c.left
      /\ e.matched = c.matched
  BY MovesFields
<1>2. Staged(e)
  OBVIOUS
<1> HIDE DEF e
<1>3. Settled(e) /\ e.op # "none"
  BY <1>1, <1>2 DEF Settled, Staged, OneRow
<1>4. Collected(e) /\ Counted(e)
  BY <1>1 DEF Collected, Counted
<1>5. Fed(e, d)
  BY <1>1 DEF Fed, Bound, Listed, Joined
<1> QED BY <1>1, <1>2, <1>3, <1>4, <1>5 DEF CallSound, e

-----------------------------------------------------------------------------
(* What is bound for a JSON object is what the table takes it for.         *)

LEMMA KeyIsColumn == "k" \in Cols
BY SqliteAssumption DEF Cols

LEMMA InfoOfColumn ==
    ASSUME NEW c \in Cols
    PROVE  /\ InfoOf(c).not_null \in BOOLEAN /\ InfoOf(c).no_update \in BOOLEAN
           /\ InfoOf(c).type \in {"int", "int64", "text"}
<1>1. \E i \in Infos : i.col = c
  BY DEF Cols
<1>2. InfoOf(c) \in Infos
  BY <1>1 DEF InfoOf
<1> QED BY <1>2, SqliteAssumption

(* A value that is bound is the one that was given, if it has the type of  *)
(* its column and fits into it.                                            *)
LEMMA StoredIsGiven ==
    ASSUME NEW json, Mistyped(json) = {}, Wide(json) = {}, NEW c \in Cols, c \in DOMAIN json,
           json[c] # Null
    PROVE  Stored(InfoOf(c).type, json[c]) = json[c]
<1>1. c \in Known(json)
  BY DEF Known
<1>2. Fits(json[c], InfoOf(c).type)
  BY <1>1 DEF Mistyped
<1>3. InfoOf(c).type = "int" => json[c] \in Int /\ ToInt(json[c]) = json[c]
  BY <1>1, <1>2 DEF Fits, Wide
<1> QED BY <1>3 DEF Stored

LEMMA ReadEntry ==
    ASSUME NEW json, Mistyped(json) = {}, Wide(json) = {}, NEW c \in Cols,
           NEW d, d = FromJson(Unbound, json, Known(json))
    PROVE  /\ d[c].has <=> c \in DOMAIN json /\ (json[c] # Null \/ ~ InfoOf(c).not_null)
           /\ d[c].null <=> c \in DOMAIN json /\ json[c] = Null /\ ~ InfoOf(c).not_null
           /\ c \in DOMAIN json /\ json[c] # Null => d[c][Field(InfoOf(c).type)] = json[c]
<1>1. d[c] = IF c \in DOMAIN json THEN Populated(Unbound[c], InfoOf(c), json[c]) ELSE Unbound[c]
  BY DEF FromJson, Known
<1>2. Unbound[c] = [has |-> FALSE, null |-> FALSE, i |-> 0, i64 |-> 0, value |-> Null]
  BY DEF Unbound
<1> HIDE DEF Unbound
<1>3. CASE c \notin DOMAIN json
  BY <1>1, <1>2, <1>3
<1>4. CASE c \in DOMAIN json /\ json[c] # Null
  <2> DEFINE field == Field(InfoOf(c).type)
             value == Stored(InfoOf(c).type, json[c])
  <2>1. d[c] = [[Unbound[c] EXCEPT !.has = TRUE] EXCEPT ![field] = value]
    BY <1>1, <1>4 DEF Populated
  <2>2. field \in {"i", "i64", "value"}
    BY DEF Field
  <2>3. value = json[c]
    BY <1>4, StoredIsGiven
  <2> HIDE DEF field, value
  <2>4. d[c].has = TRUE /\ d[c].null = FALSE /\ d[c][field] = value
    BY <1>2, <2>1, <2>2
  <2> QED BY <1>4, <2>3, <2>4 DEF field
<1>5. CASE c \in DOMAIN json /\ json[c] = Null /\ InfoOf(c).not_null
  BY <1>1, <1>2, <1>5 DEF Populated
<1>6. CASE c \in DOMAIN json /\ json[c] = Null /\ ~ InfoOf(c).not_null
  <2>1. d[c] = [[Unbound[c] EXCEPT !.has = TRUE] EXCEPT !.null = TRUE]
    BY <1>1, <1>6 DEF Populated
  <2>2. d[c].has = TRUE /\ d[c].null = TRUE
    BY <1>2, <2>1
  <2> QED BY <1>6, <2>2
<1> QED BY <1>3, <1>4, <1>5, <1>6

LEMMA NewRowIsNew ==
    ASSUME NEW json, Mistyped(json) = {}, Wide(json) = {}
    PROVE  NewRow(FromJson(Unbound, json, Known(json))) = NewOf(json)
<1> DEFINE d == FromJson(Unbound, json, Known(json))
<1> SUFFICES ASSUME NEW c \in Cols
             PROVE  (IF c \in InsertColumns(d) THEN BoundTo(d, c, TRUE) ELSE Null)
                  = (IF c \in DOMAIN json /\ json[c] # Null THEN json[c]
                     ELSE IF c \in DOMAIN json /\ ~ InfoOf(c).not_null THEN Null
                     ELSE IF InfoOf(c).default # NoDefault THEN InfoOf(c).default
                     ELSE IF InfoOf(c).not_null THEN Blank(InfoOf(c).type) ELSE Null)
  BY DEF NewRow, NewOf
<1>1. /\ d[c].has <=> c \in DOMAIN json /\ (json[c] # Null \/ ~ InfoOf(c).not_null)
      /\ d[c].null <=> c \in DOMAIN json /\ json[c] = Null /\ ~ InfoOf(c).not_null
      /\ c \in DOMAIN json /\ json[c] # Null => d[c][Field(InfoOf(c).type)] = json[c]
  BY ReadEntry
<1> HIDE DEF d
<1> QED BY <1>1 DEF InsertColumns, BoundTo, Given

LEMMA SetRowIsPatch ==
    ASSUME NEW json, Mistyped(json) = {}, Wide(json) = {}, Nulled(json) = {}, NEW row
    PROVE  SetRow(row, FromJson(Unbound, json, Known(json)), json) = PatchOf(row, json)
<1> DEFINE d == FromJson(Unbound, json, Known(json))
<1> SUFFICES ASSUME NEW c \in Cols
             PROVE  (IF c \in UpdateSet(d, json) THEN BoundTo(d, c, FALSE) ELSE row[c])
                  = (IF c \in DOMAIN json /\ ~ InfoOf(c).no_update THEN json[c] ELSE row[c])
  BY DEF SetRow, PatchOf
<1>1. /\ d[c].has <=> c \in DOMAIN json /\ (json[c] # Null \/ ~ InfoOf(c).not_null)
      /\ d[c].null <=> c \in DOMAIN json /\ json[c] = Null /\ ~ InfoOf(c).not_null
      /\ c \in DOMAIN json /\ json[c] # Null => d[c][Field(InfoOf(c).type)] = json[c]
  BY ReadEntry
<1>2. (c \in DOMAIN json /\ json[c] = Null /\ ~ InfoOf(c).no_update) => ~ InfoOf(c).not_null
  BY DEF Nulled, Known
<1> HIDE DEF d
<1> QED BY <1>1, <1>2 DEF UpdateSet, Known, BoundTo, Given

KeyIn(d) == BoundTo(d, "k", FALSE)

LEMMA KeyIsGiven ==
    ASSUME NEW json \in Inputs, Mistyped(json) = {}, Wide(json) = {}, "k" \in DOMAIN json
    PROVE  /\ KeyIn(FromJson(Unbound, json, Known(json))) = json["k"]
           /\ FromJson(Unbound, json, Known(json))["k"].has
           /\ NewOf(json)["k"] = json["k"]
<1> DEFINE d == FromJson(Unbound, json, Known(json))
<1>1. json["k"] # Null
  BY SqliteAssumption
<1>2. d["k"].has /\ d["k"][Field(InfoOf("k").type)] = json["k"] /\ ~ d["k"].null
  BY <1>1, KeyIsColumn, ReadEntry
<1> HIDE DEF d
<1>3. KeyIn(d) = json["k"]
  BY <1>2 DEF KeyIn, BoundTo
<1> QED BY <1>1, <1>2, <1>3, KeyIsColumn DEF NewOf, d

(* The rows of a key, and those of the key that the call is about.         *)
Having(r, k) == {i \in DOMAIN r : r[i]["k"] = k}
Mine == Having(rows, call.input["k"])

LEMMA BoundMeans ==
    ASSUME Bound(call, data), call.op \in OneRow \ {"select", "own_select"}
    PROVE  /\ Same(Key) = Mine /\ Meant(call.input) = Mine /\ NewRow(data) = NewOf(call.input)
           /\ call.op \in {"update", "update_or_insert"} =>
                 \A row : SetRow(row, data, call.input) = PatchOf(row, call.input)
           /\ Same(NewRow(data)["k"]) = Mine /\ ~ Unreached
<1>1. /\ call.input \in Inputs /\ Mistyped(call.input) = {} /\ Wide(call.input) = {}
      /\ data = FromJson(Unbound, call.input, Known(call.input))
      /\ "k" \in DOMAIN call.input
      /\ call.op \in {"update", "update_or_insert"} => Nulled(call.input) = {}
  BY DEF Bound
<1>2. KeyIn(data) = call.input["k"] /\ NewOf(call.input)["k"] = call.input["k"] /\ data["k"].has
  BY <1>1, KeyIsGiven
<1>3. NewRow(data) = NewOf(call.input)
  BY <1>1, NewRowIsNew
<1>4. call.op \in {"update", "update_or_insert"} =>
         \A row : SetRow(row, data, call.input) = PatchOf(row, call.input)
  BY <1>1, SetRowIsPatch
<1>5. Same(Key) = Mine /\ Same(NewRow(data)["k"]) = Mine
  BY <1>2, <1>3 DEF Same, Key, KeyIn, Mine, Having
<1>6. Meant(call.input) = Mine
  BY <1>1 DEF Meant, Same, Mine, Having
<1>7. ~ Unreached
  BY <1>2 DEF Unreached, Given
<1> QED BY <1>3, <1>4, <1>5, <1>6, <1>7

(* A select asks for what it was meant to ask for.                         *)
LEMMA SelectsWhatIsMeant ==
    ASSUME Bound(call, data), call.op \in {"select", "own_select", "select1_or_insert"}
    PROVE  Selecting = Meant(call.input)
<1>1. /\ call.input \in Inputs /\ Mistyped(call.input) = {} /\ Wide(call.input) = {}
      /\ "k" \in DOMAIN call.input \/ call.op = "select"
      /\ IF call.op = "own_select" THEN OwnKey(call.input) = call.input["k"]
         ELSE data = FromJson(Unbound, call.input, Known(call.input))
  BY DEF Bound, OneRow
<1>2. CASE call.op = "own_select"
  BY <1>1, <1>2 DEF Selecting, Meant
<1>3. CASE call.op # "own_select" /\ "k" \in DOMAIN call.input
  <2>1. Key = call.input["k"]
    BY <1>1, <1>3, KeyIsGiven DEF Key, KeyIn
  <2> QED BY <1>3, <2>1 DEF Selecting, Meant
<1>4. CASE call.op # "own_select" /\ "k" \notin DOMAIN call.input
  BY <1>4 DEF Selecting, Meant
<1> QED BY <1>2, <1>3, <1>4

-----------------------------------------------------------------------------
LEMMA LeastIn ==
    ASSUME NEW S \in SUBSET Nat, S # {}
    PROVE  \E m \in S : \A j \in S : m <= j
<1>1. PICK m \in S : \A n \in S : ~ (<<n, m>> \in OpToRel(<, Nat))
  BY NatLessThanWellFounded, WFMin
<1>2. \A n \in S : ~ (n < m)
  BY <1>1 DEF OpToRel
<1> QED BY <1>2

(* The table keeps its keys apart.                                         *)

LEMMA AddedKeyed ==
    ASSUME WellUsed, Keyed(rows), NEW row, ~ Refused(row), NEW i \in Ids \ DOMAIN rows
    PROVE  Keyed(With(i, row))
BY DEF WellUsed, Keyed, Refused, Same, With

LEMMA RemovedKeyed ==
    ASSUME Keyed(rows), NEW S \in SUBSET DOMAIN rows
    PROVE  Keyed([i \in S |-> rows[i]])
BY DEF Keyed

(* The rows of a key can be counted.                                       *)
LEMMA SameIsFinite ==
    ASSUME Keyed(rows), NEW k
    PROVE  Cardinality(Same(k)) \in Nat
<1>1. Same(k) \subseteq Ids /\ IsFiniteSet(Ids)
  BY SqliteAssumption DEF Same, Keyed
<1> QED BY <1>1, FS_Subset, FS_CardinalityType

(* An update leaves the key as it is.                                      *)
LEMMA UpdatedKey ==
    ASSUME NEW d, NEW json, NEW row, row["k"] = KeyIn(d)
    PROVE  SetRow(row, d, json)["k"] = row["k"]
BY KeyIsColumn DEF SetRow, KeyIn

LEMMA UpdatedKeyed ==
    ASSUME Keyed(rows), NEW json
    PROVE  Keyed([i \in DOMAIN rows |-> IF i \in Same(Key) THEN SetRow(rows[i], data, json) ELSE rows[i]])
<1> DEFINE r == [i \in DOMAIN rows |-> IF i \in Same(Key) THEN SetRow(rows[i], data, json) ELSE rows[i]]
<1>1. ASSUME NEW i \in DOMAIN rows PROVE r[i]["k"] = rows[i]["k"]
  <2>1. CASE i \in Same(Key)
    <3>1. rows[i]["k"] = KeyIn(data)
      BY <2>1 DEF Same, Key, KeyIn
    <3>2. SetRow(rows[i], data, json)["k"] = rows[i]["k"]
      BY <3>1, UpdatedKey
    <3>3. r[i] = SetRow(rows[i], data, json)
      BY <2>1
    <3> QED BY <3>2, <3>3
  <2>2. CASE i \notin Same(Key)
    BY <2>2
  <2> QED BY <2>1, <2>2
<1>2. DOMAIN r = DOMAIN rows
  OBVIOUS
<1> HIDE DEF r
<1>3. Keyed(r)
  BY <1>1, <1>2 DEF Keyed
<1> QED BY <1>3 DEF r

-----------------------------------------------------------------------------
(* The steps of the calls about one row.                                   *)

LEMMA SInvParts ==
    ASSUME SInv, call.op # "none"
    PROVE  /\ Shaped(call) /\ Staged(call) /\ Settled(call) /\ Collected(call) /\ Fed(call, data)
           /\ Keyed(rows)
BY DEF SInv, CallSound

LEMMA BeginSound ==
    ASSUME WellUsed, SInv, NEW op \in Ops \ {"join", "insert_array"}, NEW json \in Inputs, Begin(op, json)
    PROVE  SInv'
<1> DEFINE first == CASE op = "insert" -> "insert"
                      [] op = "delete" -> "delete"
                      [] op \in {"update", "update_or_insert"} -> "probe"
                      [] op = "select_op" -> "segfault"
                      [] OTHER -> "select"
<1> DEFINE c == Started(op, json, first)
<1>1. op \in OneRow \cup {"select_op"} /\ first \in {"insert", "delete", "probe", "select", "segfault"}
  BY SqliteAssumption
<1>10. /\ first = "insert" => op = "insert"
       /\ first = "delete" => op = "delete"
       /\ first = "probe" => op \in {"update", "update_or_insert"}
       /\ first = "segfault" => op = "select_op"
       /\ first = "select" => op \in {"select", "own_select", "select1_or_insert", "next_int"}
  BY <1>1 DEF OneRow
<1> HIDE DEF first
<1>2. /\ Shaped(c) /\ c.pc = first /\ c.out = "pending" /\ c.op = op /\ c.input = json
      /\ c.error = FALSE /\ c.stmts = 0 /\ c.got = <<>> /\ c.left = <<>> /\ c.matched = {}
  BY DEF Started, Shaped, Fields
<1>3. /\ Mistyped(json) = {} /\ Wide(json) = {} /\ ("k" \in DOMAIN json \/ op \in {"select", "select_op"})
      /\ op = "own_select" => OwnKey(json) = json["k"]
      /\ op \in {"update", "update_or_insert"} => Nulled(json) = {}
  BY DEF Begin, Allowed, WellUsed
<1>4. /\ op # "own_select" => data' = FromJson(Unbound, json, Known(json))
      /\ rows' = rows
  BY <1>3 DEF Begin, WellUsed, Reached, NothingChanged
<1>5. call' = [c EXCEPT !.error = op # "own_select" /\ Mistyped(json) # {}]
  BY DEF Begin, first
<1> HIDE DEF c
<1>6. call' = c
  <2>1. (op # "own_select" /\ Mistyped(json) # {}) = FALSE
    BY <1>3
  <2>2. call' = [c EXCEPT !.error = FALSE]
    BY <1>5, <2>1
  <2> QED BY <1>2, <2>2 DEF Shaped, Fields
<1>7. Staged(c) /\ c.op \notin {"none", "join", "insert_array"} /\ c.pc \notin {"done", "rows", "selected"}
  BY <1>1, <1>2, <1>10 DEF Staged, OneRow
<1>8. Settled(c)
  BY <1>2, <1>7 DEF Settled
<1>9. Collected(c) /\ Counted(c)
  BY <1>2, <1>7 DEF Collected, Counted
<1>11. Fed(c, data')
  <2>1. Listed(c) /\ Joined(c, data')
    BY <1>7 DEF Listed, Joined
  <2>2. op \in OneRow => "k" \in DOMAIN json \/ op = "select"
    BY <1>3 DEF OneRow
  <2>3. Bound(c, data')
    BY <1>2, <1>3, <1>4, <2>2 DEF Bound
  <2> QED BY <2>1, <2>3 DEF Fed
<1>12. CallSound(c, data')
  BY <1>2, <1>7, <1>8, <1>9, <1>11 DEF CallSound
<1> QED BY <1>4, <1>6, <1>12 DEF SInv

LEMMA ProbeSound ==
    ASSUME WellUsed, SInv, NEW how \in Hows, Probe(how)
    PROVE  SInv'
<1>1. /\ Shaped(call) /\ Staged(call) /\ Settled(call) /\ Collected(call) /\ Fed(call, data)
      /\ Keyed(rows) /\ call.pc = "probe" /\ UNCHANGED <<rows, data>>
  BY SInvParts DEF Probe, CallAt, NothingChanged
<1>2. /\ call.op \in {"update", "update_or_insert"} /\ call.stmts = 0
      /\ call.error = FALSE
  BY <1>1 DEF Staged, Settled
<1>3. how = "ok" \/ (how = "prepare" /\ call.op = "update")
  <2>1. call.op \in OneRow \ {"select", "own_select"}
    BY <1>2 DEF OneRow
  <2>2. ~ Unreached
    BY <1>1, <2>1, BoundMeans DEF Fed
  <2> QED BY <2>2 DEF Probe, WellUsed
<1>4. CASE how = "ok"
  <2> DEFINE c == [call EXCEPT !.error = @ \/ how = "prepare"]
  <2>1. c = call
    BY <1>1, <1>2, <1>4 DEF Shaped, Fields
  <2>2. \/ call' = Done(c, "nothing")
        \/ call' = [c EXCEPT !.pc = "update"]
        \/ call' = [c EXCEPT !.pc = "insert"] /\ call.op = "update_or_insert"
    BY <1>2, <1>4 DEF Probe
  <2>3. \/ call' = Done(call, "nothing")
        \/ call' = [call EXCEPT !.pc = "update"]
        \/ call' = [call EXCEPT !.pc = "insert"] /\ call.op = "update_or_insert"
    BY <2>1, <2>2
  <2>4. CASE call' = Done(call, "nothing")
    <3>1. CallSound(Done(call, "nothing"), data)
      BY <1>1, <1>2, EndSound
    <3> QED BY <1>1, <2>4, <3>1 DEF SInv
  <2>5. CASE call' = [call EXCEPT !.pc = "update"]
    <3>1. Staged([call EXCEPT !.pc = "update"])
      BY <1>1, <1>2, MovesFields DEF Staged
    <3>2. CallSound([call EXCEPT !.pc = "update"], data)
      BY <1>1, <1>2, <3>1, MovesSound
    <3> QED BY <1>1, <2>5, <3>2 DEF SInv
  <2>6. CASE call' = [call EXCEPT !.pc = "insert"] /\ call.op = "update_or_insert"
    <3>1. Staged([call EXCEPT !.pc = "insert"])
      BY <1>1, <1>2, <2>6, MovesFields DEF Staged
    <3>2. CallSound([call EXCEPT !.pc = "insert"], data)
      BY <1>1, <1>2, <3>1, MovesSound
    <3> QED BY <1>1, <2>6, <3>2 DEF SInv
  <2> QED BY <2>3, <2>4, <2>5, <2>6
<1>5. CASE how = "prepare" /\ call.op = "update"
  <2> DEFINE c == [call EXCEPT !.error = @ \/ how = "prepare"]
  <2>1. call' = Done(c, "failed")
    BY <1>5 DEF Probe
  <2>2. c = [call EXCEPT !.error = TRUE]
    BY <1>1, <1>5 DEF Shaped, Fields
  <2>3. Done([call EXCEPT !.error = TRUE], "failed") = Failed(call)
    BY <1>1 DEF Failed, Done, Shaped, Fields
  <2>4. call' = Failed(call)
    BY <2>1, <2>2, <2>3
  <2>5. CallSound(Failed(call), data)
    BY <1>1, FailSound
  <2> QED BY <1>1, <2>4, <2>5 DEF SInv
<1> QED BY <1>3, <1>4, <1>5

LEMMA UpdateSound ==
    ASSUME WellUsed, SInv, NEW how \in Hows, Update(how)
    PROVE  SInv'
<1>1. /\ Shaped(call) /\ Staged(call) /\ Settled(call) /\ Collected(call) /\ Fed(call, data)
      /\ Keyed(rows) /\ call.pc = "update" /\ data' = data
  BY SInvParts DEF Update, CallAt
<1>2. /\ call.op \in {"update", "update_or_insert"} /\ call.stmts = 0 /\ call.error = FALSE
      /\ call.op \in OneRow \ {"select", "own_select"}
  BY <1>1 DEF Staged, Settled, OneRow
<1>3. CASE how = "ok"
  <2> DEFINE n == Cardinality(Same(Key))
             c == Done(call, "updated")
  <2>1. Keyed(rows')
    <3>1. rows' = [i \in DOMAIN rows |-> IF i \in Same(Key) THEN SetRow(rows[i], data, call.input)
                                         ELSE rows[i]]
      BY <1>3 DEF Update
    <3> QED BY <1>1, <3>1, UpdatedKeyed
  <2>2. PICK before \in IF earlier THEN 1..MaxEarlier ELSE {0} :
           call' = [c EXCEPT !.got = IF call.op = "update" THEN <<before + n>> ELSE <<>>,
                             !.count = Cardinality(Meant(call.input)), !.first = ~ earlier]
    BY <1>3 DEF Update
  <2>3. n \in Nat /\ Cardinality(Meant(call.input)) = n
    <3>1. Same(Key) = Meant(call.input)
      BY <1>1, <1>2, BoundMeans DEF Fed
    <3>2. n \in Nat
      BY <1>1, SameIsFinite
    <3> QED BY <3>1, <3>2
  <2>4. Shaped(c) /\ c.pc = "done" /\ c.out = "updated" /\ c.op = call.op /\ c.input = call.input
        /\ c.error = FALSE /\ c.stmts = 0
    BY <1>1, <1>2, DoneFields
  <2> DEFINE g == IF call.op = "update" THEN <<before + n>> ELSE <<>>
             f == ~ earlier
  <2>5. call' = [c EXCEPT !.got = g, !.count = n, !.first = f]
    BY <2>2, <2>3
  <2>6. call.op = "update" /\ f => g = <<n>>
    BY <2>2, <2>3
  <2> HIDE DEF c, n, g, f
  <2>7. /\ Shaped(call') /\ call'.pc = "done" /\ call'.out = "updated" /\ call'.op = call.op
        /\ call'.input = call.input /\ call'.error = FALSE /\ call'.stmts = 0
        /\ call'.got = g /\ call'.count = n /\ call'.first = f
    BY <2>4, <2>5 DEF Shaped, Fields
  <2>8. Counted(call')
    BY <2>6, <2>7 DEF Counted
  <2>9. CallSound(call', data)
    BY <1>1, <1>2, <2>7, <2>8, OverSound DEF Outcomes
  <2> QED BY <1>1, <2>1, <2>9 DEF SInv
<1>4. CASE how # "ok"
  <2>1. CallSound(Failed(call), data)
    BY <1>1, FailSound
  <2> QED BY <1>1, <1>4, <2>1 DEF SInv, Update, NothingChanged
<1> QED BY <1>3, <1>4

LEMMA InsertSound ==
    ASSUME WellUsed, SInv, NEW how \in Hows, Insert(how)
    PROVE  SInv'
<1>1. /\ Shaped(call) /\ Staged(call) /\ Settled(call) /\ Collected(call) /\ Fed(call, data)
      /\ Keyed(rows) /\ call.pc = "insert" /\ data' = data
  BY SInvParts DEF Insert, CallAt
<1>2. call.op \in {"insert", "update_or_insert", "select1_or_insert"} /\ call.stmts = 0
  BY <1>1 DEF Staged, Settled
<1> DEFINE row == NewRow(data)
<1>3. CASE how = "ok" /\ ~ Refused(row)
  <2>1. PICK i \in Ids \ DOMAIN rows : rows' = With(i, row)
    BY <1>3 DEF Insert
  <2>2. Keyed(rows')
    BY <1>1, <1>3, <2>1, AddedKeyed
  <2>3. CallSound(Done(call, "inserted"), data)
    BY <1>1, <1>2, EndSound
  <2> QED BY <1>1, <1>3, <2>2, <2>3 DEF SInv, Insert
<1>4. CASE ~ (how = "ok" /\ ~ Refused(row))
  <2>1. CallSound(Failed(call), data)
    BY <1>1, FailSound
  <2> QED BY <1>1, <1>4, <2>1 DEF SInv, Insert, NothingChanged
<1> QED BY <1>3, <1>4

LEMMA DeleteSound ==
    ASSUME WellUsed, SInv, NEW how \in Hows, Delete(how)
    PROVE  SInv'
<1>1. /\ Shaped(call) /\ Staged(call) /\ Settled(call) /\ Collected(call) /\ Fed(call, data)
      /\ Keyed(rows) /\ call.pc = "delete" /\ data' = data
  BY SInvParts DEF Delete, CallAt
<1>2. /\ call.op = "delete" /\ call.stmts = 0 /\ call.error = FALSE
      /\ call.op \in OneRow \ {"select", "own_select"}
  BY <1>1 DEF Staged, Settled, OneRow
<1>3. CASE how = "ok"
  <2> DEFINE n == Cardinality(Same(Key))
             c == Done(call, "deleted")
  <2>1. Keyed(rows')
    <3>1. rows' = [i \in DOMAIN rows \ Same(Key) |-> rows[i]]
      BY <1>3 DEF Delete
    <3> QED BY <1>1, <3>1, RemovedKeyed
  <2>2. Cardinality(Meant(call.input)) = n
    BY <1>1, <1>2, BoundMeans DEF Fed
  <2>3. call' = [c EXCEPT !.got = <<changes'>>, !.count = n] /\ changes' = n
    BY <1>3, <2>2 DEF Delete, Changed
  <2>4. Shaped(c) /\ c.pc = "done" /\ c.out = "deleted" /\ c.op = "delete" /\ c.input = call.input
        /\ c.error = FALSE /\ c.stmts = 0
    BY <1>1, <1>2, DoneFields
  <2> DEFINE g == <<n>>
  <2>5. call' = [c EXCEPT !.got = g, !.count = n]
    BY <2>3
  <2>6. g = <<n>>
    OBVIOUS
  <2> HIDE DEF c, n, g
  <2>7. /\ Shaped(call') /\ call'.pc = "done" /\ call'.out = "deleted" /\ call'.op = call.op
        /\ call'.input = call.input /\ call'.error = FALSE /\ call'.stmts = 0
        /\ call'.got = g /\ call'.count = n
    BY <1>2, <2>4, <2>5 DEF Shaped, Fields
  <2>8. Counted(call')
    BY <2>6, <2>7 DEF Counted
  <2>9. CallSound(call', data)
    BY <1>1, <1>2, <2>7, <2>8, OverSound DEF Outcomes
  <2> QED BY <1>1, <2>1, <2>9 DEF SInv
<1>4. CASE how # "ok"
  <2> DEFINE c == Failed(call)
             g == <<changes>>
  <2>1. Shaped(c) /\ c.pc = "done" /\ c.out = "failed" /\ c.op = call.op /\ c.input = call.input
        /\ c.error = TRUE
    BY <1>1, FailedFields
  <2>2. call' = [c EXCEPT !.got = g] /\ rows' = rows
    BY <1>4 DEF Delete, NothingChanged
  <2> HIDE DEF c, g
  <2>3. /\ Shaped(call') /\ call'.pc = "done" /\ call'.out = "failed" /\ call'.op = call.op
        /\ call'.input = call.input /\ call'.error = TRUE
    BY <2>1, <2>2 DEF Shaped, Fields
  <2>4. Counted(call')
    BY <1>2, <2>3 DEF Counted
  <2>5. CallSound(call', data)
    BY <1>1, <1>2, <2>3, <2>4, OverSound DEF Outcomes
  <2> QED BY <1>1, <2>2, <2>5 DEF SInv
<1> QED BY <1>3, <1>4

LEMMA NextIntSound ==
    ASSUME WellUsed, SInv, NEW how \in Hows, NextInt(how)
    PROVE  SInv'
<1>1. /\ Shaped(call) /\ Staged(call) /\ Settled(call) /\ Collected(call) /\ Fed(call, data)
      /\ Keyed(rows) /\ call.pc = "select" /\ call.op = "next_int" /\ UNCHANGED <<rows, data>>
  BY SInvParts DEF NextInt, CallAt, NothingChanged
<1>2. call.stmts = 0 /\ call.error = FALSE
  BY <1>1 DEF Settled
<1>3. CASE how = "ok"
  <2> DEFINE c == Done(call, "nothing")
  <2>1. PICK g : call' = [c EXCEPT !.got = g]
    BY <1>3 DEF NextInt
  <2>2. Shaped(c) /\ c.pc = "done" /\ c.out = "nothing" /\ c.op = call.op /\ c.input = call.input
        /\ c.error = FALSE /\ c.stmts = 0
    BY <1>1, <1>2, DoneFields
  <2> HIDE DEF c
  <2>3. /\ Shaped(call') /\ call'.pc = "done" /\ call'.out = "nothing" /\ call'.op = call.op
        /\ call'.input = call.input /\ call'.error = FALSE /\ call'.stmts = 0
    BY <2>1, <2>2 DEF Shaped, Fields
  <2>4. Counted(call')
    BY <2>3 DEF Counted
  <2>5. CallSound(call', data)
    BY <1>1, <1>2, <2>3, <2>4, OverSound DEF Outcomes
  <2> QED BY <1>1, <2>5 DEF SInv
<1>4. CASE how # "ok"
  <2>1. CallSound(Failed(call), data)
    BY <1>1, FailSound
  <2> QED BY <1>1, <1>4, <2>1 DEF SInv, NextInt
<1> QED BY <1>3, <1>4

-----------------------------------------------------------------------------
(* Selects.                                                                *)

(* A scan in the order of the ids has every row that matches once.         *)
LEMMA ScanIsOneToOne ==
    ASSUME Keyed(rows), NEW M \in SUBSET DOMAIN rows, NEW ids \in Orders(M)
    PROVE  OneToOne([n \in DOMAIN ids |-> rows[ids[n]]], {rows[i] : i \in M})
<1> DEFINE s == [n \in DOMAIN ids |-> rows[ids[n]]]
           S == {rows[i] : i \in M}
           N == Cardinality(M)
<1>1. IsFiniteSet(M) /\ N \in Nat /\ M \subseteq Nat
  BY SqliteAssumption, FS_Subset, FS_CardinalityType DEF Keyed
<1>2. ids \in [1..N -> M] /\ \A m, n \in 1..N : m < n => ids[m] < ids[n]
  BY DEF Orders
<1> HIDE DEF N
<1>3. \A m, n \in 1..N : ids[m] = ids[n] => m = n
  <2> SUFFICES ASSUME NEW m \in 1..N, NEW n \in 1..N, m # n PROVE ids[m] # ids[n]
    OBVIOUS
  <2>1. ids[m] \in Nat /\ ids[n] \in Nat
    BY <1>1, <1>2
  <2>2. m < n \/ n < m
    BY <1>1
  <2> QED BY <1>2, <2>1, <2>2
<1>4. \A i \in M : \E n \in 1..N : ids[n] = i
  <2>1. ids \in Injection(1..N, M)
    BY <1>2, <1>3 DEF Injection, IsInjective
  <2>2. Cardinality(1..N) = N
    BY <1>1, FS_Interval
  <2>3. ids \in Surjection(1..N, M)
    BY <1>1, <2>1, <2>2, FS_Injection DEF N
  <2> QED BY <2>3 DEF Surjection
<1>5. /\ DOMAIN ids = 1..N /\ s \in Seq(S) /\ Len(s) = N
      /\ \A n \in 1..N : s[n] = rows[ids[n]]
  BY <1>1, <1>2
<1> HIDE DEF s
<1>6. \A m, n \in 1..N : s[m] = s[n] => m = n
  <2> SUFFICES ASSUME NEW m \in 1..N, NEW n \in 1..N, s[m] = s[n] PROVE m = n
    OBVIOUS
  <2>1. ids[m] \in DOMAIN rows /\ ids[n] \in DOMAIN rows /\ rows[ids[m]] = rows[ids[n]]
    BY <1>2, <1>5
  <2>2. ids[m] = ids[n]
    BY <2>1 DEF Keyed
  <2> QED BY <1>3, <2>2
<1>7. \A e \in S : \E n \in 1..N : s[n] = e
  BY <1>4, <1>5
<1> QED BY <1>5, <1>6, <1>7 DEF OneToOne, s

(* Passing a row from what is left to what was got.                        *)
Passes(S, g, l) == /\ Append(g, Head(l)) \in Seq(S) /\ Tail(l) \in Seq(S)
                   /\ Append(g, Head(l)) \o Tail(l) = g \o l

LEMMA PassingOn ==
    ASSUME NEW S, NEW g \in Seq(S), NEW l \in Seq(S), l # <<>>
    PROVE  Passes(S, g, l)
<1>1. Head(l) \in S /\ Tail(l) \in Seq(S)
  BY HeadTailProperties
<1> DEFINE h == <<Head(l)>>
<1>2. h \in Seq(S) /\ h \o Tail(l) = l
  BY <1>1
<1>3. Append(g, Head(l)) = g \o h
  BY <1>1, AppendIsConcat
<1> HIDE DEF h
<1>4. (g \o h) \o Tail(l) = g \o (h \o Tail(l))
  BY SMTT(20), <1>1, <1>2, ConcatAssociative
<1>5. g \o h \in Seq(S)
  BY <1>2, ConcatProperties
<1> QED BY <1>1, <1>2, <1>3, <1>4, <1>5 DEF Passes

LEMMA OpenSound ==
    ASSUME WellUsed, SInv, NEW how \in Hows, OpenRows(how)
    PROVE  SInv'
<1>1. /\ Shaped(call) /\ Staged(call) /\ Settled(call) /\ Collected(call) /\ Fed(call, data)
      /\ Keyed(rows) /\ call.pc = "select" /\ UNCHANGED <<rows, data>> /\ call.op # "next_int"
  BY SInvParts DEF OpenRows, CallAt, NothingChanged
<1>2. /\ call.op \in {"select", "own_select", "select1_or_insert"} /\ call.stmts = 0 /\ call.got = <<>>
      /\ call.out = "pending" /\ call.error = FALSE
  BY <1>1 DEF Staged, Settled, Collected
<1> DEFINE M == Meant(call.input)
           S == {rows[i] : i \in M}
<1>3. \/ call' = Failed(call)
      \/ call' = [Failed(call) EXCEPT !.stmts = 1]
      \/ call.op = "own_select" /\ call' = [call EXCEPT !.pc = "segfault"]
      \/ \E ids \in Orders(M) : call' = [Opened([n \in DOMAIN ids |-> rows[ids[n]]]) EXCEPT !.matched = S]
  <2>1. Selecting = M
    BY <1>1, <1>2, SelectsWhatIsMeant DEF Fed
  <2> QED BY <2>1 DEF OpenRows
<1>4. CASE call' = Failed(call)
  <2>1. CallSound(Failed(call), data)
    BY <1>1, FailSound
  <2> QED BY <1>1, <1>4, <2>1 DEF SInv
<1>5. CASE call' = [Failed(call) EXCEPT !.stmts = 1]
  <2> DEFINE c == Failed(call)
             e == [c EXCEPT !.stmts = 1]
  <2>1. /\ Shaped(c) /\ c.pc = "done" /\ c.out = "failed" /\ c.op = call.op /\ c.error = TRUE
        /\ c.input = call.input
    BY <1>1, FailedFields
  <2> HIDE DEF c
  <2>2. /\ Shaped(e) /\ e.pc = "done" /\ e.out = "failed" /\ e.op = call.op /\ e.error = TRUE
        /\ e.input = call.input
    BY <2>1 DEF Shaped, Fields
  <2> HIDE DEF e
  <2>3. Counted(e)
    BY <2>2 DEF Counted
  <2>4. CallSound(e, data)
    BY <1>1, <1>2, <2>2, <2>3, OverSound DEF Outcomes
  <2> QED BY <1>1, <1>5, <2>4 DEF SInv, e, c
<1>6. CASE call.op = "own_select" /\ call' = [call EXCEPT !.pc = "segfault"]
  <2>1. Staged([call EXCEPT !.pc = "segfault"])
    BY <1>1, <1>6, MovesFields DEF Staged
  <2>2. CallSound([call EXCEPT !.pc = "segfault"], data)
    BY <1>1, <1>2, <2>1, MovesSound
  <2> QED BY <1>1, <1>6, <2>2 DEF SInv
<1>7. ASSUME NEW ids \in Orders(M), call' = [Opened([n \in DOMAIN ids |-> rows[ids[n]]]) EXCEPT !.matched = S]
      PROVE  SInv'
  <2> DEFINE s == [n \in DOMAIN ids |-> rows[ids[n]]]
             e == [Opened(s) EXCEPT !.matched = S]
  <2>1. OneToOne(s, S)
    <3>1. M \in SUBSET DOMAIN rows
      BY DEF Meant, Same
    <3> QED BY <1>1, <3>1, ScanIsOneToOne
  <2>2. call' = e
    BY <1>7
  <2> HIDE DEF s, S
  <2>3. /\ Shaped(e) /\ e.out = "pending" /\ e.op = call.op /\ e.input = call.input /\ e.error = FALSE
        /\ e.got = <<>> /\ e.left = s /\ e.matched = S
        /\ e.pc = IF s = <<>> THEN "selected" ELSE "rows"
        /\ e.stmts = IF s = <<>> THEN 0 ELSE 1
    <3> DEFINE c == [call EXCEPT !.stmts = 1, !.left = s]
    <3>1. /\ Shaped(c) /\ c.out = "pending" /\ c.op = call.op /\ c.input = call.input /\ c.error = FALSE
          /\ c.got = <<>> /\ c.left = s /\ c.stmts = 1
      BY <1>1, <1>2 DEF Shaped, Fields
    <3>2. Opened(s) = IF s = <<>> THEN [c EXCEPT !.stmts = 0, !.pc = "selected"] ELSE [c EXCEPT !.pc = "rows"]
      BY DEF Opened, Finalized
    <3> DEFINE o == Opened(s)
    <3> HIDE DEF c
    <3>3. /\ Shaped(o) /\ o.out = "pending" /\ o.op = call.op /\ o.input = call.input /\ o.error = FALSE
          /\ o.got = <<>> /\ o.left = s
          /\ o.pc = IF s = <<>> THEN "selected" ELSE "rows"
          /\ o.stmts = IF s = <<>> THEN 0 ELSE 1
      <4>1. CASE s = <<>>
        BY <3>1, <3>2, <4>1 DEF Shaped, Fields
      <4>2. CASE s # <<>>
        BY <3>1, <3>2, <4>2 DEF Shaped, Fields
      <4> QED BY <4>1, <4>2
    <3> HIDE DEF o
    <3>4. e = [o EXCEPT !.matched = S]
      BY DEF o
    <3> HIDE DEF e
    <3> QED BY <3>3, <3>4 DEF Shaped, Fields
  <2> HIDE DEF e
  <2>4. Staged(e) /\ Settled(e) /\ e.op \notin {"none", "join", "insert_array"} /\ e.pc # "select"
    BY <1>2, <2>3 DEF Staged, Settled, OneRow
  <2>5. Collected(e)
    <3>1. s \in Seq(S) /\ <<>> \o s = s
      BY <2>1, ConcatEmptySeq DEF OneToOne
    <3> QED BY <2>1, <2>3, <2>4, <3>1 DEF Collected
  <2>6. Fed(e, data)
    BY <1>1, <2>3, <2>4 DEF Fed, Bound, Listed, Joined
  <2>7. CallSound(e, data)
    BY <2>3, <2>4, <2>5, <2>6 DEF CallSound, Counted
  <2> QED BY <1>1, <2>2, <2>7 DEF SInv
<1> QED BY <1>3, <1>4, <1>5, <1>6, <1>7

LEMMA FetchSound ==
    ASSUME WellUsed, SInv, NEW how \in Hows, Fetch(how)
    PROVE  SInv'
<1>1. /\ Shaped(call) /\ Staged(call) /\ Settled(call) /\ Collected(call) /\ Fed(call, data)
      /\ Keyed(rows) /\ call.pc = "rows" /\ UNCHANGED <<rows, data>> /\ how = "ok"
  BY SInvParts DEF Fetch, CallAt, WellUsed, NothingChanged
<1>2. /\ call.op \in {"select", "own_select", "select1_or_insert"} /\ call.out = "pending" /\ call.error = FALSE
      /\ call.got \in Seq(call.matched) /\ call.left \in Seq(call.matched) /\ call.left # <<>>
      /\ OneToOne(call.got \o call.left, call.matched)
  BY <1>1 DEF Staged, Settled, Collected
<1> DEFINE g == Append(call.got, Head(call.left))
           l == Tail(call.left)
           c == [call EXCEPT !.got = g, !.left = l]
<1>3. g \in Seq(call.matched) /\ l \in Seq(call.matched) /\ g \o l = call.got \o call.left
  <2> PICK S, got, left : S = call.matched /\ got = call.got /\ left = call.left
    OBVIOUS
  <2>1. got \in Seq(S) /\ left \in Seq(S) /\ left # <<>>
    BY <1>2
  <2>2. Passes(S, got, left)
    BY <2>1, PassingOn
  <2> QED BY <2>2 DEF Passes
<1>4. call' = IF c.left = <<>> THEN [c EXCEPT !.stmts = 0, !.pc = "selected"] ELSE c
  BY <1>1 DEF Fetch, Finalized
<1> HIDE DEF g, l
<1>5. /\ Shaped(c) /\ c.pc = "rows" /\ c.out = "pending" /\ c.op = call.op /\ c.input = call.input /\ c.error = FALSE
      /\ c.got = g /\ c.left = l /\ c.matched = call.matched
  BY <1>1, <1>2 DEF Shaped, Fields
<1> HIDE DEF c
<1> DEFINE e == IF l = <<>> THEN [c EXCEPT !.stmts = 0, !.pc = "selected"] ELSE c
<1>6. /\ Shaped(e) /\ e.out = "pending" /\ e.op = call.op /\ e.input = call.input /\ e.error = FALSE
      /\ e.got = g /\ e.left = l /\ e.matched = call.matched
      /\ e.pc = IF l = <<>> THEN "selected" ELSE "rows"
      /\ l = <<>> => e.stmts = 0
  <2>1. CASE l = <<>>
    BY <1>5, <2>1 DEF Shaped, Fields
  <2>2. CASE l # <<>>
    BY <1>5, <2>2
  <2> QED BY <2>1, <2>2
<1>7. call' = e
  BY <1>4, <1>5
<1> HIDE DEF e
<1>8. Staged(e) /\ Settled(e) /\ e.op \notin {"none", "join", "insert_array"} /\ e.pc # "select"
  BY <1>2, <1>6 DEF Staged, Settled, OneRow
<1>9. Collected(e)
  BY <1>2, <1>3, <1>6, <1>8 DEF Collected
<1>10. Fed(e, data)
  BY <1>1, <1>6, <1>8 DEF Fed, Bound, Listed, Joined
<1>11. CallSound(e, data)
  BY <1>6, <1>8, <1>9, <1>10 DEF CallSound, Counted
<1> QED BY <1>1, <1>7, <1>11 DEF SInv

LEMMA SelectedSound ==
    ASSUME WellUsed, SInv, Selected
    PROVE  SInv'
<1>1. /\ Shaped(call) /\ Staged(call) /\ Settled(call) /\ Collected(call) /\ Fed(call, data)
      /\ Keyed(rows) /\ call.pc = "selected" /\ UNCHANGED <<rows, data>>
  BY SInvParts DEF Selected, CallAt, NothingChanged
<1>2. /\ call.op \in {"select", "own_select", "select1_or_insert"} /\ call.error = FALSE /\ call.stmts = 0
  BY <1>1 DEF Staged, Settled
<1>3. CASE call.op = "select1_or_insert" /\ call.got = <<>>
  <2>1. Staged([call EXCEPT !.pc = "insert"])
    BY <1>1, <1>3, MovesFields DEF Staged
  <2>2. CallSound([call EXCEPT !.pc = "insert"], data)
    BY <1>1, <1>2, <2>1, MovesSound
  <2> QED BY <1>1, <1>3, <2>2 DEF SInv, Selected
<1>4. CASE ~ (call.op = "select1_or_insert" /\ call.got = <<>>)
  <2> DEFINE e == Done(call, "nothing")
  <2>1. /\ Shaped(e) /\ e.pc = "done" /\ e.out = "nothing" /\ e.op = call.op /\ e.input = call.input
        /\ e.error = call.error /\ e.stmts = call.stmts /\ e.got = call.got /\ e.left = call.left
        /\ e.matched = call.matched
    BY <1>1, DoneFields
  <2>2. call' = e
    BY <1>4 DEF Selected
  <2> HIDE DEF e
  <2>3. Staged(e) /\ Settled(e) /\ e.op \notin {"none", "join", "insert_array"}
    BY <1>1, <1>2, <2>1 DEF Staged, Settled, OneRow, Outcomes
  <2>4. Collected(e)
    BY <1>1, <1>2, <2>1 DEF Collected
  <2>5. Fed(e, data)
    BY <1>1, <2>1, <2>3 DEF Fed, Bound, Listed, Joined
  <2>6. CallSound(e, data)
    BY <2>1, <2>3, <2>4, <2>5 DEF CallSound, Counted
  <2> QED BY <1>1, <2>2, <2>6 DEF SInv
<1> QED BY <1>3, <1>4

-----------------------------------------------------------------------------
(* Joins, arrays, and the other connection.                                *)

LEMMA EntriesFromJson ==
    ASSUME NEW json, NEW used
    PROVE  Entries(FromJson(Unbound, json, used))
<1> DEFINE d == FromJson(Unbound, json, used)
<1>1. DOMAIN d = Cols /\ d = [x \in Cols |-> d[x]]
  BY DEF FromJson
<1>2. ASSUME NEW x \in Cols PROVE Entry(d[x])
  <2>1. Unbound[x] = [has |-> FALSE, null |-> FALSE, i |-> 0, i64 |-> 0, value |-> Null]
    BY DEF Unbound
  <2>2. d[x] \in {Populated(Unbound[x], InfoOf(x), json[x]), Unbound[x]}
    BY DEF FromJson
  <2> DEFINE field == Field(InfoOf(x).type)
             value == Stored(InfoOf(x).type, json[x])
             u == Unbound[x]
  <2>3. \/ d[x] = u
        \/ d[x] = [[u EXCEPT !.has = TRUE] EXCEPT ![field] = value]
        \/ d[x] = [[u EXCEPT !.has = TRUE] EXCEPT !.null = TRUE]
    BY <2>2 DEF Populated
  <2>4. DOMAIN u = {"has", "null", "i", "i64", "value"} /\ u = [f \in DOMAIN u |-> u[f]]
    BY <2>1
  <2> HIDE DEF d, u, field, value
  <2> QED BY <2>3, <2>4 DEF Entry
<1> QED BY <1>1, <1>2 DEF Entries

LEMMA BeginListSound ==
    ASSUME WellUsed, SInv, NEW op \in Ops \cap {"join", "insert_array"}, NEW list \in Lists,
           BeginList(op, list)
    PROVE  SInv'
<1> DEFINE c == Started(op, list, op)
<1>1. /\ Shaped(c) /\ c.pc = op /\ c.out = "pending" /\ c.op = op /\ c.input = list
      /\ c.error = FALSE /\ c.stmts = 0 /\ c.got = <<>>
  BY DEF Started, Shaped, Fields
<1>2. /\ call' = c /\ rows' = rows
      /\ op = "join" => JoinAllowed(list)
      /\ op = "insert_array" => \A n \in DOMAIN list : DOMAIN list[n] = Cols
  BY DEF BeginList, NothingChanged
<1>3. Entries(data')
  BY EntriesFromJson DEF BeginList
<1> HIDE DEF c
<1>4. Staged(c) /\ Settled(c) /\ Collected(c) /\ Counted(c) /\ c.op # "none" /\ c.op \notin OneRow
  BY <1>1 DEF Staged, Settled, Collected, Counted, OneRow
<1>5. Fed(c, data')
  <2>1. <<>> \in Seq({}) /\ Len(<<>>) = 0
    OBVIOUS
  <2>2. Listed(c)
    BY <1>1, <1>2, <2>1 DEF Listed
  <2> QED BY <1>1, <1>3, <1>4, <2>1, <2>2 DEF Fed, Bound, Joined
<1>6. CallSound(c, data')
  BY <1>1, <1>4, <1>5 DEF CallSound
<1> QED BY <1>2, <1>6 DEF SInv

(* The next element of a list is one of its elements.                      *)
LEMMA ElementOfList ==
    ASSUME Listed(call), call.op \in {"join", "insert_array"}, Len(call.got) < Len(call.input)
    PROVE  /\ Len(call.got) + 1 \in DOMAIN call.input
           /\ Element = [c \in DOMAIN Element |-> Element[c]]
<1>1. call.input \in Lists /\ \E S : call.got \in Seq(S)
  BY DEF Listed
<1>2. PICK S : call.got \in Seq(S)
  BY <1>1
<1>3. call.input \in Seq(Range(call.input))
  BY <1>1, SqliteAssumption
<1>4. Len(call.got) + 1 \in DOMAIN call.input
  <2> DEFINE R == Range(call.input)
  <2> HIDE DEF R
  <2>1. Len(call.got) \in Nat /\ Len(call.input) \in Nat /\ DOMAIN call.input = 1..Len(call.input)
    BY <1>2, <1>3, LenProperties DEF R
  <2> QED BY <2>1
<1>5. \A n \in DOMAIN call.input : call.input[n] = [c \in DOMAIN call.input[n] |-> call.input[n][c]]
  BY <1>1, SqliteAssumption
<1> QED BY <1>4, <1>5 DEF Element

(* The key of an element is what is looked for: of programs that join by   *)
(* a column of the type of its keys that is not an INT64.                  *)
LEMMA ReboundToKey ==
    ASSUME WellUsed, Listed(call), call.op = "join", Len(call.got) < Len(call.input),
           "k" \in DOMAIN Element, Element["k"] \in Int \cup Texts, NEW d, Entries(d)
    PROVE  LET e == Rebound(d, "k", Element["k"])
           IN  Entries(e) /\ e["k"].has = d["k"].has /\ e["k"][Field(InfoOf("k").type)] = Element["k"]
<1> DEFINE key == Element["k"]
           e == Rebound(d, "k", key)
<1>1. key \in KeysOf(call.input)
  BY ElementOfList DEF KeysOf, Element
<1>2. /\ InfoOf("k").type \in {"int", "text"}
      /\ Fits(key, InfoOf("k").type) /\ (key \in Int => ToInt(key) = key)
  BY <1>1, KeyIsColumn, InfoOfColumn DEF Listed, JoinAllowed, WellUsed
<1>3. \/ key \in Int /\ ToInt(key) = key /\ Field(InfoOf("k").type) = "i"
      \/ key \notin Int /\ Field(InfoOf("k").type) = "value"
  BY <1>2, SqliteAssumption DEF Fits, Field
<1> HIDE DEF key
<1>4. DOMAIN d = Cols /\ d = [x \in Cols |-> d[x]] /\ Entry(d["k"])
  BY KeyIsColumn DEF Entries
<1>5. CASE key \in Int /\ ToInt(key) = key /\ Field(InfoOf("k").type) = "i"
  <2>1. e = [x \in Cols |-> IF x = "k" THEN [d["k"] EXCEPT !.i = key] ELSE d[x]]
    BY <1>4, <1>5 DEF Rebound
  <2> HIDE DEF e
  <2>2. e["k"] = [d["k"] EXCEPT !.i = key]
    BY <2>1, KeyIsColumn
  <2>3. Entry(e["k"]) /\ e["k"].has = d["k"].has /\ e["k"].i = key
    BY <1>4, <2>2 DEF Entry
  <2>4. Entries(e)
    BY <2>1, <2>3 DEF Entries
  <2> QED BY <1>5, <2>3, <2>4 DEF e, key
<1>6. CASE key \notin Int /\ Field(InfoOf("k").type) = "value"
  <2>1. e = [x \in Cols |-> IF x = "k" THEN [d["k"] EXCEPT !.value = key] ELSE d[x]]
    BY <1>4, <1>6 DEF Rebound
  <2> HIDE DEF e
  <2>2. e["k"] = [d["k"] EXCEPT !.value = key]
    BY <2>1, KeyIsColumn
  <2>3. Entry(e["k"]) /\ e["k"].has = d["k"].has /\ e["k"].value = key
    BY <1>4, <2>2 DEF Entry
  <2>4. Entries(e)
    BY <2>1, <2>3 DEF Entries
  <2> QED BY <1>6, <2>3, <2>4 DEF e, key
<1> QED BY <1>3, <1>5, <1>6

LEMMA JoinSound ==
    ASSUME WellUsed, SInv, NEW how \in Hows, Join(how)
    PROVE  SInv'
<1>1. /\ Shaped(call) /\ Staged(call) /\ Settled(call) /\ Collected(call) /\ Fed(call, data)
      /\ Keyed(rows) /\ call.pc = "join" /\ UNCHANGED rows /\ Len(call.got) < Len(call.input)
  BY SInvParts DEF Join, CallAt, NothingChanged
<1>2. /\ call.op = "join" /\ call.stmts = 0 /\ call.out = "pending" /\ call.error = FALSE
      /\ Listed(call) /\ Joined(call, data) /\ Entries(data) /\ call.op \notin OneRow
  BY <1>1 DEF Staged, Settled, Fed, Joined, OneRow
<1> DEFINE given == "k" \in DOMAIN Element /\ Element["k"] \in Int \cup Texts
<1>3. CASE data["k"].has /\ ~ given
  <2>1. CallSound(Failed(call), data)
    BY <1>1, FailSound
  <2> QED BY <1>1, <1>3, <2>1 DEF SInv, Join
<1>4. CASE ~ (data["k"].has /\ ~ given)
  <2> DEFINE d == IF data["k"].has THEN Rebound(data, "k", Element["k"]) ELSE data
             found == {i \in DOMAIN rows : data["k"].has /\ rows[i]["k"] = d["k"][Field(InfoOf("k").type)]}
             row == IF found = {} THEN NoRow ELSE rows[CHOOSE i \in found : \A j \in found : i <= j]
  <2>1. data' = d
    BY <1>4 DEF Join
  <2>2. call' = IF how = "ok" THEN [call EXCEPT !.got = Append(@, row)] ELSE Failed(call)
    BY <1>4, <2>1 DEF Join
  <2>3. Entries(d) /\ (data["k"].has => given /\ d["k"][Field(InfoOf("k").type)] = Element["k"])
    BY <1>1, <1>2, <1>4, ReboundToKey
  <2>4. OwnRow(row, Element)
    <3>1. CASE found = {}
      BY <3>1, KeyIsColumn DEF NoRow, OwnRow
    <3>2. CASE found # {}
      <4> DEFINE i == CHOOSE i \in found : \A j \in found : i <= j
      <4>1. found \subseteq Nat
        BY <1>1, SqliteAssumption DEF Keyed
      <4>2. \E m \in found : \A j \in found : m <= j
        BY <3>2, <4>1, LeastIn
      <4>3. i \in found
        BY <4>2
      <4>4. data["k"].has /\ rows[i]["k"] = d["k"][Field(InfoOf("k").type)]
        BY <4>3
      <4> QED BY <2>3, <3>2, <4>4 DEF OwnRow
    <3> QED BY <3>1, <3>2
  <2>5. Joined(call, d)
    BY <1>2, <2>3 DEF Joined
  <2> HIDE DEF row, d
  <2>6. CASE how # "ok"
    <3>1. Fed(call, d)
      BY <1>2, <2>5 DEF Fed, Bound
    <3>2. CallSound(Failed(call), d)
      BY <1>1, <3>1, FailSound
    <3> QED BY <1>1, <2>1, <2>2, <2>6, <3>2 DEF SInv
  <2>7. CASE how = "ok"
    <3> DEFINE e == [call EXCEPT !.got = Append(call.got, row)]
    <3>1. /\ Shaped(e) /\ e.pc = "join" /\ e.out = "pending" /\ e.op = "join" /\ e.input = call.input
          /\ e.error = FALSE /\ e.stmts = 0 /\ e.got = Append(call.got, row)
      BY <1>1, <1>2 DEF Shaped, Fields
    <3>2. call' = e
      BY <2>2, <2>7
    <3> HIDE DEF e
    <3>3. Staged(e) /\ Settled(e) /\ Collected(e) /\ Counted(e)
      BY <3>1 DEF Staged, Settled, Collected, Counted, OneRow
    <3>4. Fed(e, d)
      <4> PICK S : call.got \in Seq(S)
        BY <1>2 DEF Listed
      <4> DEFINE R == S \cup {row}
                 got == call.got
      <4>1. got \in Seq(R) /\ row \in R /\ \A n \in 1..Len(got) : OwnRow(got[n], call.input[n])
        BY <1>2 DEF Joined
      <4>2. OwnRow(row, call.input[Len(got) + 1])
        BY <2>4 DEF Element
      <4> HIDE DEF R, got
      <4>3. /\ Append(got, row) \in Seq(R) /\ Len(Append(got, row)) = Len(got) + 1
            /\ \A n \in 1..Len(got) : Append(got, row)[n] = got[n]
            /\ Append(got, row)[Len(got) + 1] = row /\ Len(got) \in Nat
        BY <4>1, AppendProperties
      <4> DEFINE a == Append(got, row)
      <4>4. e.got = a
        BY <3>1 DEF got
      <4> HIDE DEF a
      <4>5. \A n \in 1..Len(a) : OwnRow(a[n], call.input[n])
        <5> SUFFICES ASSUME NEW n \in 1..Len(a) PROVE OwnRow(a[n], call.input[n])
          OBVIOUS
        <5>1. n \in 1..Len(got) \/ n = Len(got) + 1
          BY <4>3 DEF a
        <5> QED BY <4>1, <4>2, <4>3, <5>1 DEF a
      <4>6. a \in Seq(R)
        BY <4>3 DEF a
      <4>7. Listed(e)
        BY <1>2, <3>1, <4>4, <4>6 DEF Listed
      <4>8. Joined(e, d)
        BY <2>3, <3>1, <4>4, <4>5 DEF Joined
      <4>9. Bound(e, d)
        BY <1>2, <3>1 DEF Bound
      <4> QED BY <4>7, <4>8, <4>9 DEF Fed
    <3>5. CallSound(e, d)
      BY <3>1, <3>3, <3>4 DEF CallSound
    <3> QED BY <1>1, <2>1, <3>2, <3>5 DEF SInv
  <2> QED BY <2>6, <2>7
<1> QED BY <1>3, <1>4

LEMMA InsertElementSound ==
    ASSUME WellUsed, SInv, NEW how \in Hows, InsertElement(how)
    PROVE  SInv'
<1>1. /\ Shaped(call) /\ Keyed(rows) /\ call.pc = "insert_array" /\ call.op # "none" /\ data' = data
      /\ Staged(call) /\ Settled(call) /\ Fed(call, data)
  BY SInvParts DEF InsertElement, CallAt
<1>2. call.op = "insert_array" /\ Listed(call) /\ call.op \notin OneRow
  BY <1>1 DEF Staged, Fed, OneRow
<1>3. PICK row : call' = [call EXCEPT !.got = Append(@, row)]
  BY DEF InsertElement
<1> DEFINE g == Append(call.got, row)
<1>4. call' = [call EXCEPT !.got = g]
  BY <1>3
<1>5. \E S : g \in Seq(S)
  <2> PICK S : call.got \in Seq(S)
    BY <1>2 DEF Listed
  <2> DEFINE R == S \cup {row}
             got == call.got
  <2>1. got \in Seq(R) /\ row \in R
    OBVIOUS
  <2> HIDE DEF R, got
  <2>2. Append(got, row) \in Seq(R)
    BY <2>1, AppendProperties
  <2> QED BY <2>2 DEF got
<1> HIDE DEF g
<1>6. /\ Shaped(call') /\ call'.pc = call.pc /\ call'.out = call.out /\ call'.op = call.op
      /\ call'.input = call.input /\ call'.error = call.error /\ call'.stmts = call.stmts
      /\ call'.got = g
  BY <1>1, <1>4 DEF Shaped, Fields
<1>7. Staged(call') /\ Settled(call') /\ Collected(call') /\ Counted(call')
  BY <1>1, <1>2, <1>6 DEF Staged, Settled, Collected, Counted, OneRow
<1>8. Fed(call', data')
  BY <1>2, <1>5, <1>6 DEF Fed, Bound, Listed, Joined
<1>9. CallSound(call', data')
  BY <1>2, <1>6, <1>7, <1>8 DEF CallSound
<1>10. Keyed(rows')
  <2>1. CASE how = "ok" /\ ~ Refused(Element)
    <3>1. PICK i \in Ids \ DOMAIN rows : rows' = With(i, Element)
      BY <2>1 DEF InsertElement
    <3> QED BY <1>1, <2>1, <3>1, AddedKeyed
  <2>2. CASE ~ (how = "ok" /\ ~ Refused(Element))
    BY <1>1, <2>2 DEF InsertElement, NothingChanged
  <2> QED BY <2>1, <2>2
<1> QED BY <1>9, <1>10 DEF SInv

LEMMA EndListSound ==
    ASSUME SInv, EndList
    PROVE  SInv'
<1>1. /\ Shaped(call) /\ Staged(call) /\ Settled(call) /\ Collected(call) /\ Fed(call, data)
      /\ Keyed(rows) /\ call.pc \in {"join", "insert_array"} /\ UNCHANGED <<rows, data>>
  BY SInvParts DEF EndList, CallAt, NothingChanged
<1>2. call.op \in {"join", "insert_array"} /\ call.stmts = 0 /\ call.error = FALSE
  BY <1>1 DEF Staged, Settled
<1>3. PICK out \in {"nothing", "failed"} :
         call' = Done(call, out) /\ (out = "failed" => call.op = "insert_array")
  BY DEF EndList
<1>4. /\ Shaped(call') /\ call'.pc = "done" /\ call'.out = out /\ call'.op = call.op
      /\ call'.input = call.input /\ call'.error = FALSE /\ call'.stmts = 0 /\ call'.got = call.got
  BY <1>1, <1>2, <1>3, DoneFields
<1>5. Counted(call')
  BY <1>2, <1>4 DEF Counted
<1>6. CallSound(call', data)
  BY <1>1, <1>2, <1>3, <1>4, <1>5, OverSound DEF Outcomes
<1> QED BY <1>1, <1>6 DEF SInv

LEMMA ReturnSound ==
    ASSUME SInv, Return
    PROVE  SInv'
BY DEF SInv, Return, CallSound, NoCall, NothingChanged

LEMMA OtherSound ==
    ASSUME WellUsed, SInv, Other
    PROVE  SInv'
<1>1. CallSound(call, data)' /\ Keyed(rows)
  BY DEF Other, SInv
<1>2. ASSUME NEW row, NEW i \in Ids \ DOMAIN rows, ~ Refused(row), rows' = With(i, row)
      PROVE  Keyed(rows')
  BY <1>1, <1>2, AddedKeyed
<1>3. ASSUME NEW i \in DOMAIN rows, rows' = [n \in DOMAIN rows \ {i} |-> rows[n]]
      PROVE  Keyed(rows')
  BY <1>1, <1>3, RemovedKeyed
<1>4. Keyed(rows')
  BY <1>2, <1>3 DEF Other
<1> QED BY <1>1, <1>4 DEF SInv

LEMMA SInvInit == TableInit => SInv
BY DEF TableInit, SInv, Keyed, CallSound, NoCall

LEMMA SInvNext == ASSUME WellUsed, SInv, [TableNext]_table PROVE SInv'
<1>1. ASSUME NEW op \in Ops, NEW json \in Inputs, op \notin {"join", "insert_array"}, Begin(op, json)
      PROVE  SInv'
  BY <1>1, BeginSound
<1>2. ASSUME NEW op \in Ops \cap {"join", "insert_array"}, NEW list \in Lists, BeginList(op, list)
      PROVE  SInv'
  BY <1>2, BeginListSound
<1>3. ASSUME NEW how \in Hows,
             \/ Probe(how) \/ Update(how) \/ Insert(how) \/ Delete(how)
             \/ OpenRows(how) \/ Fetch(how) \/ NextInt(how) \/ Join(how) \/ InsertElement(how)
      PROVE  SInv'
  BY <1>3, ProbeSound, UpdateSound, InsertSound, DeleteSound, OpenSound, FetchSound, NextIntSound,
     JoinSound, InsertElementSound
<1>4. CASE Selected \/ EndList \/ Return
  BY <1>4, SelectedSound, EndListSound, ReturnSound
<1>5. CASE Other
  BY <1>5, OtherSound
<1>6. CASE UNCHANGED table
  BY <1>6 DEF table, SInv, Keyed, CallSound, Fed, Bound, Joined
<1> QED BY <1>1, <1>2, <1>3, <1>4, <1>5, <1>6 DEF TableNext, Step

LEMMA SInvariance == ASSUME WellUsed PROVE TableSpec => []SInv
<1>1. SInv /\ [TableNext]_table => SInv'
  BY SInvNext
<1> QED BY <1>1, SInvInit, PTL DEF TableSpec

LEMMA IntervalSize ==
    ASSUME NEW n \in Nat
    PROVE  IsFiniteSet(1..n) /\ Cardinality(1..n) = n
<1>1. IsFiniteSet(1..n) /\ Cardinality(1..n) = IF 1 > n THEN 0 ELSE n - 1 + 1
  BY FS_Interval
<1>2. CASE n = 0
  BY <1>1, <1>2
<1>3. CASE n > 0
  BY <1>1, <1>3
<1> QED BY <1>2, <1>3

(* A list in which each member of a set is once has as many.               *)
LEMMA OneToOneCounts ==
    ASSUME NEW S, NEW s, OneToOne(s, S)
    PROVE  Range(s) = S /\ Cardinality(S) = Len(s)
<1>1. /\ s \in Seq(S) /\ Len(s) \in Nat /\ DOMAIN s = 1..Len(s)
      /\ \A m, n \in 1..Len(s) : s[m] = s[n] => m = n
      /\ \A e \in S : \E n \in 1..Len(s) : s[n] = e
  BY DEF OneToOne
<1>2. Range(s) = S
  BY <1>1 DEF Range
<1>3. s \in Injection(1..Len(s), S) /\ s \in Surjection(1..Len(s), S)
  BY <1>1 DEF Injection, Surjection, IsInjective
<1>4. IsFiniteSet(1..Len(s)) /\ Cardinality(1..Len(s)) = Len(s)
  BY <1>1, IntervalSize
<1>5. Cardinality(S) = Cardinality(1..Len(s))
  BY <1>3, <1>4, FS_Surjection
<1> QED BY <1>2, <1>4, <1>5

(* What a call that is over says of itself and of the rows it returns is   *)
(* true: errors are marked, except those of insert_json_array, statements  *)
(* are not left behind without one, a select has each row once that has    *)
(* the key it was given, an element is joined with a row of its own key,   *)
(* and a deletion counts the rows of its key.  A program must give values  *)
(* that have the type of their columns and fit into it, none of them null  *)
(* to update a not_null column, must not join by an INT64 column, and has  *)
(* data for each call; and neither the SELECT of an update nor the fetch   *)
(* of a further row fails.                                                 *)
THEOREM CallsReportTruly == ASSUME WellUsed PROVE TableSpec => []ReportsTruly
<1>1. SInv => ReportsTruly
  <2> SUFFICES ASSUME SInv, call.op # "none" PROVE ReportsTruly
    BY DEF SInv, CallSound, NoCall, ReportsTruly, MarksErrors, LeaksOnlyOnError, RowsOnce,
           JoinedByOwnKey, CountsOwnRows, CallAt
  <2>1. Staged(call) /\ Settled(call) /\ Collected(call) /\ Counted(call) /\ Fed(call, data)
    BY DEF SInv, CallSound
  <2>2. MarksErrors /\ LeaksOnlyOnError
    BY <2>1 DEF Settled, MarksErrors, LeaksOnlyOnError, CallAt
  <2>3. RowsOnce
    <3> SUFFICES ASSUME call.pc = "done", call.op \in {"select", "own_select"}, ~ call.error
                 PROVE  Cardinality(Range(call.got)) = Len(call.got) /\ Range(call.got) = call.matched
      BY DEF RowsOnce, CallAt
    <3>1. call.left = <<>> /\ call.got \in Seq(call.matched) /\ OneToOne(call.got \o call.left, call.matched)
      BY <2>1 DEF Collected
    <3>2. call.got \o call.left = call.got
      BY <3>1, ConcatEmptySeq
    <3>3. OneToOne(call.got, call.matched)
      BY <3>1, <3>2
    <3> QED BY <3>3, OneToOneCounts
  <2>4. JoinedByOwnKey
    <3> SUFFICES ASSUME call.op = "join", NEW n \in DOMAIN call.got
                 PROVE  OwnRow(call.got[n], call.input[n])
      BY DEF JoinedByOwnKey, OwnRow
    <3>1. n \in 1..Len(call.got)
      BY <2>1 DEF Fed, Listed
    <3> QED BY <2>1, <3>1 DEF Fed, Joined
  <2>5. CountsOwnRows
    BY <2>1 DEF CountsOwnRows, Counted, CallAt
  <2> QED BY <2>2, <2>3, <2>4, <2>5 DEF ReportsTruly
<1> QED BY <1>1, SInvariance, PTL

-----------------------------------------------------------------------------
(* Each call is one step on the table.                                     *)

(* A row that was found is still there.                                    *)
Found(c, r) == c.op \in OneRow =>
    /\ c.pc = "update" => Having(r, c.input["k"]) # {}
    /\ (c.op = "select1_or_insert" /\ c.pc \in {"rows", "selected"} /\ c.matched # {}) =>
          Having(r, c.input["k"]) # {}

Full(r) == \A i \in DOMAIN r : r[i] = [x \in Cols |-> r[i][x]]

TInv == Found(call, rows) /\ Full(rows)

(* And the other connection deletes no row between the statements of a     *)
(* call.                                                                   *)
WellKept == WellUsed /\ "others_delete" \notin TableFreedoms

TableVars == <<rows, IF Requested THEN [op |-> call.op, input |-> call.input] ELSE NoCall,
               IF Requested THEN call.out ELSE "none">>

LEMMA Stutters ==
    ASSUME rows' = rows, call.op \in OneRow, call'.op = call.op, call'.input = call.input,
           call'.out = call.out
    PROVE  UNCHANGED TableVars
BY DEF TableVars, Requested

LEMMA StuttersAside ==
    ASSUME rows' = rows, call.op \notin OneRow, call'.op \notin OneRow
    PROVE  UNCHANGED TableVars
BY DEF TableVars, Requested

(* A step that answers a request.                                          *)
Answers ==
    /\ call.op \in OneRow /\ call'.op = call.op /\ call'.input = call.input /\ call.out = "pending"
    /\ \/ /\ call'.out = "inserted"
          /\ \/ call.op = "insert"
             \/ call.op \in {"update_or_insert", "select1_or_insert"} /\ Mine = {}
          /\ \E i \in Ids \ DOMAIN rows : rows' = With(i, NewOf(call.input))
       \/ /\ call'.out = "updated" /\ call.op \in {"update", "update_or_insert"} /\ Mine # {}
          /\ rows' = [n \in DOMAIN rows |-> IF n \in Mine THEN PatchOf(rows[n], call.input) ELSE rows[n]]
       \/ /\ call'.out = "deleted" /\ call.op = "delete"
          /\ rows' = [n \in DOMAIN rows \ Mine |-> rows[n]]
       \/ /\ call'.out = "nothing" /\ rows' = rows
          /\ \/ call.op = "update" /\ Mine = {}
             \/ /\ call.op \in {"update", "update_or_insert"} /\ Mine # {}
                /\ \A n \in Mine : PatchOf(rows[n], call.input) = rows[n]
             \/ call.op = "select1_or_insert" /\ Mine # {}
             \/ call.op \in {"select", "own_select", "next_int"}
       \/ call'.out = "failed" /\ rows' = rows

LEMMA AnswersServe == ASSUME Answers PROVE Table!Next
<1> DEFINE r == [op |-> call.op, input |-> call.input]
<1>1. /\ (IF Requested THEN r ELSE NoCall) = r
      /\ (IF Requested THEN call.out ELSE "none") = "pending"
      /\ (IF Requested THEN r ELSE NoCall)' = r
      /\ (IF Requested THEN call.out ELSE "none")' = call'.out
  BY DEF Answers, Requested
<1>2. r.op = call.op /\ r.input = call.input
  OBVIOUS
<1>3. Table!Serve
  BY <1>1, <1>2 DEF Answers, Mine, Having, With, Table!Serve, Table!Same, Table!Inserted, Table!Updated,
     Table!Deleted, Table!Unchanged
<1> QED BY <1>3 DEF Table!Next

LEMMA FullWith ==
    ASSUME Full(rows), NEW d, NEW i \in Ids
    PROVE  Full(With(i, NewRow(d)))
<1> DEFINE row == NewRow(d)
<1>1. row = [x \in Cols |-> row[x]]
  BY DEF NewRow
<1> HIDE DEF row
<1>2. Full(With(i, row))
  BY <1>1 DEF Full, With
<1> QED BY <1>2 DEF row

LEMMA BeginServes ==
    ASSUME WellKept, SInv, TInv, call = NoCall, NEW op \in Ops \ {"join", "insert_array"},
           NEW json \in Inputs, Begin(op, json)
    PROVE  TInv' /\ (Table!Next \/ UNCHANGED TableVars)
<1> DEFINE first == CASE op = "insert" -> "insert"
                      [] op = "delete" -> "delete"
                      [] op \in {"update", "update_or_insert"} -> "probe"
                      [] op = "select_op" -> "segfault"
                      [] OTHER -> "select"
           c == Started(op, json, first)
           bad == op # "own_select" /\ Mistyped(json) # {}
<1>1. first \in {"insert", "delete", "probe", "select", "segfault"}
  OBVIOUS
<1>2. call' = [c EXCEPT !.error = bad] /\ rows' = rows
  BY DEF Begin, NothingChanged
<1> HIDE DEF first, bad
<1>3. /\ call'.op = op /\ call'.input = json /\ call'.pc = first /\ call'.out = "pending"
  BY <1>2 DEF Started
<1>4. TInv'
  BY <1>1, <1>2, <1>3 DEF TInv, Found, Full
<1>5. CASE op \in OneRow
  <2>1. Table!Ask
    BY <1>2, <1>3, <1>5 DEF Table!Ask, Table!Nothing, Requested, NoCall, OneRow
  <2> QED BY <1>4, <2>1 DEF Table!Next
<1>6. CASE op \notin OneRow
  <2>1. call.op \notin OneRow
    BY DEF NoCall, OneRow
  <2> QED BY <1>2, <1>3, <1>4, <1>6, <2>1, StuttersAside
<1> QED BY <1>5, <1>6

LEMMA ProbeServes ==
    ASSUME WellKept, SInv, TInv, NEW how \in Hows, Probe(how)
    PROVE  TInv' /\ (Table!Next \/ UNCHANGED TableVars)
<1>1. /\ Shaped(call) /\ Staged(call) /\ Settled(call)
      /\ call.pc = "probe" /\ UNCHANGED <<rows, data>> /\ Fed(call, data)
  BY SInvParts DEF Probe, CallAt, NothingChanged
<1>2. /\ call.op \in {"update", "update_or_insert"} /\ call.op \in OneRow \ {"select", "own_select"}
      /\ call.error = FALSE /\ call.out = "pending"
  BY <1>1 DEF Staged, Settled, OneRow
<1>3. /\ Same(Key) = Mine /\ ~ Unreached
      /\ \A row : SetRow(row, data, call.input) = PatchOf(row, call.input)
  BY <1>1, <1>2, BoundMeans DEF Fed
<1>4. how = "ok" \/ (how = "prepare" /\ call.op = "update")
  BY <1>3 DEF Probe, WellKept, WellUsed
<1>5. /\ call'.op = call.op /\ call'.input = call.input
      /\ \/ call'.pc = "done" /\ call'.out = "nothing" /\ how = "ok" /\ Mine # {}
              /\ UpdateSet(data, call.input) = {}
         \/ call'.pc = "done" /\ call'.out = "nothing" /\ Mine = {} /\ call.op = "update"
         \/ call'.pc = "update" /\ call'.out = "pending" /\ Mine # {}
         \/ call'.pc = "insert" /\ call'.out = "pending"
         \/ call'.pc = "done" /\ call'.out = "failed"
  <2> DEFINE c == [call EXCEPT !.error = @ \/ how = "prepare"]
  <2>1. /\ Shaped(c) /\ c.op = call.op /\ c.input = call.input /\ c.out = call.out
    BY <1>1 DEF Shaped, Fields
  <2>2. \/ call' = Done(c, "nothing") /\ how = "ok" /\ Mine # {} /\ UpdateSet(data, call.input) = {}
        \/ call' = Done(c, "nothing") /\ Mine = {} /\ call.op = "update"
        \/ call' = [c EXCEPT !.pc = "update"] /\ Mine # {}
        \/ call' = [c EXCEPT !.pc = "insert"]
        \/ call' = Done(c, "failed")
    BY <1>2, <1>3, <1>4 DEF Probe
  <2> HIDE DEF c
  <2>3. CASE call' = Done(c, "nothing") /\ how = "ok" /\ Mine # {} /\ UpdateSet(data, call.input) = {}
    BY <2>1, <2>3, DoneFields
  <2>4. CASE call' = Done(c, "nothing") /\ Mine = {} /\ call.op = "update"
    BY <2>1, <2>4, DoneFields
  <2>5. CASE call' = [c EXCEPT !.pc = "update"] /\ Mine # {}
    BY <1>2, <2>1, <2>5, MovesFields
  <2>6. CASE call' = [c EXCEPT !.pc = "insert"]
    BY <1>2, <2>1, <2>6, MovesFields
  <2>7. CASE call' = Done(c, "failed")
    BY <2>1, <2>7, DoneFields
  <2> QED BY <2>2, <2>3, <2>4, <2>5, <2>6, <2>7
<1>6. TInv'
  BY <1>1, <1>5 DEF TInv, Found, Mine
<1>7. ASSUME UpdateSet(data, call.input) = {}, NEW n \in Mine
      PROVE  PatchOf(rows[n], call.input) = rows[n]
  <2> DEFINE row == rows[n]
  <2>1. row = [x \in Cols |-> row[x]]
    BY DEF Mine, Having, TInv, Full
  <2> HIDE DEF row
  <2>2. SetRow(row, data, call.input) = [x \in Cols |-> row[x]]
    BY <1>7 DEF SetRow
  <2>3. SetRow(row, data, call.input) = PatchOf(row, call.input)
    BY <1>3
  <2>4. PatchOf(row, call.input) = row
    BY <2>1, <2>2, <2>3
  <2> QED BY <2>4 DEF row
<1>8. CASE call'.out = "pending"
  <2>1. /\ rows' = rows /\ call.op \in OneRow
        /\ call'.op = call.op /\ call'.input = call.input /\ call'.out = call.out
    BY <1>1, <1>2, <1>5, <1>8
  <2>2. UNCHANGED TableVars
    BY <2>1, Stutters
  <2> QED BY <1>6, <2>2
<1>9. CASE call'.out # "pending"
  <2>1. Answers
    BY <1>1, <1>2, <1>5, <1>7, <1>9 DEF Answers
  <2> QED BY <1>6, <2>1, AnswersServe
<1> QED BY <1>6, <1>8, <1>9

(* A statement that fails has no effect.                                   *)
LEMMA FailServes ==
    ASSUME TInv, Shaped(call), call.op \in OneRow, call.out = "pending",
           UNCHANGED <<rows, data>>, call' = Failed(call)
    PROVE  TInv' /\ Table!Next
<1>1. call'.op = call.op /\ call'.input = call.input /\ call'.out = "failed" /\ call'.pc = "done"
  BY FailedFields
<1>2. Answers
  BY <1>1 DEF Answers
<1>3. TInv'
  BY <1>1 DEF TInv, Found, Full
<1> QED BY <1>2, <1>3, AnswersServe

LEMMA UpdateServes ==
    ASSUME WellKept, SInv, TInv, NEW how \in Hows, Update(how)
    PROVE  TInv' /\ Table!Next
<1>1. /\ Shaped(call) /\ Staged(call) /\ Settled(call) /\ Fed(call, data)
      /\ call.pc = "update" /\ data' = data
  BY SInvParts DEF Update, CallAt
<1>2. /\ call.op \in {"update", "update_or_insert"} /\ call.op \in OneRow \ {"select", "own_select"}
      /\ call.out = "pending"
  BY <1>1 DEF Staged, Settled, OneRow
<1>3. /\ Same(Key) = Mine
      /\ \A row : SetRow(row, data, call.input) = PatchOf(row, call.input)
  BY <1>1, <1>2, BoundMeans DEF Fed
<1>4. Mine # {}
  BY <1>1, <1>2 DEF TInv, Found, Mine
<1>5. CASE how = "ok"
  <2>1. rows' = [i \in DOMAIN rows |-> IF i \in Same(Key) THEN SetRow(rows[i], data, call.input) ELSE rows[i]]
    BY <1>5 DEF Update
  <2>2. call'.op = call.op /\ call'.input = call.input /\ call'.out = "updated" /\ call'.pc = "done"
    <3> DEFINE c == Done(call, "updated")
               n == Cardinality(Meant(call.input))
               f == ~ earlier
    <3>1. PICK g : call' = [c EXCEPT !.got = g, !.count = n, !.first = f]
      <4>1. \E before \in IF earlier THEN 1..MaxEarlier ELSE {0} :
               call' = [c EXCEPT !.got = IF call.op = "update" THEN <<before + Cardinality(Same(Key))>> ELSE <<>>,
                                 !.count = n, !.first = f]
        BY <1>5 DEF Update
      <4> HIDE DEF c, n, f
      <4> QED BY <4>1
    <3>2. Shaped(c) /\ c.op = call.op /\ c.input = call.input /\ c.out = "updated" /\ c.pc = "done"
      BY <1>1, DoneFields
    <3> HIDE DEF c, n, f
    <3> QED BY <3>1, <3>2 DEF Shaped, Fields
  <2>3. Answers
    BY <1>2, <1>3, <1>4, <2>1, <2>2 DEF Answers
  <2>4. Full(rows')
    <3> SUFFICES ASSUME NEW i \in DOMAIN rows PROVE rows'[i] = [x \in Cols |-> rows'[i][x]]
      BY <2>1 DEF Full
    <3>1. CASE i \in Same(Key)
      <4> DEFINE row == SetRow(rows[i], data, call.input)
      <4>1. row = [x \in Cols |-> row[x]]
        BY DEF SetRow
      <4> HIDE DEF row
      <4>2. rows'[i] = row
        BY <2>1, <3>1 DEF row
      <4> QED BY <4>1, <4>2
    <3>2. CASE i \notin Same(Key)
      BY <2>1, <3>2 DEF TInv, Full
    <3> QED BY <3>1, <3>2
  <2>5. TInv'
    BY <2>2, <2>4 DEF TInv, Found
  <2> QED BY <2>3, <2>5, AnswersServe
<1>6. CASE how # "ok"
  <2>1. rows' = rows /\ call' = Failed(call)
    BY <1>6 DEF Update, NothingChanged
  <2> QED BY <1>1, <1>2, <2>1, FailServes
<1> QED BY <1>5, <1>6

LEMMA InsertServes ==
    ASSUME WellKept, SInv, TInv, NEW how \in Hows, Insert(how)
    PROVE  TInv' /\ Table!Next
<1>1. /\ Shaped(call) /\ Staged(call) /\ Settled(call) /\ Fed(call, data)
      /\ call.pc = "insert" /\ data' = data
  BY SInvParts DEF Insert, CallAt
<1>2. /\ call.op \in {"insert", "update_or_insert", "select1_or_insert"}
      /\ call.op \in OneRow \ {"select", "own_select"} /\ call.out = "pending"
  BY <1>1 DEF Staged, Settled, OneRow
<1>3. NewRow(data) = NewOf(call.input) /\ Same(NewRow(data)["k"]) = Mine
  BY <1>1, <1>2, BoundMeans DEF Fed
<1>4. CASE how = "ok" /\ ~ Refused(NewRow(data))
  <2>1. PICK i \in Ids \ DOMAIN rows : rows' = With(i, NewRow(data))
    BY <1>4 DEF Insert
  <2>2. call' = Done(call, "inserted") /\ Mine = {}
    BY <1>3, <1>4 DEF Insert, Refused, WellKept, WellUsed
  <2>3. call'.op = call.op /\ call'.input = call.input /\ call'.out = "inserted" /\ call'.pc = "done"
    BY <1>1, <2>2, DoneFields
  <2>4. Answers
    BY <1>2, <1>3, <2>1, <2>2, <2>3 DEF Answers
  <2>5. Full(rows')
    BY <2>1, FullWith DEF TInv
  <2>6. TInv'
    BY <2>3, <2>5 DEF TInv, Found
  <2> QED BY <2>4, <2>6, AnswersServe
<1>5. CASE ~ (how = "ok" /\ ~ Refused(NewRow(data)))
  <2>1. rows' = rows /\ call' = Failed(call)
    BY <1>5 DEF Insert, NothingChanged
  <2> QED BY <1>1, <1>2, <2>1, FailServes
<1> QED BY <1>4, <1>5

LEMMA DeleteServes ==
    ASSUME WellKept, SInv, TInv, NEW how \in Hows, Delete(how)
    PROVE  TInv' /\ Table!Next
<1>1. /\ Shaped(call) /\ Staged(call) /\ Settled(call) /\ Fed(call, data)
      /\ call.pc = "delete" /\ data' = data
  BY SInvParts DEF Delete, CallAt
<1>2. call.op = "delete" /\ call.op \in OneRow \ {"select", "own_select"} /\ call.out = "pending"
  BY <1>1 DEF Staged, Settled, OneRow
<1>3. Same(Key) = Mine
  BY <1>1, <1>2, BoundMeans DEF Fed
<1>4. CASE how = "ok"
  <2> DEFINE c == Done(call, "deleted")
             g == <<changes'>>
             n == Cardinality(Meant(call.input))
  <2>1. rows' = [i \in DOMAIN rows \ Same(Key) |-> rows[i]] /\ call' = [c EXCEPT !.got = g, !.count = n]
    BY <1>4 DEF Delete
  <2>2. Shaped(c) /\ c.op = call.op /\ c.input = call.input /\ c.out = "deleted" /\ c.pc = "done"
    BY <1>1, DoneFields
  <2> HIDE DEF c, g, n
  <2>3. call'.op = call.op /\ call'.input = call.input /\ call'.out = "deleted" /\ call'.pc = "done"
    BY <2>1, <2>2 DEF Shaped, Fields
  <2>4. Answers
    BY <1>2, <1>3, <2>1, <2>3 DEF Answers
  <2>5. Full(rows')
    BY <2>1 DEF TInv, Full
  <2>6. TInv'
    BY <2>3, <2>5 DEF TInv, Found
  <2> QED BY <2>4, <2>6, AnswersServe
<1>5. CASE how # "ok"
  <2> DEFINE c == Failed(call)
  <2>1. rows' = rows /\ call' = [c EXCEPT !.got = <<changes>>]
    BY <1>5 DEF Delete, NothingChanged
  <2>2. Shaped(c) /\ c.op = call.op /\ c.input = call.input /\ c.out = "failed" /\ c.pc = "done"
    BY <1>1, FailedFields
  <2> HIDE DEF c
  <2>3. call'.op = call.op /\ call'.input = call.input /\ call'.out = "failed" /\ call'.pc = "done"
    BY <2>1, <2>2 DEF Shaped, Fields
  <2>4. Answers
    BY <1>2, <2>1, <2>3 DEF Answers
  <2>5. TInv'
    BY <2>1, <2>3 DEF TInv, Found, Full
  <2> QED BY <2>4, <2>5, AnswersServe
<1> QED BY <1>4, <1>5

(* What select1_or_insert looks for is what matches its key.               *)
LEMMA OpenServes ==
    ASSUME WellKept, SInv, TInv, NEW how \in Hows, OpenRows(how)
    PROVE  TInv' /\ (Table!Next \/ UNCHANGED TableVars)
<1>1. /\ Shaped(call) /\ Staged(call) /\ Settled(call)
      /\ call.pc = "select" /\ UNCHANGED <<rows, data>> /\ Fed(call, data) /\ call.op # "next_int"
  BY SInvParts DEF OpenRows, CallAt, NothingChanged
<1>2. /\ call.op \in {"select", "own_select", "select1_or_insert"} /\ call.op \in OneRow /\ call.out = "pending"
  BY <1>1 DEF Staged, Settled, OneRow
<1> DEFINE M == Meant(call.input)
           S == {rows[i] : i \in M}
<1>3. \/ call' = Failed(call)
      \/ call' = [Failed(call) EXCEPT !.stmts = 1]
      \/ call' = [call EXCEPT !.pc = "segfault"]
      \/ \E s : call' = [Opened(s) EXCEPT !.matched = S]
  BY DEF OpenRows
<1>4. CASE call' = Failed(call)
  BY <1>1, <1>2, <1>4, FailServes
<1>5. CASE call' = [Failed(call) EXCEPT !.stmts = 1]
  <2> DEFINE c == Failed(call)
  <2>1. Shaped(c) /\ c.op = call.op /\ c.input = call.input /\ c.out = "failed" /\ c.pc = "done"
    BY <1>1, FailedFields
  <2>2. call' = [c EXCEPT !.stmts = 1]
    BY <1>5
  <2> HIDE DEF c
  <2>3. call'.op = call.op /\ call'.input = call.input /\ call'.out = "failed" /\ call'.pc = "done"
    BY <2>1, <2>2 DEF Shaped, Fields
  <2>4. Answers
    BY <1>1, <1>2, <2>3 DEF Answers
  <2>5. TInv'
    BY <1>1, <2>3 DEF TInv, Found, Full
  <2> QED BY <2>4, <2>5, AnswersServe
<1>6. CASE call' = [call EXCEPT !.pc = "segfault"]
  <2>1. call'.op = call.op /\ call'.input = call.input /\ call'.out = call.out /\ call'.pc = "segfault"
    BY <1>1, <1>6, MovesFields
  <2>2. TInv'
    BY <1>1, <2>1 DEF TInv, Found, Full
  <2> QED BY <1>1, <1>2, <2>1, <2>2, Stutters
<1>7. ASSUME NEW s, call' = [Opened(s) EXCEPT !.matched = S]
      PROVE  TInv' /\ UNCHANGED TableVars
  <2> DEFINE c == [call EXCEPT !.stmts = 1, !.left = s]
             o == Opened(s)
  <2>1. Shaped(c) /\ c.op = call.op /\ c.input = call.input /\ c.out = call.out
    BY <1>1 DEF Shaped, Fields
  <2>2. o = IF s = <<>> THEN [c EXCEPT !.stmts = 0, !.pc = "selected"] ELSE [c EXCEPT !.pc = "rows"]
    BY DEF Opened, Finalized
  <2>3. call' = [o EXCEPT !.matched = S]
    BY <1>7
  <2> HIDE DEF c, o, S
  <2>4. Shaped(o) /\ o.op = call.op /\ o.input = call.input /\ o.out = call.out /\ o.pc \in {"selected", "rows"}
    BY <2>1, <2>2 DEF Shaped, Fields
  <2>5. /\ call'.op = call.op /\ call'.input = call.input /\ call'.out = call.out
        /\ call'.matched = S /\ call'.pc \in {"selected", "rows"}
    BY <2>3, <2>4 DEF Shaped, Fields
  <2>6. call.op = "select1_or_insert" /\ S # {} => Mine # {}
    <3>1. call.op = "select1_or_insert" => "k" \in DOMAIN call.input
      BY <1>1, <1>2 DEF Fed, Bound
    <3> QED BY <3>1 DEF S, Meant, Same, Mine, Having
  <2>7. TInv'
    BY <1>1, <1>2, <2>5, <2>6 DEF TInv, Found, Full, Mine
  <2> QED BY <1>1, <1>2, <2>5, <2>7, Stutters
<1> QED BY <1>3, <1>4, <1>5, <1>6, <1>7

LEMMA FetchServes ==
    ASSUME WellKept, SInv, TInv, NEW how \in Hows, Fetch(how)
    PROVE  TInv' /\ UNCHANGED TableVars
<1>1. /\ Shaped(call) /\ Staged(call) /\ call.pc = "rows" /\ UNCHANGED <<rows, data>> /\ how = "ok"
  BY SInvParts DEF Fetch, CallAt, WellKept, WellUsed, NothingChanged
<1>2. call.op \in OneRow
  BY <1>1 DEF Staged, OneRow
<1> DEFINE g == Append(call.got, Head(call.left))
           l == Tail(call.left)
           c == [call EXCEPT !.got = g, !.left = l]
<1>3. call' = IF c.left = <<>> THEN [c EXCEPT !.stmts = 0, !.pc = "selected"] ELSE c
  BY <1>1 DEF Fetch, Finalized
<1> HIDE DEF g, l
<1>4. /\ Shaped(c) /\ c.pc = "rows" /\ c.out = call.out /\ c.op = call.op /\ c.input = call.input
      /\ c.matched = call.matched
  BY <1>1 DEF Shaped, Fields
<1> HIDE DEF c
<1>5. /\ call'.op = call.op /\ call'.input = call.input /\ call'.out = call.out
      /\ call'.matched = call.matched /\ call'.pc \in {"rows", "selected"}
  <2>1. CASE c.left = <<>>
    BY <1>3, <1>4, <2>1 DEF Shaped, Fields
  <2>2. CASE c.left # <<>>
    BY <1>3, <1>4, <2>2
  <2> QED BY <2>1, <2>2
<1>6. TInv'
  BY <1>1, <1>5 DEF TInv, Found, Full
<1> QED BY <1>1, <1>2, <1>5, <1>6, Stutters

LEMMA SelectedServes ==
    ASSUME WellKept, SInv, TInv, Selected
    PROVE  TInv' /\ (Table!Next \/ UNCHANGED TableVars)
<1>1. /\ Shaped(call) /\ Staged(call) /\ Settled(call) /\ Collected(call)
      /\ call.pc = "selected" /\ UNCHANGED <<rows, data>>
  BY SInvParts DEF Selected, CallAt, NothingChanged
<1>2. call.op \in {"select", "own_select", "select1_or_insert"} /\ call.op \in OneRow /\ call.out = "pending"
  BY <1>1 DEF Staged, Settled, OneRow
<1>3. CASE call.op = "select1_or_insert" /\ call.got = <<>>
  <2>1. call' = [call EXCEPT !.pc = "insert"]
    BY <1>3 DEF Selected
  <2>2. call'.op = call.op /\ call'.input = call.input /\ call'.out = call.out /\ call'.pc = "insert"
    BY <1>1, <2>1, MovesFields
  <2>3. TInv'
    BY <1>1, <2>2 DEF TInv, Found, Full
  <2> QED BY <1>1, <1>2, <2>2, <2>3, Stutters
<1>4. CASE ~ (call.op = "select1_or_insert" /\ call.got = <<>>)
  <2>1. call' = Done(call, "nothing")
    BY <1>4 DEF Selected
  <2>2. call'.op = call.op /\ call'.input = call.input /\ call'.out = "nothing" /\ call'.pc = "done"
    BY <1>1, <2>1, DoneFields
  <2>3. call.op = "select1_or_insert" => Mine # {}
    <3> SUFFICES ASSUME call.op = "select1_or_insert" PROVE Mine # {}
      OBVIOUS
    <3>1. call.got \in Seq(call.matched) /\ call.got # <<>>
      BY <1>1, <1>4 DEF Collected
    <3>2. call.matched # {}
      BY <3>1
    <3> QED BY <1>1, <3>2 DEF TInv, Found, Mine, OneRow
  <2>4. Answers
    BY <1>1, <1>2, <2>2, <2>3 DEF Answers
  <2>5. TInv'
    BY <1>1, <2>2 DEF TInv, Found, Full
  <2> QED BY <2>4, <2>5, AnswersServe
<1> QED BY <1>3, <1>4

LEMMA NextIntServes ==
    ASSUME WellKept, SInv, TInv, NEW how \in Hows, NextInt(how)
    PROVE  TInv' /\ Table!Next
<1>1. /\ Shaped(call) /\ Settled(call) /\ call.pc = "select" /\ call.op = "next_int"
      /\ UNCHANGED <<rows, data>>
  BY SInvParts DEF NextInt, CallAt, NothingChanged
<1>2. call.op \in OneRow /\ call.out = "pending"
  BY <1>1 DEF Settled, OneRow
<1>3. CASE how = "ok"
  <2> DEFINE c == Done(call, "nothing")
  <2>1. PICK g : call' = [c EXCEPT !.got = g]
    BY <1>3 DEF NextInt
  <2>2. Shaped(c) /\ c.op = call.op /\ c.input = call.input /\ c.out = "nothing" /\ c.pc = "done"
    BY <1>1, DoneFields
  <2> HIDE DEF c
  <2>3. call'.op = call.op /\ call'.input = call.input /\ call'.out = "nothing" /\ call'.pc = "done"
    BY <2>1, <2>2 DEF Shaped, Fields
  <2>4. Answers
    BY <1>1, <1>2, <2>3 DEF Answers
  <2>5. TInv'
    BY <1>1, <2>3 DEF TInv, Found, Full
  <2> QED BY <2>4, <2>5, AnswersServe
<1>4. CASE how # "ok"
  <2>1. call' = Failed(call)
    BY <1>4 DEF NextInt
  <2> QED BY <1>1, <1>2, <2>1, FailServes
<1> QED BY <1>3, <1>4

-----------------------------------------------------------------------------
(* Calls that are no requests on the table, the end of one, and the other  *)
(* connection.                                                             *)

LEMMA AsideKeepsTInv ==
    ASSUME call'.op \notin OneRow, Full(rows')
    PROVE  TInv'
BY DEF TInv, Found

LEMMA ListServes ==
    ASSUME SInv, TInv,
           \/ /\ call = NoCall
              /\ \E op \in Ops \cap {"join", "insert_array"}, list \in Lists : BeginList(op, list)
           \/ \E how \in Hows : Join(how)
           \/ EndList
    PROVE  TInv' /\ UNCHANGED TableVars
<1>1. rows' = rows /\ Full(rows')
  BY DEF BeginList, Join, EndList, TInv, NothingChanged
<1>2. call.op \notin OneRow /\ call'.op \notin OneRow
  <2>1. ASSUME call = NoCall, NEW op \in {"join", "insert_array"}, NEW list \in Lists, BeginList(op, list)
        PROVE  call.op \notin OneRow /\ call'.op \notin OneRow
    BY <2>1 DEF BeginList, Started, NoCall, OneRow
  <2>2. ASSUME NEW how \in Hows, Join(how)
        PROVE  call.op \notin OneRow /\ call'.op \notin OneRow
    <3>1. Shaped(call) /\ call.op = "join"
      BY <2>2, SInvParts DEF Join, CallAt, Staged
    <3>2. call' = Failed(call) \/ \E row : call' = [call EXCEPT !.got = Append(@, row)]
      BY <2>2 DEF Join
    <3>3. CASE call' = Failed(call)
      BY <3>1, <3>3, FailedFields DEF OneRow
    <3>4. ASSUME NEW row, call' = [call EXCEPT !.got = Append(@, row)]
          PROVE  call'.op = "join"
      BY <3>1, <3>4 DEF Shaped, Fields
    <3> QED BY <3>1, <3>2, <3>3, <3>4 DEF OneRow
  <2>3. ASSUME EndList
        PROVE  call.op \notin OneRow /\ call'.op \notin OneRow
    <3>1. Shaped(call) /\ call.op \in {"join", "insert_array"} /\ \E out : call' = Done(call, out)
      BY <2>3, SInvParts DEF EndList, CallAt, Staged
    <3>2. call'.op = call.op
      BY <3>1, DoneFields
    <3> QED BY <3>1, <3>2 DEF OneRow
  <2> QED BY <2>1, <2>2, <2>3
<1> QED BY <1>1, <1>2, AsideKeepsTInv, StuttersAside

LEMMA InsertElementServes ==
    ASSUME SInv, TInv, NEW how \in Hows, InsertElement(how)
    PROVE  TInv' /\ (Table!Next \/ UNCHANGED TableVars)
<1>1. Shaped(call) /\ call.op = "insert_array" /\ Fed(call, data) /\ Len(call.got) < Len(call.input)
  BY SInvParts DEF InsertElement, CallAt, Staged
<1>2. PICK row : call' = [call EXCEPT !.got = Append(@, row)]
  BY DEF InsertElement
<1>3. call.op \notin OneRow /\ call'.op \notin OneRow
  BY <1>1, <1>2 DEF Shaped, Fields, OneRow
<1>4. Element = [x \in Cols |-> Element[x]]
  <2>1. Listed(call) /\ Element = [c \in DOMAIN Element |-> Element[c]]
    BY <1>1, ElementOfList DEF Fed
  <2>2. DOMAIN Element = Cols
    BY <1>1, <2>1, ElementOfList DEF Listed, Element
  <2> QED BY <2>1, <2>2
<1>5. rows' = rows \/ \E i \in Ids \ DOMAIN rows : rows' = With(i, Element)
  BY DEF InsertElement, NothingChanged
<1>6. CASE rows' = rows
  BY <1>3, <1>6, AsideKeepsTInv, StuttersAside DEF TInv
<1>7. ASSUME NEW i \in Ids \ DOMAIN rows, rows' = With(i, Element)
      PROVE  TInv' /\ Table!Next
  <2> DEFINE element == Element
  <2>1. element = [x \in Cols |-> element[x]] /\ rows' = With(i, element)
    BY <1>4, <1>7
  <2> HIDE DEF element
  <2>2. Full(rows')
    BY <2>1 DEF TInv, Full, With
  <2>3. Table!Other
    BY <1>3, <2>1 DEF Table!Other, With, Requested
  <2> QED BY <1>3, <2>2, <2>3, AsideKeepsTInv DEF Table!Next
<1> QED BY <1>5, <1>6, <1>7

LEMMA ReturnServes ==
    ASSUME SInv, TInv, Return
    PROVE  TInv' /\ (Table!Next \/ UNCHANGED TableVars)
<1>1. call.out \in Outcomes /\ call' = NoCall /\ rows' = rows
  BY SInvParts DEF Return, CallAt, Settled, NothingChanged
<1>2. call'.op \notin OneRow
  BY <1>1 DEF NoCall, OneRow
<1>3. TInv'
  BY <1>1, <1>2, AsideKeepsTInv DEF TInv
<1>4. CASE call.op \in OneRow
  <2>1. Table!Finish
    BY <1>1, <1>2, <1>4 DEF Table!Finish, Table!Nothing, Requested, NoCall, Outcomes
  <2> QED BY <1>3, <2>1 DEF Table!Next
<1>5. CASE call.op \notin OneRow
  BY <1>1, <1>2, <1>3, <1>5, StuttersAside
<1> QED BY <1>4, <1>5

LEMMA OtherServes ==
    ASSUME WellKept, SInv, TInv, Other
    PROVE  TInv' /\ Table!Next
<1>1. UNCHANGED <<data, call>>
  BY DEF Other
<1>2. \/ \E json \in Inputs, i \in Ids \ DOMAIN rows :
            rows' = With(i, NewRow(FromJson(Unbound, json, Known(json))))
      \/ \E i \in DOMAIN rows : call = NoCall /\ rows' = [n \in DOMAIN rows \ {i} |-> rows[n]]
  BY DEF Other, WellKept
<1>3. ASSUME NEW json \in Inputs, NEW i \in Ids \ DOMAIN rows,
             rows' = With(i, NewRow(FromJson(Unbound, json, Known(json))))
      PROVE  TInv' /\ Table!Next
  <2>1. Full(rows')
    BY <1>3, FullWith DEF TInv
  <2>2. \A k : Having(rows, k) \subseteq Having(rows', k)
    BY <1>3 DEF Having, With
  <2>3. Found(call, rows)'
    BY <1>1, <2>2 DEF TInv, Found
  <2>4. TInv'
    BY <1>1, <2>1, <2>3 DEF TInv
  <2>5. Table!Other
    BY <1>1, <1>3 DEF Table!Other, With, Requested
  <2> QED BY <2>4, <2>5 DEF Table!Next
<1>4. ASSUME NEW i \in DOMAIN rows, call = NoCall, rows' = [n \in DOMAIN rows \ {i} |-> rows[n]]
      PROVE  TInv' /\ Table!Next
  <2>1. Full(rows')
    BY <1>4 DEF TInv, Full
  <2>2. call'.op \notin OneRow
    BY <1>1, <1>4 DEF NoCall, OneRow
  <2>3. Table!Other
    BY <1>1, <1>4 DEF Table!Other, Requested
  <2> QED BY <2>1, <2>2, <2>3, AsideKeepsTInv DEF Table!Next
<1> QED BY <1>2, <1>3, <1>4

LEMMA TInvInit == TableInit => TInv /\ Table!Init
BY DEF TableInit, TInv, Found, Full, NoCall, OneRow, Table!Init, Table!Nothing, Requested

LEMMA CallStepServes ==
    ASSUME WellKept, SInv, TInv, Step
    PROVE  TInv' /\ (Table!Next \/ UNCHANGED TableVars)
<1>1. ASSUME NEW how \in Hows,
             \/ Probe(how) \/ Update(how) \/ Insert(how) \/ Delete(how)
             \/ OpenRows(how) \/ Fetch(how) \/ NextInt(how) \/ Join(how) \/ InsertElement(how)
      PROVE  TInv' /\ (Table!Next \/ UNCHANGED TableVars)
  BY <1>1, ProbeServes, UpdateServes, InsertServes, DeleteServes, OpenServes, FetchServes,
     NextIntServes, ListServes, InsertElementServes
<1>2. CASE Selected \/ EndList \/ Return
  BY <1>2, SelectedServes, ListServes, ReturnServes
<1> QED BY <1>1, <1>2 DEF Step

LEMMA StepServes ==
    ASSUME WellKept, SInv, TInv, [TableNext]_table
    PROVE  TInv' /\ (Table!Next \/ UNCHANGED TableVars)
<1>1. ASSUME call = NoCall, NEW op \in Ops, NEW json \in Inputs, op \notin {"join", "insert_array"},
             Begin(op, json)
      PROVE  TInv' /\ (Table!Next \/ UNCHANGED TableVars)
  BY <1>1, BeginServes
<1>2. CASE /\ call = NoCall
           /\ \E op \in Ops \cap {"join", "insert_array"}, list \in Lists : BeginList(op, list)
  BY <1>2, ListServes
<1>3. CASE UNCHANGED table
  BY <1>3 DEF table, TInv, Found, Full, TableVars, Requested
<1> QED BY <1>1, <1>2, <1>3, CallStepServes, OtherServes DEF TableNext

(* Each call of the same programs is one step on a keyed table, from the   *)
(* JSON object to the row, whatever the other connection inserts between   *)
(* its statements, if it deletes none of the rows meanwhile, and whatever  *)
(* statements fail: the two statements of an update, of update_or_insert   *)
(* and of select1_or_insert are together one of the table's requests, or a *)
(* failure without an effect.                                              *)
THEOREM CallsImplementTable == ASSUME WellKept PROVE TableSpec => ImplementsTable
<1>1. SInv /\ TInv /\ [TableNext]_table => TInv' /\ [Table!Next]_TableVars
  BY StepServes
<1>2. TableSpec => []SInv
  BY SInvariance DEF WellKept
<1>3. TableSpec => [][Table!Next]_TableVars
  BY <1>1, <1>2, TInvInit, PTL DEF TableSpec
<1>4. TableSpec => Table!Init
  BY TInvInit, PTL DEF TableSpec
<1> QED BY <1>3, <1>4, PTL DEF ImplementsTable, Table!Spec, TableVars

-----------------------------------------------------------------------------
(* The database manager. *)
Rows == Data \cup Custom
Inserting == Seq([do : {"row"}, row : Rows])

Files == [exists : BOOLEAN, schema : Nat, version : Nat, rows : SUBSET Rows]
InitSteps == {"create", "drop", "version", "restore", "customize", "migrate", "ready"}
BackupSteps == {"redirect", "dump"}

(* What the process is at: an initialisation, with what it was asked for,  *)
(* a backup, or nothing.                                                   *)
Asked == /\ DOMAIN proc = {"pc", "script", "v", "new", "restore", "customize", "current"}
         /\ proc.v \in Versions /\ proc.new \in BOOLEAN /\ proc.current \in Nat
Doing == /\ proc.pc \in InitSteps \cup BackupSteps \cup {"idle", "segfault"}
         /\ proc.pc \in InitSteps => Asked
         /\ proc.pc \in BackupSteps => DOMAIN proc = {"pc", "current"} /\ proc.current \in Nat

Typed == /\ file \in Files /\ broken \in BOOLEAN /\ Doing
         /\ \A v \in DOMAIN dumps : dumps[v] \in SUBSET Rows

Sound == file.exists /\ file.schema = file.version /\ file.schema > 0

(* A script is at its start, between its statements, or at its end, and    *)
(* the tables and the version are accordingly.                             *)
Creating == \/ proc.script = CreateScript(proc.v) /\ file.schema = 0
            \/ proc.script = <<Version(proc.v)>> /\ file.exists /\ file.schema = proc.v /\ ~ broken
            \/ proc.script = <<>> /\ Sound /\ file.version = proc.v /\ ~ broken
Filling == /\ file.exists /\ proc.script \in Inserting
           /\ ~ broken => Sound
           /\ proc.new => ~ broken
           /\ ~ proc.new => proc.script = <<>>
Migrating ==
    /\ file.exists /\ (proc.new => ~ broken)
    /\ \/ /\ proc.script = MigrateScript(proc.current)
          /\ ~ broken => Sound /\ file.version = proc.current
       \/ /\ proc.script = <<Version(proc.current + 1)>>
          /\ ~ broken => file.schema = proc.current + 1
       \/ proc.script = <<>> /\ (~ broken => Sound)

Progress ==
    /\ ~ file.exists => file.schema = 0
    /\ proc.pc \in {"idle", "drop"} \cup BackupSteps => (file.exists /\ ~ broken => Sound)
    /\ proc.pc = "drop" => file.exists /\ proc.new
    /\ proc.pc = "create" => proc.new /\ Creating
    /\ proc.pc = "version" => file.exists /\ (~ broken => Sound) /\ (proc.new => ~ broken /\ file.version = proc.v)
    /\ proc.pc \in {"restore", "customize"} => Filling /\ proc.current = file.version
    /\ proc.pc = "migrate" => Migrating
    /\ proc.pc = "ready" => (proc.new => ~ broken) /\ (~ broken => Sound)
    /\ proc.pc = "segfault" => broken

(* The inductive invariant. *)
DInv == Typed /\ Progress

Kept == saved.version > 0 =>
    /\ saved.version \in DOMAIN dumps
    /\ \/ saved.rows = dumps[saved.version]
       \/ proc.pc = "dump" /\ proc.current = saved.version
Restoring == (proc.pc \in InitSteps /\ proc.new /\ proc.restore /\ proc.v = saved.version) =>
    /\ proc.pc = "restore" =>
          \A r \in saved.rows : r \in file.rows \/ \E i \in 1..Len(proc.script) : proc.script[i].row = r
    /\ proc.pc \in {"customize", "migrate", "ready"} => saved.rows \subseteq file.rows
BInv == /\ saved \in [version : Nat, rows : SUBSET Rows]
        /\ Kept /\ Restoring

-----------------------------------------------------------------------------
(* The script that inserts a set of rows has a statement for each of them. *)
LEMMA Inserts ==
    ASSUME NEW R \in SUBSET Rows
    PROVE  /\ InsertScript(R) \in Inserting
           /\ \A r \in R : \E i \in 1..Len(InsertScript(R)) : InsertScript(R)[i].row = r
<1> DEFINE n == Cardinality(R)
           f == SetToSeq(R)
<1>1. IsFiniteSet(R) /\ n \in Nat /\ ExistsBijection(1..n, R)
  BY DbmAssumption, FS_Union, FS_Subset, FS_CardinalityType DEF Rows
<1>2. \E g \in [1..n -> R] : IsInjective(g)
  BY <1>1 DEF ExistsBijection, Bijection, Injection
<1>3. f \in [1..n -> R] /\ IsInjective(f)
  BY <1>2 DEF SetToSeq
<1>4. f \in Surjection(1..n, R)
  <2>1. f \in Injection(1..n, R)
    BY <1>3 DEF Injection
  <2>2. Cardinality(1..n) = n
    BY <1>1, FS_Interval
  <2> QED BY <1>1, <2>1, <2>2, FS_Injection
<1> HIDE DEF f, n
<1>5. \A i \in 1..n : Row(f[i]) \in [do : {"row"}, row : Rows] /\ Row(f[i]).row = f[i]
  BY <1>3 DEF Row
<1>6. InsertScript(R) = [i \in 1..n |-> Row(f[i])]
  BY DEF InsertScript, f, n
<1>7. InsertScript(R) \in Inserting /\ Len(InsertScript(R)) = n
  <2>1. [i \in 1..n |-> Row(f[i])] \in [1..n -> [do : {"row"}, row : Rows]]
    BY <1>5
  <2> QED BY <1>1, <1>6, <2>1, SeqDef, LenProperties DEF Inserting
<1>8. ASSUME NEW r \in R PROVE \E i \in 1..n : InsertScript(R)[i].row = r
  <2>1. PICK i \in 1..n : f[i] = r
    BY <1>4 DEF Surjection
  <2> QED BY <1>5, <1>6, <2>1
<1> QED BY <1>7, <1>8

(* A version is a positive number.                                         *)
LEMMA Numbers == \A v \in Versions : v \in Nat /\ v > 0
<1>1. Cardinality(Versions) \in Nat
  BY DbmAssumption, FS_CardinalityType
<1> QED BY <1>1, DbmAssumption

(* A script of two statements, one after the other.                        *)
LEMMA TwoStatements ==
    ASSUME NEW a, NEW b
    PROVE  /\ <<a, b>> # <<>> /\ Head(<<a, b>>) = a /\ Tail(<<a, b>>) = <<b>>
           /\ <<b>> # <<>> /\ Head(<<b>>) = b /\ Tail(<<b>>) = <<>>
           /\ <<b>> # <<a, b>> /\ <<>> # <<a, b>>
<1>1. Len(<<a, b>>) = 2 /\ Len(<<b>>) = 1 /\ Len(<<>>) = 0
  OBVIOUS
<1> QED BY <1>1

(* A database that is not there yet is a good start.                       *)
LEMMA InitSound == Init => DInv
<1> SUFFICES ASSUME Init PROVE DInv
  OBVIOUS
<1>1. /\ proc.pc = "idle" /\ broken = FALSE /\ DOMAIN dumps = {}
      /\ file = NoFile /\ file.exists = FALSE /\ file.schema = 0
  BY DEF Init, Idle, NoFile
<1>2. NoFile \in Files
  BY DEF Files, NoFile
<1>3. Typed
  BY <1>1, <1>2 DEF Typed, Doing, InitSteps, BackupSteps
<1>4. Progress
  BY <1>1 DEF Progress, BackupSteps
<1> QED BY <1>3, <1>4 DEF DInv

-----------------------------------------------------------------------------
(* The steps of an initialisation that only go on.                         *)
LEMMA Starts ==
    ASSUME DInv, NEW recreate \in BOOLEAN, NEW restore \in BOOLEAN, NEW customize \in BOOLEAN,
           NEW v \in Versions, StartInit(recreate, restore, customize, v)
    PROVE  DInv'
<1> DEFINE p == [pc |-> IF ~ file.exists THEN "create" ELSE IF recreate THEN "drop" ELSE "version",
                 script |-> IF file.exists THEN <<>> ELSE CreateScript(v),
                 v |-> v, new |-> ~ file.exists \/ recreate, restore |-> restore,
                 customize |-> customize, current |-> 0]
<1>1. proc' = p /\ file' = file /\ dumps' = dumps /\ broken' = broken /\ proc.pc = "idle"
  BY DEF StartInit, Go, At
<1>2. /\ p.pc = IF ~ file.exists THEN "create" ELSE IF recreate THEN "drop" ELSE "version"
      /\ p.script = IF file.exists THEN <<>> ELSE CreateScript(v)
      /\ p.v = v /\ p.new = (~ file.exists \/ recreate) /\ p.current = 0
      /\ DOMAIN p = {"pc", "script", "v", "new", "restore", "customize", "current"}
  OBVIOUS
<1>3. file.exists \in BOOLEAN
  BY DEF DInv, Typed, Files
<1> HIDE DEF p
<1>4. Typed'
  BY <1>1, <1>2, <1>3 DEF DInv, Typed, Doing, Asked, InitSteps, BackupSteps
<1>5. Progress'
  BY <1>1, <1>2, <1>3 DEF DInv, Progress, Sound, Creating, BackupSteps
<1> QED BY <1>4, <1>5 DEF DInv

(* All tables go, and the create script comes next.                        *)
LEMMA Drops ==
    ASSUME DInv, Drop
    PROVE  DInv'
<1>1. /\ proc' = [proc EXCEPT !.pc = "create", !.script = CreateScript(proc.v)]
      /\ file' = [file EXCEPT !.schema = 0, !.rows = {}]
      /\ dumps' = dumps /\ broken' = broken /\ proc.pc = "drop"
  BY DEF Drop, At
<1>2. Asked /\ proc.new /\ file.exists
  BY <1>1 DEF DInv, Typed, Doing, Progress, InitSteps
<1>3. Asked' /\ proc'.pc = "create" /\ proc'.script = CreateScript(proc.v) /\ proc'.v = proc.v
      /\ proc'.new = proc.new
  BY <1>1, <1>2 DEF Asked
<1>4. file' \in Files /\ file'.exists /\ file'.schema = 0
  BY <1>1, <1>2 DEF DInv, Typed, Files
<1>5. Typed'
  BY <1>1, <1>3, <1>4 DEF DInv, Typed, Doing, InitSteps, BackupSteps
<1>6. Progress'
  BY <1>1, <1>2, <1>3, <1>4 DEF Progress, Creating, BackupSteps
<1> QED BY <1>5, <1>6 DEF DInv

(* What is to be shown of the types when only the process changes.         *)
LEMMA Goes ==
    ASSUME DInv, proc.pc \in InitSteps, file' = file, dumps' = dumps, broken' = broken,
           proc'.pc \in InitSteps, DOMAIN proc' = DOMAIN proc, proc'.v = proc.v, proc'.new = proc.new,
           proc'.current \in Nat
    PROVE  Typed'
BY DEF DInv, Typed, Doing, Asked, InitSteps, BackupSteps

(* The end of the create script.                                           *)
LEMMA Creates ==
    ASSUME DInv, Created
    PROVE  DInv'
<1>1. /\ proc' = [proc EXCEPT !.pc = "version"] /\ proc.pc = "create" /\ proc.script = <<>>
      /\ file' = file /\ dumps' = dumps /\ broken' = broken
  BY DEF Created, Go, At
<1>2. Asked /\ proc.new /\ Creating
  BY <1>1 DEF DInv, Typed, Doing, Progress, InitSteps
<1>3. /\ proc'.pc = "version" /\ DOMAIN proc' = DOMAIN proc /\ proc'.v = proc.v /\ proc'.new = proc.new
      /\ proc'.current = proc.current
  BY <1>1, <1>2 DEF Asked
<1>4. Typed'
  BY <1>1, <1>2, <1>3, Goes DEF InitSteps, Asked
<1>5. Sound /\ ~ broken /\ file.version = proc.v
  BY <1>1, <1>2, TwoStatements DEF Creating, CreateScript
<1>6. Progress'
  BY <1>1, <1>3, <1>5 DEF Progress, Sound, BackupSteps
<1> QED BY <1>4, <1>6 DEF DInv

(* The version tells which dump to restore.                                *)
LEMMA Reads ==
    ASSUME DInv, ReadVersion
    PROVE  DInv'
<1>1. /\ proc' = [proc EXCEPT !.pc = "restore", !.current = file.version,
                              !.script = RestoreScript(file.version)]
      /\ proc.pc = "version" /\ file' = file /\ dumps' = dumps /\ broken' = broken
  BY DEF ReadVersion, Go, At
<1>2. /\ Asked /\ file.exists /\ (~ broken => Sound) /\ (proc.new => ~ broken)
      /\ file.version \in Nat
  BY <1>1 DEF DInv, Typed, Doing, Progress, InitSteps, Files
<1>3. /\ proc'.pc = "restore" /\ DOMAIN proc' = DOMAIN proc /\ proc'.v = proc.v /\ proc'.new = proc.new
      /\ proc'.current = file.version /\ proc'.script = RestoreScript(file.version)
  BY <1>1, <1>2 DEF Asked
<1>4. Typed'
  BY <1>1, <1>2, <1>3, Goes DEF InitSteps
<1>5. /\ RestoreScript(file.version) \in Inserting
      /\ ~ proc.new => RestoreScript(file.version) = <<>>
  <2>1. <<>> \in Inserting
    BY EmptySeq DEF Inserting
  <2>2. Restores(file.version) => InsertScript(dumps[file.version]) \in Inserting
    BY Inserts DEF Restores, DInv, Typed
  <2> QED BY <2>1, <2>2 DEF RestoreScript, Restores
<1>6. Progress'
  BY <1>1, <1>2, <1>3, <1>5 DEF Progress, Filling, Sound, BackupSteps
<1> QED BY <1>4, <1>6 DEF DInv

(* The end of the restore script.                                          *)
LEMMA Customizes ==
    ASSUME DInv, Restored
    PROVE  DInv'
<1>1. /\ proc' = [proc EXCEPT !.pc = "customize", !.script = CustomizeScript]
      /\ proc.pc = "restore" /\ file' = file /\ dumps' = dumps /\ broken' = broken
  BY DEF Restored, Go, At
<1>2. Asked /\ Filling /\ proc.current = file.version
  BY <1>1 DEF DInv, Typed, Doing, Progress, InitSteps
<1>3. /\ proc'.pc = "customize" /\ DOMAIN proc' = DOMAIN proc /\ proc'.v = proc.v /\ proc'.new = proc.new
      /\ proc'.current = proc.current /\ proc'.script = CustomizeScript
  BY <1>1, <1>2 DEF Asked
<1>4. Typed'
  BY <1>1, <1>2, <1>3, Goes DEF InitSteps, Asked
<1>5. CustomizeScript \in Inserting /\ (~ proc.new => CustomizeScript = <<>>)
  <2>1. <<>> \in Inserting
    BY EmptySeq DEF Inserting
  <2>2. InsertScript(Custom) \in Inserting
    BY Inserts DEF Rows
  <2> QED BY <2>1, <2>2 DEF CustomizeScript
<1>6. Progress'
  BY <1>1, <1>2, <1>3, <1>5 DEF DInv, Progress, Filling, Sound, BackupSteps
<1> QED BY <1>4, <1>6 DEF DInv

(* The migration script of the version that was found.                     *)
LEMMA Migrates ==
    ASSUME DInv, Customized
    PROVE  DInv'
<1> DEFINE script == IF proc.current \in Migrations THEN MigrateScript(proc.current) ELSE <<>>
<1>1. /\ proc' = [proc EXCEPT !.pc = "migrate", !.script = script]
      /\ proc.pc = "customize" /\ file' = file /\ dumps' = dumps /\ broken' = broken
  BY DEF Customized, Go, At
<1>2. Asked /\ Filling /\ proc.current = file.version
  BY <1>1 DEF DInv, Typed, Doing, Progress, InitSteps
<1>3. /\ proc'.pc = "migrate" /\ DOMAIN proc' = DOMAIN proc /\ proc'.v = proc.v /\ proc'.new = proc.new
      /\ proc'.current = proc.current /\ proc'.script = script
  BY <1>1, <1>2 DEF Asked
<1>4. Typed'
  BY <1>1, <1>2, <1>3, Goes DEF InitSteps, Asked
<1>5. script = MigrateScript(proc.current) \/ script = <<>>
  OBVIOUS
<1> HIDE DEF script
<1>6. Migrating'
  BY <1>1, <1>2, <1>3, <1>5 DEF Migrating, Filling, Sound
<1>7. Progress'
  BY <1>1, <1>3, <1>6 DEF DInv, Progress, BackupSteps
<1> QED BY <1>4, <1>7 DEF DInv

(* The end of the migration script.                                        *)
LEMMA GetsReady ==
    ASSUME DInv, Migrated
    PROVE  DInv'
<1>1. /\ proc' = [proc EXCEPT !.pc = "ready"] /\ proc.pc = "migrate" /\ proc.script = <<>>
      /\ file' = file /\ dumps' = dumps /\ broken' = broken
  BY DEF Migrated, Go, At
<1>2. Asked /\ Migrating
  BY <1>1 DEF DInv, Typed, Doing, Progress, InitSteps
<1>3. /\ proc'.pc = "ready" /\ DOMAIN proc' = DOMAIN proc /\ proc'.v = proc.v /\ proc'.new = proc.new
      /\ proc'.current = proc.current
  BY <1>1, <1>2 DEF Asked
<1>4. Typed'
  BY <1>1, <1>2, <1>3, Goes DEF InitSteps, Asked
<1>5. ~ broken => Sound
  BY <1>1, <1>2, TwoStatements DEF Migrating, MigrateScript
<1>6. Progress'
  BY <1>1, <1>2, <1>3, <1>5 DEF DInv, Progress, Migrating, Sound, BackupSteps
<1> QED BY <1>4, <1>6 DEF DInv

-----------------------------------------------------------------------------
(* What a statement does to the database, if it does not fail.             *)
LEMMA Statements ==
    ASSUME file \in Files, NEW v \in Nat
    PROVE  /\ After(Schema(v)) = [file EXCEPT !.exists = TRUE, !.schema = v]
           /\ After(Version(v)) = [file EXCEPT !.exists = TRUE, !.version = v]
           /\ ~ Fails(Version(v))
           /\ Fails(Schema(v)) <=> \/ file.schema # 0 /\ file.schema # v - 1
                                   \/ proc.pc = "migrate" /\ file.schema # v - 1
BY DEF After, Fails, Schema, Version

(* The same of a row.                                                      *)
LEMMA RowStatements ==
    ASSUME NEW r \in [do : {"row"}, row : Rows]
    PROVE  /\ After(r) = [file EXCEPT !.rows = @ \cup {r.row}]
           /\ Fails(r) <=> file.schema = 0
BY DEF After, Fails

(* A statement that does not fail, in terms of what it leaves.             *)
LEMMA Executes ==
    ASSUME DInv, Statement, ~ Fails(Head(proc.script))
    PROVE  /\ file' = After(Head(proc.script)) /\ proc'.script = Tail(proc.script)
           /\ proc'.pc = proc.pc /\ proc'.v = proc.v /\ proc'.new = proc.new
           /\ proc'.restore = proc.restore /\ proc'.current = proc.current
           /\ DOMAIN proc' = DOMAIN proc /\ dumps' = dumps /\ saved' = saved
           /\ file' \in Files => Typed'
<1>1. /\ proc' = [proc EXCEPT !.script = Tail(@)] /\ file' = After(Head(proc.script))
      /\ dumps' = dumps /\ saved' = saved /\ broken' \in BOOLEAN /\ proc.pc \in Scripted
  BY DEF Statement, DInv, Typed
<1>2. Asked /\ proc.pc \in InitSteps
  BY <1>1 DEF DInv, Typed, Doing, InitSteps, Scripted
<1>3. /\ proc'.script = Tail(proc.script)
      /\ proc'.pc = proc.pc /\ proc'.v = proc.v /\ proc'.new = proc.new
      /\ proc'.restore = proc.restore /\ proc'.current = proc.current
      /\ DOMAIN proc' = DOMAIN proc
  BY <1>1, <1>2 DEF Asked
<1>4. ASSUME file' \in Files PROVE Typed'
  BY <1>1, <1>2, <1>3, <1>4 DEF DInv, Typed, Doing, Asked, InitSteps, BackupSteps
<1> QED BY <1>1, <1>3, <1>4

(* The statements of the create script, ...                                *)
LEMMA ExecutesCreate ==
    ASSUME DInv, Statement, proc.pc = "create"
    PROVE  DInv'
<1> DEFINE v == proc.v
<1>1. Asked /\ proc.new /\ Creating /\ file \in Files /\ proc.script # <<>>
  BY DEF DInv, Typed, Doing, Progress, InitSteps, Statement
<1>2. v \in Nat /\ v > 0
  BY <1>1, Numbers DEF Asked
<1>3. broken' = IF proc.script = CreateScript(v) THEN FALSE ELSE broken
  BY DEF Statement, At
<1> HIDE DEF v
<1>4. CASE proc.script = CreateScript(v) /\ file.schema = 0
  <2>1. Head(proc.script) = Schema(v) /\ Tail(proc.script) = <<Version(v)>>
    BY <1>4, TwoStatements DEF CreateScript
  <2>2. ~ Fails(Head(proc.script))
    BY <1>1, <1>2, <1>4, <2>1, Statements
  <2>3. file' = [file EXCEPT !.exists = TRUE, !.schema = v]
    BY <1>1, <1>2, <2>1, <2>2, Executes, Statements
  <2>4. file' \in Files /\ file'.exists /\ file'.schema = v
    BY <1>1, <1>2, <2>3 DEF Files
  <2>5. /\ proc'.script = <<Version(v)>> /\ proc'.pc = "create" /\ proc'.v = v /\ proc'.new
        /\ Typed'
    BY <1>1, <2>1, <2>2, <2>4, Executes DEF v
  <2>6. Progress'
    BY <1>3, <1>4, <2>4, <2>5 DEF Progress, Creating, BackupSteps
  <2> QED BY <2>5, <2>6 DEF DInv
<1>5. CASE proc.script = <<Version(v)>> /\ file.exists /\ file.schema = v /\ ~ broken
  <2>1. Head(proc.script) = Version(v) /\ Tail(proc.script) = <<>>
    BY <1>5, TwoStatements
  <2>2. ~ Fails(Head(proc.script))
    BY <1>1, <1>2, <2>1, Statements
  <2>3. file' = [file EXCEPT !.exists = TRUE, !.version = v]
    BY <1>1, <1>2, <2>1, <2>2, Executes, Statements
  <2>4. file' \in Files /\ file'.exists /\ file'.schema = v /\ file'.version = v
    BY <1>1, <1>2, <1>5, <2>3 DEF Files
  <2>5. /\ proc'.script = <<>> /\ proc'.pc = "create" /\ proc'.v = v /\ proc'.new
        /\ Typed'
    BY <1>1, <2>1, <2>2, <2>4, Executes DEF v
  <2>6. Progress'
    BY <1>2, <1>3, <1>5, <2>4, <2>5 DEF Progress, Creating, Sound, BackupSteps
  <2> QED BY <2>5, <2>6 DEF DInv
<1> QED BY <1>1, <1>4, <1>5 DEF Creating, v

(* ... those that insert rows, ...                                         *)
LEMMA ExecutesFill ==
    ASSUME DInv, Statement, proc.pc \in {"restore", "customize"}
    PROVE  DInv' /\ ~ Fails(Head(proc.script)) /\ file'.rows = file.rows \cup {Head(proc.script).row}
<1>1. /\ Asked /\ Filling /\ proc.current = file.version /\ file \in Files /\ proc.script # <<>>
      /\ broken' = broken
  BY DEF DInv, Typed, Doing, Progress, InitSteps, Statement, At
<1>2. proc.new /\ ~ broken /\ Sound
  BY <1>1 DEF Filling
<1>3. Head(proc.script) \in [do : {"row"}, row : Rows] /\ Tail(proc.script) \in Inserting
  BY <1>1, HeadTailProperties DEF Filling, Inserting
<1>4. ~ Fails(Head(proc.script))
  <2>1. file.schema # 0
    BY <1>1, <1>2 DEF Sound, Files
  <2> QED BY <1>3, <2>1, RowStatements
<1>5. file' = [file EXCEPT !.rows = @ \cup {Head(proc.script).row}]
  BY <1>3, <1>4, Executes, RowStatements
<1>6. /\ file' \in Files /\ file'.exists = file.exists /\ file'.schema = file.schema
      /\ file'.version = file.version /\ file'.rows = file.rows \cup {Head(proc.script).row}
  BY <1>1, <1>3, <1>5 DEF Files
<1>7. /\ proc'.script = Tail(proc.script) /\ proc'.pc = proc.pc /\ proc'.v = proc.v /\ proc'.new
      /\ proc'.current = proc.current /\ Typed'
  BY <1>2, <1>4, <1>6, Executes
<1>8. Filling'
  BY <1>1, <1>2, <1>3, <1>6, <1>7 DEF Filling, Sound
<1>9. Progress'
  BY <1>1, <1>2, <1>6, <1>7, <1>8 DEF Progress, Sound, BackupSteps
<1> QED BY <1>4, <1>6, <1>7, <1>9 DEF DInv

(* ... and those of the migration script, the only ones that may fail.     *)
LEMMA ExecutesMigration ==
    ASSUME DInv, Statement, proc.pc = "migrate"
    PROVE  DInv' /\ (~ Fails(Head(proc.script)) => file'.rows = file.rows)
<1> DEFINE n == proc.current
           f == Head(proc.script)
<1>1. /\ Asked /\ Migrating /\ file \in Files /\ proc.script # <<>> /\ broken' = broken
      /\ broken \in BOOLEAN
  BY DEF DInv, Typed, Doing, Progress, InitSteps, Statement, At
<1>2. n \in Nat /\ n + 1 \in Nat /\ n + 1 > 0 /\ n + 1 - 1 = n
  <2>1. n \in Nat
    BY <1>1 DEF Asked
  <2> HIDE DEF n
  <2> QED BY <2>1
<1>3. ASSUME Fails(f), broken PROVE DInv'
  <2>1. proc' = [pc |-> "segfault"] /\ file' = file /\ dumps' = dumps
    BY <1>3 DEF Statement
  <2>2. proc'.pc = "segfault"
    BY <2>1
  <2>3. Typed'
    BY <1>1, <2>1, <2>2 DEF DInv, Typed, Doing, InitSteps, BackupSteps
  <2>4. Progress'
    BY <1>1, <1>3, <2>1, <2>2 DEF DInv, Progress, BackupSteps
  <2> QED BY <2>3, <2>4 DEF DInv
<1> HIDE DEF n, f
<1>4. CASE proc.script = MigrateScript(n) /\ (~ broken => Sound /\ file.version = n)
  <2>1. f = Schema(n + 1) /\ Tail(proc.script) = <<Version(n + 1)>>
    BY <1>4, TwoStatements DEF MigrateScript, f
  <2>2. CASE Fails(f)
    <3>1. ASSUME ~ broken PROVE FALSE
      <4>1. file.schema = n /\ file.schema # 0
        BY <1>1, <1>2, <1>4, <3>1 DEF Sound
      <4>2. file.schema = n + 1 - 1
        BY <1>2, <4>1
      <4> DEFINE m == n + 1
      <4>3. file \in Files /\ m \in Nat /\ Fails(Schema(m)) /\ file.schema = m - 1
        BY <1>1, <1>2, <2>1, <2>2, <4>2
      <4> HIDE DEF m
      <4>4. Fails(Schema(m)) <=> \/ file.schema # 0 /\ file.schema # m - 1
                                 \/ proc.pc = "migrate" /\ file.schema # m - 1
        BY <4>3, Statements
      <4> QED BY <4>3, <4>4
    <3> QED BY <1>1, <1>3, <2>2, <3>1 DEF f
  <2>3. CASE ~ Fails(f)
    <3>1. file' = [file EXCEPT !.exists = TRUE, !.schema = n + 1]
      BY <1>1, <1>2, <2>1, <2>3, Executes, Statements DEF f
    <3>2. file' \in Files /\ file'.exists /\ file'.schema = n + 1 /\ file'.rows = file.rows
      BY <1>1, <1>2, <3>1 DEF Files
    <3>3. /\ proc'.script = <<Version(n + 1)>> /\ proc'.pc = "migrate" /\ proc'.current = n
          /\ proc'.new = proc.new /\ Typed'
      BY <2>1, <2>3, <3>2, Executes DEF f, n
    <3>4. Migrating'
      <4>1. (proc.new => ~ broken) /\ n = proc.current
        BY <1>1 DEF Migrating, n
      <4> QED BY <1>1, <3>2, <3>3, <4>1 DEF Migrating
    <3>5. Progress'
      BY <3>2, <3>3, <3>4 DEF Progress, BackupSteps
    <3> QED BY <3>2, <3>3, <3>5 DEF DInv
  <2> QED BY <2>2, <2>3
<1>5. CASE proc.script = <<Version(n + 1)>> /\ (~ broken => file.schema = n + 1)
  <2>1. f = Version(n + 1) /\ Tail(proc.script) = <<>>
    BY <1>5, TwoStatements DEF f
  <2>2. ~ Fails(f)
    BY <1>1, <1>2, <2>1, Statements
  <2>3. file' = [file EXCEPT !.exists = TRUE, !.version = n + 1]
    BY <1>1, <1>2, <2>1, <2>2, Executes, Statements DEF f
  <2>4. /\ file' \in Files /\ file'.exists /\ file'.version = n + 1 /\ file'.schema = file.schema
        /\ file'.rows = file.rows
    BY <1>1, <1>2, <2>3 DEF Files
  <2>5. /\ proc'.script = <<>> /\ proc'.pc = "migrate" /\ proc'.current = n
        /\ proc'.new = proc.new /\ Typed'
    BY <2>1, <2>2, <2>4, Executes DEF f, n
  <2>6. Migrating'
    BY <1>1, <1>2, <1>5, <2>4, <2>5 DEF Migrating, Sound
  <2>7. Progress'
    BY <2>4, <2>5, <2>6 DEF Progress, BackupSteps
  <2> QED BY <2>4, <2>5, <2>7 DEF DInv
<1> QED BY <1>1, <1>4, <1>5 DEF Migrating, n, f

-----------------------------------------------------------------------------
(* What leaves the database as it is, with no initialisation going on.     *)
LEMMA Rests ==
    ASSUME DInv, file' = file, broken' = broken, proc'.pc \in {"idle"} \cup BackupSteps,
           proc'.pc \in BackupSteps => DOMAIN proc' = {"pc", "current"} /\ proc'.current \in Nat,
           \A v \in DOMAIN dumps' : dumps'[v] \in SUBSET Rows,
           file.exists /\ ~ broken => Sound
    PROVE  DInv'
<1>1. Typed'
  BY DEF DInv, Typed, Doing, InitSteps, BackupSteps
<1>2. Progress'
  BY DEF DInv, Progress, Sound, BackupSteps
<1> QED BY <1>1, <1>2 DEF DInv

(* The backup.                                                             *)
LEMMA Backs ==
    ASSUME DInv, StartBackup \/ Redirect \/ \E ok \in BOOLEAN : Dump(ok)
    PROVE  DInv'
<1>1. ASSUME proc.pc \in {"idle"} \cup BackupSteps PROVE file.exists /\ ~ broken => Sound
  BY <1>1 DEF DInv, Progress
<1>2. file.version \in Nat /\ file.rows \in SUBSET Rows /\ {} \in SUBSET Rows
      /\ \A v \in DOMAIN dumps : dumps[v] \in SUBSET Rows
  BY DEF DInv, Typed, Files
<1>3. CASE StartBackup
  <2>1. /\ proc' = [pc |-> "redirect", current |-> file.version] /\ proc.pc = "idle"
        /\ file' = file /\ dumps' = dumps /\ broken' = broken
    BY <1>3 DEF StartBackup, Go, At
  <2> QED BY <1>1, <1>2, <2>1, Rests DEF BackupSteps
<1>4. ASSUME NEW R \in SUBSET Rows
      PROVE  \A v \in DOMAIN Dumped(R) : Dumped(R)[v] \in SUBSET Rows
  BY <1>2 DEF Dumped
<1>5. CASE Redirect
  <2>1. /\ proc' = [proc EXCEPT !.pc = "dump"] /\ proc.pc = "redirect"
        /\ file' = file /\ dumps' = Dumped({}) /\ broken' = broken
    BY <1>5 DEF Redirect, At
  <2>2. DOMAIN proc = {"pc", "current"} /\ proc.current \in Nat
    BY <2>1 DEF DInv, Typed, Doing, BackupSteps
  <2>3. proc'.pc = "dump" /\ DOMAIN proc' = {"pc", "current"} /\ proc'.current \in Nat
    BY <2>1, <2>2
  <2> QED BY <1>1, <1>2, <1>4, <2>1, <2>3, Rests DEF BackupSteps
<1>6. CASE \E ok \in BOOLEAN : Dump(ok)
  <2>1. /\ proc' = Idle /\ proc.pc = "dump" /\ dumps' \in {dumps, Dumped(file.rows)}
        /\ file' = file /\ broken' = broken
    BY <1>6 DEF Dump, At
  <2>2. proc'.pc = "idle" /\ "idle" \notin BackupSteps
    BY <2>1 DEF Idle, BackupSteps
  <2> QED BY <1>1, <1>2, <1>4, <2>1, <2>2, Rests DEF BackupSteps
<1> QED BY <1>3, <1>5, <1>6

(* The end of an initialisation.                                           *)
LEMMA Returns ==
    ASSUME DInv, ReturnInit
    PROVE  DInv'
<1>1. proc' = Idle /\ proc.pc = "ready" /\ file' = file /\ dumps' = dumps /\ broken' = broken
  BY DEF ReturnInit, Go, At
<1>2. ~ broken => Sound
  BY <1>1 DEF DInv, Progress
<1>3. proc'.pc = "idle" /\ "idle" \notin BackupSteps
  BY <1>1 DEF Idle, BackupSteps
<1> QED BY <1>1, <1>2, <1>3, Rests DEF DInv, Typed

(* The application changes rows and no tables.                             *)
LEMMA Writes ==
    ASSUME DInv, Write
    PROVE  DInv'
<1>1. PICK r \in Data : file' = [file EXCEPT !.rows = IF r \in @ THEN @ \ {r} ELSE @ \cup {r}]
  BY DEF Write
<1>2. proc' = proc /\ dumps' = dumps /\ broken' = broken /\ proc.pc = "idle" /\ file \in Files
  BY DEF Write, At, DInv, Typed
<1>3. /\ file' \in Files /\ file'.exists = file.exists /\ file'.schema = file.schema
      /\ file'.version = file.version
  BY <1>1, <1>2 DEF Files, Rows
<1>4. Typed'
  BY <1>2, <1>3 DEF DInv, Typed, Doing, Asked
<1>5. Progress'
  BY <1>2, <1>3 DEF DInv, Progress, Sound, BackupSteps
<1> QED BY <1>4, <1>5 DEF DInv

(* The process dies: what it left unfinished is remembered in broken.      *)
LEMMA Crashes ==
    ASSUME DInv, Crash
    PROVE  DInv'
<1>1. /\ proc' = Idle /\ file' = file /\ dumps' = dumps /\ broken \in BOOLEAN
      /\ broken' = (broken \/ (proc.pc \notin {"redirect", "dump", "segfault"} /\ Unfinished))
  BY DEF Crash, DInv, Typed
<1>2. proc.pc \in Scripted \cup {"drop", "version", "ready", "segfault", "redirect", "dump"}
  BY DEF Crash
<1>3. proc'.pc = "idle" /\ "idle" \notin BackupSteps \cup InitSteps
  BY <1>1 DEF Idle, BackupSteps, InitSteps
<1>4. Typed'
  BY <1>1, <1>3 DEF DInv, Typed, Doing
<1>5. ~ broken' /\ file.exists => Sound
  <2> SUFFICES ASSUME ~ broken', file.exists PROVE Sound
    OBVIOUS
  <2>1. ~ broken
    BY <1>1
  <2>2. CASE proc.pc \in {"drop", "redirect", "dump"}
    BY <2>1, <2>2 DEF DInv, Progress, BackupSteps
  <2>3. CASE proc.pc \in {"version", "ready", "segfault"}
    BY <2>1, <2>3 DEF DInv, Progress
  <2>4. CASE proc.pc \in {"restore", "customize"}
    BY <2>1, <2>4 DEF DInv, Progress, Filling
  <2>5. CASE proc.pc = "create"
    BY <1>1, <2>5 DEF Unfinished, At
  <2>6. CASE proc.pc = "migrate"
    <3>1. proc.script = <<>>
      BY <1>1, <2>6 DEF Unfinished, Scripted
    <3> QED BY <2>1, <2>6, <3>1, TwoStatements DEF DInv, Progress, Migrating, MigrateScript
  <2> QED BY <1>2, <2>2, <2>3, <2>4, <2>5, <2>6 DEF Scripted
<1>6. Progress'
  BY <1>1, <1>3, <1>5 DEF DInv, Progress, Sound, BackupSteps
<1> QED BY <1>4, <1>6 DEF DInv

(* Every step keeps the inductive invariant.                               *)
LEMMA NextKeeps ==
    ASSUME DInv, [Next]_vars
    PROVE  DInv'
<1>1. ASSUME UNCHANGED <<file, dumps, proc, broken>> PROVE DInv'
  BY <1>1 DEF DInv, Typed, Doing, Asked, Progress, Creating, Filling, Migrating, Sound
<1>2. CASE Statement
  BY <1>2, ExecutesCreate, ExecutesFill, ExecutesMigration DEF Statement, Scripted
<1>3. CASE Open \/ Attach \/ Close \/ UNCHANGED vars
  BY <1>1, <1>3 DEF Open, Attach, Close, vars
<1> QED BY <1>2, <1>3, Starts, Drops, Creates, Reads, Customizes, Migrates, GetsReady, Returns,
           Backs, Writes, Crashes DEF Next

(* For any number of versions and any migrations: an initialisation that   *)
(* gets to its end leaves tables of the version the database says it has,  *)
(* unless it went on with a file that a crash had cut off within a script; *)
(* one that makes the database anew does so even then; and a script fails  *)
(* only in such a file.                                                    *)
THEOREM InitialisationIsSound == Spec => []ReadyMeansSound
<1>1. DInv => ReadyMeansSound
  BY DEF DInv, Typed, Progress, ReadyMeansSound, At, Sound
<1>2. DInv /\ [Next]_vars => DInv'
  BY NextKeeps
<1> QED BY InitSound, <1>1, <1>2, PTL DEF Spec

-----------------------------------------------------------------------------
(* A step after which nothing is being restored or dumped keeps what is    *)
(* known of the backup, if it changes neither the dumps nor what was saved *)
(* and was not a dump itself.                                              *)
LEMMA Quiet ==
    ASSUME BInv, saved' = saved, dumps' = dumps, proc.pc # "dump",
           proc'.pc \notin {"restore", "customize", "migrate", "ready"}
    PROVE  BInv'
<1>1. Kept'
  BY DEF BInv, Kept
<1>2. Restoring'
  BY DEF Restoring
<1> QED BY <1>1, <1>2 DEF BInv

(* What is restored is what was saved.                                     *)
LEMMA ReadsBackup ==
    ASSUME DInv, BInv, ReadVersion
    PROVE  BInv'
<1>1. /\ proc' = [proc EXCEPT !.pc = "restore", !.current = file.version,
                              !.script = RestoreScript(file.version)]
      /\ proc.pc = "version" /\ file' = file /\ dumps' = dumps /\ saved' = saved
  BY DEF ReadVersion, Go, At
<1>2. Asked
  BY <1>1 DEF DInv, Typed, Doing, InitSteps
<1>3. /\ proc'.pc = "restore" /\ proc'.v = proc.v /\ proc'.new = proc.new /\ proc'.restore = proc.restore
      /\ proc'.script = RestoreScript(file.version)
  BY <1>1, <1>2 DEF Asked
<1>4. Kept'
  BY <1>1, <1>3 DEF BInv, Kept
<1>5. ASSUME proc.new, proc.restore, proc.v = saved.version
      PROVE  \A r \in saved.rows : \E i \in 1..Len(proc'.script) : proc'.script[i].row = r
  <2>1. file.version = proc.v /\ saved.version > 0
    BY <1>1, <1>2, <1>5, Numbers DEF DInv, Progress, Asked
  <2>2. saved.version \in DOMAIN dumps /\ saved.rows = dumps[saved.version]
    BY <1>1, <2>1 DEF BInv, Kept
  <2>3. proc'.script = InsertScript(saved.rows)
    BY <1>3, <1>5, <2>1, <2>2 DEF RestoreScript, Restores
  <2>4. saved.rows \in SUBSET Rows
    BY DEF BInv
  <2> QED BY <2>3, <2>4, Inserts
<1>6. Restoring'
  BY <1>1, <1>3, <1>5 DEF Restoring
<1> QED BY <1>1, <1>4, <1>6 DEF BInv

(* When the script is at its end, everything saved is there again.         *)
LEMMA GoesOn ==
    ASSUME DInv, BInv, Restored \/ Customized \/ Migrated
    PROVE  BInv'
<1>1. /\ proc.pc \in {"restore", "customize", "migrate"} /\ (proc.pc = "restore" => proc.script = <<>>)
      /\ file' = file /\ dumps' = dumps /\ saved' = saved
  BY DEF Restored, Customized, Migrated, Go, At
<1>2. Asked
  BY <1>1 DEF DInv, Typed, Doing, InitSteps
<1>3. /\ proc'.pc \in {"customize", "migrate", "ready"}
      /\ proc'.v = proc.v /\ proc'.new = proc.new /\ proc'.restore = proc.restore
  <2>1. CASE Restored
    <3>1. proc' = [proc EXCEPT !.pc = "customize", !.script = CustomizeScript]
      BY <2>1 DEF Restored, Go
    <3> QED BY <1>2, <3>1 DEF Asked
  <2>2. CASE Customized
    <3> DEFINE script == IF proc.current \in Migrations THEN MigrateScript(proc.current) ELSE <<>>
    <3>1. proc' = [proc EXCEPT !.pc = "migrate", !.script = script]
      BY <2>2 DEF Customized, Go
    <3> HIDE DEF script
    <3> QED BY <1>2, <3>1 DEF Asked
  <2>3. CASE Migrated
    <3>1. proc' = [proc EXCEPT !.pc = "ready"]
      BY <2>3 DEF Migrated, Go
    <3> QED BY <1>2, <3>1 DEF Asked
  <2> QED BY <2>1, <2>2, <2>3
<1>4. Kept'
  BY <1>1, <1>3 DEF BInv, Kept
<1>5. ASSUME proc.new, proc.restore, proc.v = saved.version
      PROVE  saved.rows \subseteq file.rows
  <2>1. CASE proc.pc = "restore"
    <3>1. \A i : i \notin 1..Len(proc.script)
      BY <1>1, <2>1
    <3> QED BY <1>5, <2>1, <3>1 DEF BInv, Restoring, InitSteps
  <2>2. CASE proc.pc \in {"customize", "migrate"}
    BY <1>5, <2>2 DEF BInv, Restoring, InitSteps
  <2> QED BY <1>1, <2>1, <2>2
<1>6. Restoring'
  BY <1>1, <1>3, <1>5 DEF Restoring
<1> QED BY <1>1, <1>4, <1>6 DEF BInv

(* A statement takes no row away.                                          *)
LEMMA KeepsRestoring ==
    ASSUME DInv, BInv, Statement
    PROVE  BInv'
<1>1. dumps' = dumps /\ saved' = saved /\ proc.pc \in Scripted
  BY DEF Statement
<1>2. CASE Fails(Head(proc.script))
  <2>1. proc'.pc = "segfault"
    BY <1>2 DEF Statement
  <2> QED BY <1>1, <2>1, Quiet DEF Scripted
<1>3. CASE ~ Fails(Head(proc.script))
  <2>1. /\ proc'.script = Tail(proc.script) /\ proc'.pc = proc.pc /\ proc'.v = proc.v
        /\ proc'.new = proc.new /\ proc'.restore = proc.restore
    BY <1>3, Executes
  <2>2. Kept'
    BY <1>1, <2>1 DEF BInv, Kept, Scripted
  <2>3. CASE proc.pc = "create"
    BY <1>1, <2>1, <2>3, Quiet
  <2>4. CASE proc.pc = "restore"
    <3>1. proc.script \in Inserting /\ proc.script # <<>>
          /\ file'.rows = file.rows \cup {Head(proc.script).row}
      BY <2>4, ExecutesFill DEF DInv, Progress, Filling, Statement
    <3>2. /\ Len(proc.script) \in Nat /\ Head(proc.script) = proc.script[1]
          /\ Len(Tail(proc.script)) = Len(proc.script) - 1
          /\ \A i \in 1..Len(Tail(proc.script)) : Tail(proc.script)[i] = proc.script[i + 1]
      BY <3>1, HeadTailProperties DEF Inserting
    <3>3. ASSUME NEW i \in 1..Len(proc.script), i # 1
          PROVE  i - 1 \in 1..Len(Tail(proc.script)) /\ Tail(proc.script)[i - 1] = proc.script[i]
      <4>1. i - 1 \in 1..Len(Tail(proc.script)) /\ i - 1 + 1 = i
        BY <3>2, <3>3
      <4> QED BY <3>2, <4>1
    <3>4. ASSUME NEW r, \E i \in 1..Len(proc.script) : proc.script[i].row = r
          PROVE  r \in file'.rows \/ \E i \in 1..Len(proc'.script) : proc'.script[i].row = r
      <4>1. PICK i \in 1..Len(proc.script) : proc.script[i].row = r
        BY <3>4
      <4>2. CASE i = 1
        BY <3>1, <3>2, <4>1, <4>2
      <4>3. CASE i # 1
        BY <2>1, <3>3, <4>1, <4>3
      <4> QED BY <4>2, <4>3
    <3>5. Restoring'
      BY <1>1, <2>1, <2>4, <3>1, <3>4 DEF BInv, Restoring, InitSteps
    <3> QED BY <1>1, <2>2, <3>5 DEF BInv
  <2>5. CASE proc.pc \in {"customize", "migrate"}
    <3>1. file.rows \subseteq file'.rows
      BY <1>3, <2>5, ExecutesFill, ExecutesMigration
    <3>2. Restoring'
      BY <1>1, <2>1, <2>5, <3>1 DEF BInv, Restoring, InitSteps
    <3> QED BY <1>1, <2>2, <3>2 DEF BInv
  <2> QED BY <1>1, <2>3, <2>4, <2>5 DEF Scripted
<1> QED BY <1>2, <1>3

(* A backup replaces the dump of its version, and no other.                *)
LEMMA KeepsDumps ==
    ASSUME DInv, BInv, "torn_backup" \notin Freedoms, Redirect \/ \E ok \in BOOLEAN : Dump(ok)
    PROVE  BInv'
<1>1. \A R : /\ DOMAIN Dumped(R) = DOMAIN dumps \cup {proc.current} /\ Dumped(R)[proc.current] = R
             /\ \A v \in DOMAIN dumps : v # proc.current => Dumped(R)[v] = dumps[v]
  BY DEF Dumped
<1>2. proc.pc \in BackupSteps
  BY DEF Redirect, Dump, At, BackupSteps
<1>3. DOMAIN proc = {"pc", "current"} /\ proc.current \in Nat /\ file.rows \in SUBSET Rows
  BY <1>2 DEF DInv, Typed, Doing, Files
<1>4. CASE Redirect
  <2>1. /\ proc' = [proc EXCEPT !.pc = "dump"] /\ proc.pc = "redirect"
        /\ dumps' = Dumped({}) /\ saved' = saved
    BY <1>4 DEF Redirect, At
  <2>2. proc'.pc = "dump" /\ proc'.current = proc.current
    BY <1>3, <2>1
  <2>3. Kept'
    BY <1>1, <2>1, <2>2 DEF BInv, Kept
  <2>4. Restoring'
    BY <2>2 DEF Restoring
  <2> QED BY <2>1, <2>3, <2>4 DEF BInv
<1>5. CASE Dump(TRUE)
  <2>1. /\ proc' = Idle /\ dumps' = Dumped(file.rows)
        /\ saved' = [version |-> proc.current, rows |-> file.rows]
    BY <1>5 DEF Dump
  <2>2. Kept'
    BY <1>1, <2>1 DEF Kept
  <2>3. Restoring'
    BY <2>1 DEF Restoring, Idle
  <2> QED BY <1>3, <2>1, <2>2, <2>3 DEF BInv
<1>6. (\E ok \in BOOLEAN : Dump(ok)) => Dump(TRUE)
  BY DEF Dump
<1> QED BY <1>4, <1>5, <1>6

(* Every step keeps what is known of the backup.                           *)
LEMMA NextKeepsBackup ==
    ASSUME DInv, BInv, "torn_backup" \notin Freedoms, [Next]_vars
    PROVE  BInv'
<1>1. ASSUME UNCHANGED <<file, dumps, proc, saved>> PROVE BInv'
  BY <1>1 DEF BInv, Kept, Restoring
<1>2. CASE Open \/ Attach \/ Close \/ UNCHANGED vars
  BY <1>1, <1>2 DEF Open, Attach, Close, vars
<1>3. CASE Write
  BY <1>3, Quiet DEF Write, At
<1>4. CASE Crash
  <2>1. proc'.pc = "idle" /\ saved' = saved /\ dumps' = dumps /\ proc.pc # "dump"
    BY <1>4 DEF Crash, Idle, Scripted
  <2> QED BY <2>1, Quiet
<1>5. CASE StartBackup
  <2>1. proc'.pc = "redirect" /\ saved' = saved /\ dumps' = dumps /\ proc.pc # "dump"
    BY <1>5 DEF StartBackup, Go, At
  <2> QED BY <2>1, Quiet
<1>6. CASE ReturnInit
  <2>1. proc'.pc = "idle" /\ saved' = saved /\ dumps' = dumps /\ proc.pc # "dump"
    BY <1>6 DEF ReturnInit, Go, At, Idle
  <2> QED BY <2>1, Quiet
<1>7. CASE \E recreate, restore, customize \in BOOLEAN, v \in Versions :
              StartInit(recreate, restore, customize, v)
  <2>1. proc'.pc \in {"create", "drop", "version"} /\ saved' = saved /\ dumps' = dumps /\ proc.pc # "dump"
    BY <1>7 DEF StartInit, Go, At
  <2> QED BY <2>1, Quiet
<1>8. CASE Drop \/ Created
  <2>1. /\ proc.pc \in {"drop", "create"} /\ saved' = saved /\ dumps' = dumps
        /\ \/ proc' = [proc EXCEPT !.pc = "create", !.script = CreateScript(proc.v)]
           \/ proc' = [proc EXCEPT !.pc = "version"]
    BY <1>8 DEF Drop, Created, Go, At
  <2>2. Asked
    BY <2>1 DEF DInv, Typed, Doing, InitSteps
  <2>3. proc'.pc \in {"create", "version"}
    BY <2>1, <2>2 DEF Asked
  <2> QED BY <2>1, <2>3, Quiet
<1> QED BY <1>2, <1>3, <1>4, <1>5, <1>6, <1>7, <1>8, ReadsBackup, GoesOn, KeepsRestoring, KeepsDumps
        DEF Next

(* For any number of versions, any data and rows of the customize scripts: *)
(* a database that is made anew and restored has every row of the last     *)
(* backup of its version, whatever crashed in between, as long as backups  *)
(* themselves are not cut off and their shell commands succeed.            *)
THEOREM BackupIsRestored ==
    ASSUME "torn_backup" \notin Freedoms
    PROVE  Spec => []RestoresTheBackup
<1>1. Init => BInv
  <2> SUFFICES ASSUME Init PROVE BInv
    OBVIOUS
  <2>1. saved = [version |-> 0, rows |-> {}] /\ proc.pc = "idle"
    BY DEF Init, NoBackup, Idle
  <2> QED BY <2>1 DEF BInv, Kept, Restoring, InitSteps
<1>2. DInv /\ BInv /\ [Next]_vars => DInv' /\ BInv'
  BY NextKeeps, NextKeepsBackup
<1>3. BInv => RestoresTheBackup
  BY DEF BInv, Restoring, RestoresTheBackup, At, InitSteps
<1> QED BY InitSound, <1>1, <1>2, <1>3, PTL DEF Spec
=============================================================================
