------------------------------ MODULE MCValues ------------------------------
(***************************************************************************)
(* What holds the values of documents, at three levels: the maps of        *)
(* objects, the documents that share values, and the files documents are   *)
(* kept in.  One behaviour of the run is of one of them, the others stay   *)
(* as they were.                                                           *)
(***************************************************************************)
EXTENDS CeeMap, TLC

CONSTANTS MaxName, Broken, Absent

(* Two keys of maps have the same name; the values are interchangeable. *)
MCKeys == 1..MaxName + 1
MCName == [k \in MCKeys |-> IF k > MaxName THEN 1 ELSE k]
AnyValues == Permutations(Values) \cup Permutations(Maps)

VARIABLES using, heap, outcome, last, calls,
          disk, proc, handles, states, before, failed, runs

documents == <<heap, outcome, last, calls>>
files == <<disk, proc, handles, states, before, failed, runs>>

(* Documents: texts, numbers, the shared values, and nested containers.    *)
Leaf(t, val) == [t |-> t, val |-> val, elems |-> <<>>, fields |-> [k \in {} |-> 0]]
Text(x) == Leaf("string", [text |-> x, block |-> x])
One == Leaf("i64", 1)
Array(s) == [Leaf("array", 0) EXCEPT !.elems = s]
Object(f) == [Leaf("object", 0) EXCEPT !.fields = f]

Listed == Object("a" :> Array(<<Text("x")>>) @@ "b" :> Object("a" :> Text("y")))
Plain == Object("a" :> Text("x"))
Nested == Object("b" :> Object("a" :> One @@ "b" :> Array(<<>>)))
Mixed == Array(<<Text("y"), Object("b" :> Leaf("bool", 1))>>)
Other == Object("a" :> Array(<<One>>) @@ "b" :> Leaf("null", 0))

V == INSTANCE JsonValues WITH
    Keys <- {"a", "b"}, Leaves <- {[t |-> "i64", val |-> 2]}, Texts <- {"x"}, Long <- {"long"},
    Rewrites <- {("x" :> "y") @@ ("y" :> "x"), "x" :> "long"}, Freedoms <- {}, MaxCalls <- 2,
    Documents <- {<<Listed, Nested>>, <<Plain, Mixed>>, <<Plain, Plain>>, <<Listed, Other>>}

(* Three files, of which any may be written.  cee_json_merge leaves the    *)
(* first document when the types differ or are neither of these two.       *)
Unite(t, u) == IF t.t = u.t /\ t.t \in {"object", "array"} THEN V!Union(t, u) ELSE t
Listing(t, inputs) ==
    [t EXCEPT !.fields = ("originals" :> Array([i \in DOMAIN inputs |-> Text(inputs[i])])) @@ @]

F == INSTANCE JsonFiles WITH
    Files <- {"f", "g", "h"}, Documents <- {Listed, Nested, Mixed},
    Freedoms <- {}, MaxRuns <- 2,
    Inputs <- {<<"f">>, <<"f", "g">>, <<"g", "f", "g">>, <<"f", "g", "h">>}

ValuesInit == /\ Init /\ V!Init /\ F!Init /\ using \in {"maps", "documents", "files"}
              /\ using # "documents" => heap = V!Parsed(<<Plain, Plain>>)
              /\ using # "files" => disk = [f \in {"f", "g", "h"} |-> Absent]
ValuesNext == \/ using = "maps" /\ Next /\ UNCHANGED <<documents, files, using>>
              \/ using = "documents" /\ V!Next /\ UNCHANGED <<vars, files, using>>
              \/ using = "files" /\ F!Next /\ UNCHANGED <<vars, documents, using>>
ValuesSpec == ValuesInit /\ [][ValuesNext]_<<vars, documents, files, using>>

ValuesSound == V!ValuesSound
CallsHaveTheirEffect == V!CallsHaveTheirEffect
ReturnsUnion == F!ReturnsUnion
=============================================================================
