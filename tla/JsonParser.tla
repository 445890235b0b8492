----------------------------- MODULE JsonParser -----------------------------
(***************************************************************************)
(* cee_json_parsex: the push-down automaton that turns a stream of tokens  *)
(* into a tree of cee_json values.  The tokenizer is abstracted to a free  *)
(* choice of the next token: a bracket, a separator, a string, "lit" for a *)
(* number, true, false or null, "err" or "eof".                            *)
(*                                                                         *)
(* The nodes of the tree are numbered in the order the parser makes them.  *)
(***************************************************************************)
EXTENDS Naturals, SequencesExt

CONSTANTS
    Strings,     \* the strings a text may hold
    MaxDepth,    \* cee_json_max_depth, the capacity of the stack: 512 in the code
    MaxTokens    \* bound on the length of a text

ASSUME ParserAssumption ==
    /\ MaxDepth \in Nat \ {0, 1} /\ MaxTokens \in Nat
    /\ Strings \cap {"[", "]", "{", "}", ":", ",", "lit", "err", "eof"} = {}

VARIABLES
    force_eof, \* a parameter: whether the text has to end behind the value
    state,     \* the state of the automaton
    sp,        \* the stack: what to go on with (tops), and the value being built (j)
    key,       \* the key read last
    result,    \* the j of the frame popped last
    nodes,     \* the values made so far
    seen,      \* the tokens read so far, "eof" included
    outcome,   \* "reading", or what the call returns: "ok" or "einval"
    out        \* the value returned

vars == <<force_eof, state, sp, key, result, nodes, seen, outcome, out>>

NULL == 0

Scalars == Strings \cup {"lit"}
Tokens == Scalars \cup {"[", "]", "{", "}", ":", ",", "err", "eof"}

(* A value: a container keeps its elements in order, an object their keys. *)
Value(c) == [tag |-> c, elems |-> <<>>, keys |-> <<>>]
Opening == [c \in {"[", "{"} |->
               IF c = "[" THEN "array_value_or_close" ELSE "object_key_or_close"]

-----------------------------------------------------------------------------
Init == /\ force_eof \in BOOLEAN
        /\ state = "value"
        /\ sp = <<[tops |-> "done", j |-> NULL]>>
        /\ key = "" /\ result = NULL
        /\ nodes = <<>> /\ seen = <<>>
        /\ outcome = "reading" /\ out = NULL

Looping == /\ outcome = "reading"
           /\ sp # <<>> /\ Len(sp) < MaxDepth
           /\ state \notin {"error", "done"}

(* cee_json_next_token, once the text has its bounded length at its end. *)
NextToken(c) ==
    /\ c \in IF Len(seen) < MaxTokens THEN Tokens ELSE {"eof"}
    /\ seen' = Append(seen, c)

Read(s, c) == Looping /\ state = s /\ NextToken(c) /\ UNCHANGED <<outcome, out>>

Goto(s) == state' = s /\ UNCHANGED <<sp, result>>

(* Faulty: the state to go on with is that of the frame beneath. *)
ReturnBeneath == /\ state' = IF Len(sp) > 1 THEN sp[Len(sp) - 1].tops ELSE "done"
                 /\ result' = Last(sp).j
                 /\ sp' = Front(sp)

(* state = TOPS; POP(sp). *)
Return == /\ state' = Last(sp).tops
          /\ result' = Last(sp).j
          /\ sp' = Front(sp)

Fail(expected, c) == c \notin expected /\ Goto("error") /\ UNCHANGED <<key, nodes>>

(* Faulty: the value before is attached in the place of the new one. *)
AttachedPrevious(v) ==
    [nodes EXCEPT ![Last(sp).j].elems = Append(@, Len(nodes))] \o <<v>>

(* The value of c becomes the next node, and is attached to the container  *)
(* on top of the stack: an array appends it, an object has it under key.   *)
Attached(v) ==
    LET new == Len(nodes) + 1
        j == Last(sp).j
        at == {i \in DOMAIN nodes[j].keys : nodes[j].keys[i] = key}
        kept == IF nodes[j].tag = "[" THEN [nodes EXCEPT ![j].elems = Append(@, new)]
                ELSE IF at # {}
                THEN [nodes EXCEPT ![j].elems = [i \in DOMAIN @ |-> IF i \in at THEN new ELSE @[i]]]
                ELSE [nodes EXCEPT ![j].elems = Append(@, new), ![j].keys = Append(@, key)]
    IN  Append(kept, v)

(* Faulty: the stack is left alone when a container is entered.            *)
ElementUnpushed(c, after) ==
    /\ nodes' = Attached(Value(c))
    /\ \/ c \in Scalars /\ Goto(after)
       \/ c \in DOMAIN Opening /\ Goto(Opening[c])
    /\ UNCHANGED key

(* The element of a container, itself a scalar or a container to go into. *)
Element(c, after) ==
    /\ nodes' = Attached(Value(c))
    /\ \/ c \in Scalars /\ Goto(after)
       \/ /\ c \in DOMAIN Opening
          /\ state' = Opening[c]
          /\ sp' = Append(sp, [tops |-> after, j |-> Len(nodes) + 1])
          /\ UNCHANGED result
    /\ UNCHANGED key

(* st_object_or_array_or_value_expected *)
ReadValue(c) ==
    /\ Read("value", c)
    /\ \/ /\ c \in DOMAIN Opening
          /\ nodes' = Append(nodes, Value(c))
          /\ state' = Opening[c]
          /\ sp' = [sp EXCEPT ![Len(sp)].j = Len(nodes) + 1]
          /\ UNCHANGED <<key, result>>
       \/ /\ c \in Scalars
          /\ nodes' = Append(nodes, Value(c))
          /\ state' = Last(sp).tops
          /\ result' = Len(nodes) + 1 /\ sp' = Front(sp)
          /\ UNCHANGED key
       \/ Fail(Scalars \cup DOMAIN Opening, c)

(* st_object_key_or_close_expected *)
ReadKey(c) ==
    /\ Read("object_key_or_close", c)
    /\ \/ c = "}" /\ Return /\ UNCHANGED <<key, nodes>>
       \/ c \in Strings /\ key' = c /\ Goto("object_colon") /\ UNCHANGED nodes
       \/ Fail(Strings \cup {"}"}, c)

(* st_object_colon_expected *)
ReadColon(c) ==
    /\ Read("object_colon", c)
    /\ \/ c = ":" /\ Goto("object_value") /\ UNCHANGED <<key, nodes>>
       \/ Fail({":"}, c)

(* st_object_value_expected *)
ReadMember(c) ==
    /\ Read("object_value", c)
    /\ \/ Element(c, "object_close_or_comma")
       \/ Fail(Scalars \cup DOMAIN Opening, c)

(* st_object_close_or_comma_expected *)
ReadObjectEnd(c) ==
    /\ Read("object_close_or_comma", c)
    /\ \/ c = "," /\ Goto("object_key_or_close") /\ UNCHANGED <<key, nodes>>
       \/ c = "}" /\ Return /\ UNCHANGED <<key, nodes>>
       \/ Fail({",", "}"}, c)

(* st_array_value_or_close_expected *)
ReadElement(c) ==
    /\ Read("array_value_or_close", c)
    /\ \/ c = "]" /\ Return /\ UNCHANGED <<key, nodes>>
       \/ Element(c, "array_close_or_comma")
       \/ Fail(Scalars \cup DOMAIN Opening \cup {"]"}, c)

(* Faulty: a closing brace ends an array, too. *)
ReadArrayEndAny(c) ==
    /\ Read("array_close_or_comma", c)
    /\ \/ c \in {"]", "}"} /\ Return /\ UNCHANGED <<key, nodes>>
       \/ c = "," /\ Goto("array_value_or_close") /\ UNCHANGED <<key, nodes>>
       \/ Fail({"]", "}", ","}, c)

(* st_array_close_or_comma_expected *)
ReadArrayEnd(c) ==
    /\ Read("array_close_or_comma", c)
    /\ \/ c = "]" /\ Return /\ UNCHANGED <<key, nodes>>
       \/ c = "," /\ Goto("array_value_or_close") /\ UNCHANGED <<key, nodes>>
       \/ Fail({"]", ","}, c)

(* Behind the loop: an error, a full stack, or a value and what follows it. *)
GiveUp == /\ outcome = "reading" /\ ~ Looping /\ state # "done"
          /\ outcome' = "einval"
          /\ UNCHANGED <<state, sp, key, result, nodes, seen, out>>

Accept == /\ outcome = "reading" /\ state = "done"
          /\ IF force_eof THEN NextToken("eof") ELSE UNCHANGED seen
          /\ outcome' = "ok" /\ out' = result
          /\ UNCHANGED <<state, sp, key, result, nodes>>

RejectRest(c) == /\ outcome = "reading" /\ state = "done" /\ force_eof
                 /\ c # "eof" /\ NextToken(c)
                 /\ outcome' = "einval"
                 /\ UNCHANGED <<state, sp, key, result, nodes, out>>

Step(c) == \/ ReadValue(c) \/ ReadKey(c) \/ ReadColon(c) \/ ReadMember(c)
           \/ ReadObjectEnd(c) \/ ReadElement(c) \/ ReadArrayEnd(c)

Next == /\ (\E c \in Tokens : Step(c) \/ RejectRest(c)) \/ GiveUp \/ Accept
        /\ UNCHANGED force_eof

Spec == Init /\ [][Next]_vars

-----------------------------------------------------------------------------
(* Type invariant. *)
States == {"value", "object_key_or_close", "object_colon", "object_value",
           "object_close_or_comma", "array_value_or_close", "array_close_or_comma",
           "error", "done"}
NodeIds == 1..Len(nodes)

TypeOK ==
    /\ force_eof \in BOOLEAN /\ state \in States
    /\ sp \in Seq([tops : States, j : NodeIds \cup {NULL}])
    /\ key \in Strings \cup {""}
    /\ {result, out} \subseteq NodeIds \cup {NULL}
    /\ nodes \in Seq([tag : Scalars \cup {"[", "{"}, elems : Seq(NodeIds), keys : Seq(Strings)])
    /\ seen \in Seq(Tokens)
    /\ outcome \in {"reading", "ok", "einval"}

(* Safety: top->_[1] is a value of the kind its state works on, so that    *)
(* cee_json_to_array and cee_json_to_object never meet the wrong kind or   *)
(* NULL.                                                                   *)
TopFitsState ==
    Looping =>
        /\ state \in {"array_value_or_close", "array_close_or_comma"} =>
              Last(sp).j # NULL /\ nodes[Last(sp).j].tag = "["
        /\ state \in {"object_key_or_close", "object_colon", "object_value",
                      "object_close_or_comma"} =>
              Last(sp).j # NULL /\ nodes[Last(sp).j].tag = "{"

(* Safety: a successful call returns the outermost value. *)
OutIsOutermost == outcome = "ok" => out = 1 /\ nodes # <<>>

(* Safety: the values form a tree under the outermost one: no value is the *)
(* element of two containers, and each comes after its container.          *)
Holders(i) == {j \in NodeIds : \E k \in DOMAIN nodes[j].elems : nodes[j].elems[k] = i}
ElementsFormTree ==
    \A i \in NodeIds : Holders(i) \subseteq 1..i - 1 /\ \A j, k \in Holders(i) : j = k

(* Safety: all of this, whatever is read and wherever the text breaks off. *)
ParserSafe == TypeOK /\ TopFitsState /\ OutIsOutermost /\ ElementsFormTree
=============================================================================
