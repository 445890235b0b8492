------------------------------ MODULE JsonSelect ------------------------------
(***************************************************************************)
(* cee_json_select: follows a selector, a text such as .a[0].b:s, through  *)
(* a document, one character for each round of its loop.  A "*" takes an   *)
(* argument; in the name of a field its characters are copied from a       *)
(* buffer that nothing has been written to (value.c:837).                  *)
(*                                                                         *)
(* Characters are strings of one character, names are sequences of them,   *)
(* documents are trees.                                                    *)
(***************************************************************************)
EXTENDS Integers, SequencesExt

CONSTANTS
    MaxToken,    \* JSEL_MAX_TOKEN, 256
    Garbage,     \* what the buffer may hold, for each length
    Roots,       \* the documents
    Paths,       \* sequences of steps to write selectors for, see Written
    Texts        \* selectors that are written for no path

VARIABLES
    root, path,  \* what the call is for; NoPath if the selector is any text
    text,        \* the selector, without its NUL
    args,        \* the arguments not taken yet: numbers, or names
    at,          \* p, from zero
    next,        \* the kind of the token that is being read
    token,
    o,           \* the value selected so far
    found        \* "searching", "found", "notfound" or "overread"

vars == <<root, path, text, args, at, next, token, o, found>>

NUL == "NUL"
C(i) == IF i < Len(text) THEN text[i + 1] ELSE NUL
Ends == {NUL, ".", "[", "]", ":"}
Kind == [c \in {".", "[", ":"} |-> CASE c = "." -> "object" [] c = "[" -> "array" [] c = ":" -> "type"]

(* What each letter after ":" asks for; any other letter asks for nothing. *)
TypeOf == [c \in {"s", "n", "o", "a", "b", "!"} |->
              CASE c = "s" -> "string" [] c = "n" -> "i64" [] c = "o" -> "object"
                [] c = "a" -> "array" [] c = "b" -> "bool" [] c = "!" -> "null"]

(* Faulty: "n" asks for a truth value. *)
TypedSwapped(v, letter) ==
    letter \in DOMAIN TypeOf => v.t = IF letter = "n" THEN "bool" ELSE TypeOf[letter]

Typed(v, letter) == letter \in DOMAIN TypeOf => v.t = TypeOf[letter]

(* atoi: the digits the token begins with. *)
Digit == [c \in {"0", "1", "2"} |-> CASE c = "0" -> 0 [] c = "1" -> 1 [] c = "2" -> 2]
Decimal(n) == <<CHOOSE c \in DOMAIN Digit : Digit[c] = n>>
Atoi(t) == LET n == Max({k \in 0..Len(t) : \A i \in 1..k : t[i] \in DOMAIN Digit})
           IN  FoldLeft(LAMBDA v, c : 10 * v + Digit[c], 0, SubSeq(t, 1, n))

(* Faulty: elements are counted from one. *)
ElementFromOne(v, i) == IF v.t = "array" /\ i \in DOMAIN v.elems THEN {v.elems[i]} ELSE {}

(* The step to a part of a value: the part if it has it. *)
Element(v, i) == IF v.t = "array" /\ i + 1 \in DOMAIN v.elems THEN {v.elems[i + 1]} ELSE {}
Field(v, name) == IF v.t = "object" /\ name \in DOMAIN v.fields THEN {v.fields[name]} ELSE {}

-----------------------------------------------------------------------------
Searching == found = "searching"
Call == UNCHANGED <<root, path, text>>
Stop(f) == found' = f /\ Call /\ UNCHANGED <<args, at, next, token, o>>

(* The selector is at the start of a token, or at its end. *)
NextToken(v) ==
    LET q == IF C(at) = "]" THEN at + 1 ELSE at
    IN  IF C(q) \in DOMAIN Kind
        THEN /\ next' = Kind[C(q)] /\ token' = <<>> /\ at' = q + 1 /\ o' = v
             /\ Call /\ UNCHANGED <<args, found>>
        ELSE /\ found' = IF C(q) = NUL THEN "found" ELSE "notfound"
             /\ o' = v /\ Call /\ UNCHANGED <<args, at, next, token>>

FirstToken == Searching /\ token = <<>> /\ next = "none" /\ NextToken(o)

(* Faulty: the type is looked at and not kept to. *)
SelectedUntyped == CASE next = "array" -> Element(o, Atoi(token))
                     [] next = "object" -> Field(o, token)
                     [] next = "type" -> {o}

(* What a complete token selects in o. *)
Selected == CASE next = "array" -> Element(o, Atoi(token))
              [] next = "object" -> Field(o, token)
              [] next = "type" -> IF Typed(o, token[1]) THEN {o} ELSE {}

UseToken == /\ Searching /\ token # <<>> /\ C(at) \in Ends /\ at <= Len(text)
            /\ IF Selected = {} THEN Stop("notfound") ELSE \E v \in Selected : NextToken(v)

(* Every other character belongs to the token, and so does one that ends   *)
(* tokens at the begin of one, even the NUL.                               *)
InToken == Searching /\ next # "none" /\ at <= Len(text) /\ (token = <<>> \/ C(at) \notin Ends)

Grow(t) == /\ token' = token \o t /\ at' = at + 1
           /\ Call /\ UNCHANGED <<next, o>>

(* Faulty: the length is tested with the next character. *)
AddCharLate == /\ InToken /\ C(at) # "*"
               /\ IF Len(token) > MaxToken THEN Stop("notfound")
                  ELSE Grow(<<C(at)>>) /\ UNCHANGED <<args, found>>

AddChar == /\ InToken /\ C(at) # "*"
           /\ IF Len(token) + 1 > MaxToken THEN Stop("notfound")
              ELSE Grow(<<C(at)>>) /\ UNCHANGED <<args, found>>

AddArgument ==
    /\ InToken /\ C(at) = "*"
    /\ IF next = "type" THEN Stop("notfound")
       ELSE \E t \in IF next = "array" THEN {Decimal(Head(args))}
                     ELSE {g \in Garbage : Len(g) = Len(Head(args))} :
               IF Len(token) + Len(t) > MaxToken THEN Stop("notfound")
               ELSE Grow(t) /\ args' = Tail(args) /\ UNCHANGED found

(* A token that took the NUL goes on behind it. *)
Overread == Searching /\ at > Len(text) /\ Stop("overread")

-----------------------------------------------------------------------------
(* Selectors for paths: steps to a field, to an element whose number is    *)
(* written down or an argument, and to a value of a type.                  *)
NoPath == <<[by |-> "none"]>>
Written(s) == CASE s.by = "field" -> <<".">> \o s.name
                [] s.by = "index" -> <<"[">> \o Decimal(s.i) \o <<"]">>
                [] s.by = "star" -> <<"[", "*", "]">>
                [] s.by = "named" -> <<".", "*">>
                [] s.by = "type" -> <<":", s.letter>>
Arguments(p) == LET stars == SelectSeq(p, LAMBDA s : s.by \in {"star", "named"})
                IN  [k \in DOMAIN stars |-> IF stars[k].by = "star" THEN stars[k].i ELSE stars[k].name]

Selects(doc) == /\ root = doc /\ o = doc
                /\ at = 0 /\ next = "none" /\ token = <<>> /\ found = "searching"
SelectsBy(doc, p) == /\ Selects(doc) /\ path = p /\ args = Arguments(p)
                     /\ text = FlattenSeq([k \in DOMAIN p |-> Written(p[k])])

Init == \E doc \in Roots :
           \/ \E p \in Paths : SelectsBy(doc, p)
           \/ Selects(doc) /\ path = NoPath /\ args = <<>> /\ text \in Texts

Next == FirstToken \/ UseToken \/ AddChar \/ AddArgument \/ Overread

Spec == Init /\ [][Next]_vars

-----------------------------------------------------------------------------
(* What the comment above the function says (value.c:744-755), in its own  *)
(* terms: the value a path leads to, if there is one.                      *)
Numbers == {"i64", "u64", "double"}
Texted == {"string", "strn"}
Means == ("s" :> Texted) @@ ("n" :> Numbers) @@ ("a" :> {"array"}) @@ ("o" :> {"object"})
         @@ ("b" :> {"bool"}) @@ ("!" :> {"null"})
Named(v, name) == {v.fields[k] : k \in DOMAIN v.fields \cap {name}}
Nth(v, i) == {Last(before) : before \in {b \in Prefixes(v.elems) : Len(b) = i + 1}}
Reached(v, s) ==
    CASE s.by \in {"field", "named"} -> Named(v, s.name)
      [] s.by \in {"index", "star"} -> Nth(v, s.i)
      [] s.by = "type" -> {w \in {v} : w.t \in Means[s.letter]}
Follow(p) == FoldLeft(LAMBDA vs, s : UNION {Reached(v, s) : v \in vs}, {root}, p)

(* The letters leave out some types that the comment takes for numbers or  *)
(* strings; selectors that ask a value of those for its type are left out. *)
LeftOut == {"u64", "double", "strn"}
Asks(p) == \E k \in DOMAIN p : p[k].by = "type"
                               /\ \E v \in Follow(SubSeq(p, 1, k - 1)) : v.t \in LeftOut

(* Safety: a selector that is written as the comment above the function    *)
(* says (value.c:730-761) finds what its path leads to, or NULL when it    *)
(* leads nowhere, and is read up to its NUL and no further, but for those  *)
(* that take the name of a field from an argument.  Whatever the selector, *)
(* the token stays in its buffer, with room for a NUL (value.c:814).       *)
Checked == /\ path # NoPath /\ ~ Asks(path)
           /\ \A k \in DOMAIN path : path[k].by # "named"
SelectsPath ==
    /\ Len(token) <= MaxToken
    /\ (~ Searching /\ Checked) =>
          IF Follow(path) = {} THEN found = "notfound" ELSE found = "found" /\ {o} = Follow(path)
=============================================================================
