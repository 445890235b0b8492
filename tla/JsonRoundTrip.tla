---------------------------- MODULE JsonRoundTrip ----------------------------
(***************************************************************************)
(* cee_json_parsex and then cee_json_asprint of the value it returns, as   *)
(* test-print.c does for every text of the test suite: the parser measured *)
(* against JsonGrammar, and the printer against what was parsed.           *)
(***************************************************************************)
EXTENDS JsonParser, TLC

CONSTANTS StackSize, TabsMod, Formats   \* see JsonPrinter

ASSUME PrinterAssumption ==
    /\ StackSize \in Nat \ {0} /\ TabsMod \in {2 * n : n \in 1..128}
    /\ Formats \subseteq {"compact", "pretty"}

VARIABLES fmt, pass, stack, pen, size

Printer == INSTANCE JsonPrinter WITH root <- out

everything == <<vars, fmt, pass, stack, pen, size>>

RoundTripInit == Init /\ Printer!Init

RoundTripNext ==
    \/ Next /\ UNCHANGED <<fmt, pass, stack, pen, size>>
    \/ outcome = "ok" /\ Printer!Next /\ UNCHANGED <<force_eof, state, sp, key, result, seen, outcome>>

-----------------------------------------------------------------------------
Grammar == INSTANCE JsonGrammar

(* What the parser is to accept: a trailing comma is allowed, as much      *)
(* nesting as the stack holds.                                             *)
Lenient == {t \in Grammar!Texts(TRUE) : Grammar!Depth(t) < MaxDepth}
LenientPrefixes == UNION {Prefixes(t \o <<"eof">>) : t \in Lenient}
Strict == Grammar!Texts(FALSE)

Text == SelectSeq(seen, LAMBDA c : c # "eof")

(* Safety: the parser accepts the texts of the grammar with trailing       *)
(* commas and bounded nesting and no other: it gives up only where no such *)
(* text goes on.                                                           *)
AcceptsTheLenientGrammar ==
    /\ outcome = "ok" => Text \in Lenient
    /\ outcome = "einval" => seen \notin LenientPrefixes

(* Safety: the parser accepts the texts of the grammar only                *)
(* (test-parser.c:97, the n_ files are to be rejected).                    *)
AcceptsTheGrammar == outcome = "ok" => Text \in Strict

-----------------------------------------------------------------------------
(* The text without the commas behind a last element. *)
Tidy == LET kept == {i \in DOMAIN Text :
                        ~ (Text[i] = "," /\ i < Len(Text) /\ Text[i + 1] \in {"]", "}"})}
        IN  [i \in 1..Cardinality(kept) |->
                Text[CHOOSE k \in kept : Cardinality({x \in kept : x <= k}) = i]]

(* The text in which no key occurs twice in one object: of two members     *)
(* with one key, the first has the value of the second, which goes.        *)
Level(t, i) == Cardinality({k \in 1..i - 1 : t[k] \in {"[", "{"}})
               - Cardinality({k \in 1..i - 1 : t[k] \in {"]", "}"}})
Keys(t) == {i \in 1..Len(t) - 1 : t[i] \in Strings /\ t[i + 1] = ":"}
Owner(t, i) == Max({j \in 1..i - 1 : t[j] \in {"[", "{"} /\ Level(t, j) + 1 = Level(t, i)})
ValueOf(t, i) ==
    LET behind == {k \in i + 3..Len(t) : t[k] \in {",", "}"} /\ Level(t, k) = Level(t, i)}
    IN  SubSeq(t, i + 2, Min(behind) - 1)
Twice(t) == {m \in Keys(t) \X Keys(t) :
                m[1] < m[2] /\ t[m[1]] = t[m[2]] /\ Owner(t, m[1]) = Owner(t, m[2])}
RECURSIVE Singly(_)
Singly(t) ==
    IF Twice(t) = {} THEN t
    ELSE LET second == Min({m[2] : m \in Twice(t)})
             first == CHOOSE i \in Keys(t) : <<i, second>> \in Twice(t)
             After(i) == i + 2 + Len(ValueOf(t, i))
         IN  Singly(SubSeq(t, 1, first + 1) \o ValueOf(t, second)
                    \o SubSeq(t, After(first), second - 2) \o SubSeq(t, After(second), Len(t)))

(* Safety: what was parsed is printed as the text it was parsed from       *)
(* (test-print.c:114 compares the two), without trailing commas, and with  *)
(* one member for each key of an object, which has the place of the first  *)
(* and the value of the last; and the bytes counted are the bytes written. *)
PrintsWhatItParsed ==
    /\ Printer!BufferExact
    /\ pass = "done" => Printer!Printed = Singly(Tidy)
=============================================================================
