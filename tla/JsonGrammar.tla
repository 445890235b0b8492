----------------------------- MODULE JsonGrammar -----------------------------
(***************************************************************************)
(* The JSON texts of bounded length, by the grammar of RFC 8259 and        *)
(* without an automaton: what JsonParser is measured against.              *)
(***************************************************************************)
EXTENDS Integers, FiniteSetsExt, SequencesExt

CONSTANTS Strings, MaxTokens

(* From the texts shorter than n, those of length n: values, lists of      *)
(* values, members of an object and lists of members.  shorter[k + 1] has  *)
(* the texts of length k; trailing allows a comma behind a list.           *)
Longer(shorter, n, trailing) ==
    LET Of(f, k) == IF k < 0 THEN {} ELSE shorter[k + 1][f]
        Exactly(k, texts) == IF n = k THEN texts ELSE {}
        Within(l, f, r) ==
            Exactly(2, {<<l, r>>})
            \cup {<<l>> \o x \o <<r>> : x \in Of(f, n - 2)}
            \cup (IF trailing THEN {<<l>> \o x \o <<",", r>> : x \in Of(f, n - 3)} ELSE {})
        List(f, item) ==
            UNION {{x \o <<",">> \o y : x \in Of(f, k), y \in Of(item, n - 1 - k)} : k \in 0..n - 1}
        values == Exactly(1, {<<s>> : s \in Strings \cup {"lit"}})
                  \cup Within("[", "list", "]") \cup Within("{", "members", "}")
        members == {<<s, ":">> \o x : s \in Strings, x \in Of("value", n - 2)}
    IN  [value |-> values, list |-> values \cup List("list", "value"),
         member |-> members, members |-> members \cup List("members", "member")]

Texts(trailing) ==
    LET Add(s, n) == Append(s, Longer(s, n, trailing))
        none == [value |-> {}, list |-> {}, member |-> {}, members |-> {}]
    IN  UNION {x.value : x \in ToSet(FoldLeft(Add, <<none>>, [n \in 1..MaxTokens |-> n]))}

(* How deep a text nests its containers. *)
Depth(t) ==
    LET Count(n, c) == IF c \in {"[", "{"} THEN n + 1 ELSE IF c \in {"]", "}"} THEN n - 1 ELSE n
    IN  Max({FoldLeft(Count, 0, begin) : begin \in Prefixes(t)})
=============================================================================
