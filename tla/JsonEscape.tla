------------------------------ MODULE JsonEscape ------------------------------
(***************************************************************************)
(* The two functions that write a text as a JSON string: str_append of the *)
(* printer, and cee_json_escape_string.  Texts are sequences of bytes.     *)
(***************************************************************************)
EXTENDS Integers, SequencesExt

Letter == [c \in {34, 92, 8, 12, 10, 13, 9} |->
              CASE c = 8 -> 98 [] c = 12 -> 102 [] c = 10 -> 110 [] c = 13 -> 114
                [] c = 9 -> 116 [] OTHER -> c]
HexDigit(x) == IF x < 10 THEN 48 + x ELSE 87 + x
Unicode(c) == <<92, 117, 48, 48, HexDigit(c \div 16), HexDigit(c % 16)>>

(* Faulty: the backslash itself is not escaped. *)
EscapedOfBut(c) ==
    CASE c = 92 -> <<c>>
      [] c \in DOMAIN Letter \ {92} -> <<92, Letter[c]>>
      [] c \notin DOMAIN Letter /\ c <= 31 -> Unicode(c)
      [] OTHER -> <<c>>

EscapeOf(c) ==
    CASE c \in DOMAIN Letter -> <<92, Letter[c]>>
      [] c \notin DOMAIN Letter /\ c <= 31 -> Unicode(c)
      [] OTHER -> <<c>>

(* str_append, with its quotes. *)
Quoted(t) == <<34>> \o FlattenSeq([i \in DOMAIN t |-> EscapeOf(t[i])]) \o <<34>>

(* cee_json_escape_string: of a control character without a letter it      *)
(* writes six characters and goes on behind the fourth, so that the next   *)
(* one is written over the digits.                                         *)
Overwritten(dest, j, bytes) == SubSeq(dest, 1, j) \o bytes
EscapeString(t) ==
    LET Put(d, c) ==
            [dest |-> Overwritten(d.dest, d.j, EscapeOf(c)),
             j |-> d.j + IF Len(EscapeOf(c)) = 6 THEN 4 ELSE Len(EscapeOf(c))]
        d == FoldLeft(Put, [dest |-> <<>>, j |-> 0], t)
    IN  SubSeq(d.dest, 1, d.j)
=============================================================================
