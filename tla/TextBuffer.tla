------------------------------ MODULE TextBuffer ------------------------------
(***************************************************************************)
(* What cee_str promises its users: one text that is replaced, grows at    *)
(* its end, and loses the white space at its ends.  There are no blocks    *)
(* here and no capacities.  A text made of a number of bytes goes on with  *)
(* what the memory holds.                                                  *)
(***************************************************************************)
EXTENDS Naturals, SequencesExt

CONSTANTS Chars, Spaces,
          Inputs,   \* the texts it may be replaced by or grow by
          Garbage,  \* what memory may hold
          Reread    \* what the arguments of a format may be mistaken for

VARIABLE text

White(t) == Range(t) \subseteq Spaces

Init == text = <<>>

Replace == \E t \in Inputs : text' = t
Begin == text = <<>> /\ \E t \in Inputs : text' \in {t \o g : g \in Garbage} \cup Reread
Grow == \E t \in Inputs \cup {<<c>> : c \in Chars} : text' = text \o t

(* White space goes, all but the character that was first, or stands last  *)
(* before the rest.                                                        *)
TrimEnd == /\ IsPrefix(text', text)
           /\ White(SubSeq(text, Len(text') + 1, Len(text)))
           /\ Len(text') > 1 => Last(text') \notin Spaces
TrimStart == /\ IsSuffix(text', text)
             /\ White(SubSeq(text, 1, Len(text) - Len(text')))
             /\ Len(text') > 1 => ~ White(SubSeq(text', 1, 2))

Next == Replace \/ Begin \/ Grow \/ text' = <<>> \/ TrimEnd \/ TrimStart

Spec == Init /\ [][Next]_text
=============================================================================
