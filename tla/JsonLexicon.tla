----------------------------- MODULE JsonLexicon -----------------------------
(***************************************************************************)
(* The tokens of JSON, stated over whole texts, for JsonTokenizer to be    *)
(* measured against.  Texts are sequences of bytes without escapes.  The   *)
(* numbers are those of RFC 8259 and, as tokenizer.c:425 has it, those     *)
(* with a point or an exponent whose first digits begin with a zero.       *)
(***************************************************************************)
EXTENDS Integers, SequencesExt

Digits == 48..57
Part(s, i, j) == SubSeq(s, i, j)
AllDigits(s) == s # <<>> /\ Range(s) \subseteq Digits
Signed(s, signs) == IF s # <<>> /\ Head(s) \in signs THEN Tail(s) ELSE s

IntegerText(s) == AllDigits(Signed(s, {45}))
IntegerMeant(s) ==
    LET digits == Signed(s, {45})
        size == MapThenSumSet(LAMBDA i : (digits[i] - 48) * 10 ^ (Len(digits) - i), DOMAIN digits)
    IN  IF digits = s THEN size ELSE - size
FractionText(s) == s # <<>> /\ Head(s) = 46 /\ AllDigits(Tail(s))
ExponentText(s) == s # <<>> /\ Head(s) \in {101, 69} /\ AllDigits(Signed(Tail(s), {43, 45}))

NumberText(s) ==
    \/ IntegerText(s) /\ (Len(Signed(s, {45})) > 1 => Signed(s, {45})[1] # 48)
    \/ \E i \in 1..Len(s) - 1 :
          /\ IntegerText(Part(s, 1, i))
          /\ \/ FractionText(Part(s, i + 1, Len(s))) \/ ExponentText(Part(s, i + 1, Len(s)))
             \/ \E j \in i + 1..Len(s) - 1 :
                   FractionText(Part(s, i + 1, j)) /\ ExponentText(Part(s, j + 1, Len(s)))

StringText(s) == /\ Len(s) >= 2 /\ s[1] = 34 /\ s[Len(s)] = 34
                 /\ \A i \in 2..Len(s) - 1 : s[i] > 31 /\ s[i] \notin {34, 92}

Words == [k \in {"true", "false", "null"} |->
             CASE k = "true" -> <<116, 114, 117, 101>> [] k = "false" -> <<102, 97, 108, 115, 101>>
               [] k = "null" -> <<110, 117, 108, 108>>]

IsToken(s, k) ==
    CASE k = "punct" -> Len(s) = 1 /\ s[1] \in {91, 93, 123, 125, 44, 58}
      [] k = "str" -> StringText(s)
      [] k = "i64" -> IntegerText(s) /\ NumberText(s)
      [] k = "double" -> ~ IntegerText(s) /\ NumberText(s)
      [] OTHER -> s = Words[k]
Kinds == {"punct", "str", "i64", "double"} \cup DOMAIN Words

(* The kinds of the tokens of a text from position i on, if it has any: a  *)
(* number ends where it cannot go on.                                      *)
TokensOf(t) ==
    LET Ends(j, k) == k \in {"i64", "double"} /\ j < Len(t)
                          => t[j + 1] \notin Digits \cup {46, 101, 69}
        from[i \in 1..Len(t) + 1] ==
            IF i > Len(t) THEN {<<>>}
            ELSE IF t[i] \in {32, 9, 10, 13} THEN from[i + 1]
            ELSE UNION {{<<k>> \o rest : rest \in from[j + 1]} :
                           <<j, k>> \in {p \in (i..Len(t)) \X Kinds :
                                            IsToken(Part(t, i, p[1]), p[2]) /\ Ends(p[1], p[2])}}
    IN  from[1]
=============================================================================
