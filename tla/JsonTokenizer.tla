---------------------------- MODULE JsonTokenizer ----------------------------
(***************************************************************************)
(* cee_json_next_token: one call after the other cuts the next token from  *)
(* a buffer of bytes, until it is at its end or gives up.  Strings are     *)
(* unescaped, their \u escapes encoded as UTF-8, numbers converted.        *)
(*                                                                         *)
(* Positions count from zero, as in the code.  The calls test buf_end      *)
(* between tokens only and rely on a NUL behind it within one; what really *)
(* lies there is Behind.                                                   *)
(***************************************************************************)
EXTENDS Integers, SequencesExt

CONSTANTS
    Behind,    \* what may lie behind a text, up to its first NUL
    I64Max     \* INT64_MAX, at which strtoll stops

VARIABLES
    mem,       \* the bytes from the begin of the buffer on
    buf_end,   \* where the buffer ends
    buf,       \* how far it was read
    line,      \* the line ends seen
    read,      \* the tokens returned
    scratch    \* what unescaping allocated last, and how much of it it wrote

tokenizer == <<mem, buf_end, buf, line, read, scratch>>

C(i) == mem[i + 1]

Digits == 48..57
White == {32, 9, 10, 13}
Quote == 34
Backslash == 92
Structural == {91, 123, 58, 44, 125, 93}

(* The first position from i on whose byte is not in S; there is none      *)
(* without a NUL, which is in no S.                                        *)
Past(i, S) == CHOOSE j \in i..Len(mem) - 1 : C(j) \notin S /\ \A k \in i..j - 1 : C(k) \in S

Spelt(i, word) == i + Len(word) <= Len(mem) /\ SubSeq(mem, i + 1, i + Len(word)) = word

(* What a call returns, and where it leaves buf.                           *)
Token(kind, val, next) == [kind |-> kind, val |-> val, next |-> next]
Error(next) == Token("err", <<>>, next)

-----------------------------------------------------------------------------
(* UTF-8.                                                                  *)
Surrogate(c) == c \in 55296..57343
First(x) == x \in 55296..56319
Second(x) == x \in 56320..57343
CodePoint(c) == c <= 1114111 /\ ~ Surrogate(c)

TrailLength(lead) == CASE lead < 128 -> 0
                       [] lead \in 194..223 -> 1
                       [] lead \in 224..239 -> 2
                       [] lead \in 240..244 -> 3
                       [] OTHER -> -1
Width(c) == IF c <= 127 THEN 1 ELSE IF c <= 2047 THEN 2 ELSE IF c <= 65535 THEN 3 ELSE 4

(* The code point of a lead byte and the bytes that trail it.              *)
Composed(s) ==
    LET Add(c, t) == c * 64 + (t % 64)
    IN  FoldLeft(Add, s[1] % (2 ^ (6 - TrailLength(s[1]))), Tail(s))

(* Faulty: a code point may be written in more bytes than it needs.        *)
ValidOverlong(s) ==
    LET valid[i \in 1..Len(s) + 1] ==
            \/ i = Len(s) + 1
            \/ LET n == TrailLength(s[i])
               IN  /\ n >= 0 /\ i + n <= Len(s)
                   /\ \A k \in i + 1..i + n : s[k] \in 128..191
                   /\ valid[i + n + 1]
    IN  valid[1]

(* utf8_validate *)
Valid(s) ==
    LET valid[i \in 1..Len(s) + 1] ==
            \/ i = Len(s) + 1
            \/ LET n == TrailLength(s[i])
                   c == Composed(SubSeq(s, i, i + n))
               IN  /\ n >= 0 /\ i + n <= Len(s)
                   /\ \A k \in i + 1..i + n : s[k] \in 128..191
                   /\ n > 0 => CodePoint(c) /\ Width(c) = n + 1
                   /\ valid[i + n + 1]
    IN  valid[1]

(* utf8_encode *)
Encoded(c) ==
    CASE Width(c) = 1 -> <<c>>
      [] Width(c) = 2 -> <<192 + (c \div 64), 128 + (c % 64)>>
      [] Width(c) = 3 -> <<224 + (c \div 4096), 128 + ((c \div 64) % 64), 128 + (c % 64)>>
      [] Width(c) = 4 -> <<240 + (c \div 262144), 128 + ((c \div 4096) % 64),
                           128 + ((c \div 64) % 64), 128 + (c % 64)>>

Combined(w1, w2) == ((w1 % 1024) * 1024) + (w2 % 1024) + 65536

-----------------------------------------------------------------------------
(* Strings.                                                                *)
Hex == [b \in Digits \cup 65..70 \cup 97..102 |->
           IF b \in Digits THEN b - 48 ELSE IF b <= 70 THEN b - 55 ELSE b - 87]

HasDigits(i, end) == i + 4 <= end /\ \A k \in i..i + 3 : C(k) \in DOMAIN Hex
Digits4(i) == ((Hex[C(i)] * 16 + Hex[C(i + 1)]) * 16 + Hex[C(i + 2)]) * 16 + Hex[C(i + 3)]

Simple == [e \in {34, 92, 47, 98, 102, 110, 114, 116} |->
              CASE e = 98 -> 8 [] e = 102 -> 12 [] e = 110 -> 10 [] e = 114 -> 13
                [] e = 116 -> 9 [] OTHER -> e]

(* The rest of the bytes of a string: written before it ended or failed.   *)
Wrote(bytes, rest) == [rest EXCEPT !.out = bytes \o @]
Failed == [ok |-> FALSE, out |-> <<>>]

(* A first surrogate that waits for a second one, or 0.                    *)
Pending == {0} \cup 55296..56319

(* The second pass of json_string_unescape.  After a first surrogate, the  *)
(* escape of a second one has to come, or the end of the string.           *)
Unescaped(start, end) ==
    LET from[i \in start..end] == [high \in Pending |->
            IF i = end THEN [ok |-> TRUE, out |-> <<>>]
            ELSE IF C(i) <= 31 \/ (high # 0 /\ C(i) # Backslash) THEN Failed
            ELSE IF C(i) # Backslash THEN Wrote(<<C(i)>>, from[i + 1][0])
            ELSE IF i + 1 = end \/ (high # 0 /\ C(i + 1) # 117) THEN Failed
            ELSE IF C(i + 1) \in DOMAIN Simple THEN Wrote(<<Simple[C(i + 1)]>>, from[i + 2][0])
            ELSE IF C(i + 1) # 117 \/ ~ HasDigits(i + 2, end) THEN Failed
            ELSE LET x == Digits4(i + 2)
                 IN  IF high # 0
                     THEN IF Second(x) THEN Wrote(Encoded(Combined(high, x)), from[i + 6][0])
                          ELSE Failed
                     ELSE IF First(x) THEN from[i + 6][x]
                     ELSE Wrote(Encoded(x), from[i + 6][0])]
    IN  from[start][0]

(* The closing quote, or the NUL: a backslash protects what follows it.    *)
StringEnd(start) ==
    LET end[i \in start..Len(mem) - 1] ==
            IF C(i) \in {0, Quote} THEN i
            ELSE IF C(i) = Backslash /\ C(i + 1) # 0 THEN end[i + 2] ELSE end[i + 1]
    IN  end[start]

Escapes(start, end) == \E i \in start..end - 1 : C(i) = Backslash
Controls(start, end) == \E i \in start..end - 1 : C(i) <= 31

(* The first pass stops at a backslash; without one the bytes are taken as *)
(* they are.                                                               *)
FirstBackslash(start, end) == Min({i \in start..end - 1 : C(i) = Backslash})

(* "%s" and "%.*s" stop at a NUL. *)
UpToNul(s) == SubSeq(s, 1, Min({Len(s) + 1} \cup {i \in DOMAIN s : s[i] = 0}) - 1)

(* Faulty: half of the bytes of a text with escapes are enough. *)
ScratchSizeHalf(start, end) == (end - start) \div 2

ScratchSize(start, end) == end - start

(* parse_string, from the opening quote on. *)
String(at) ==
    LET start == at + 1
        end == StringEnd(start)
        u == Unescaped(start, end)
    IN  IF C(end) # Quote THEN [token |-> Error(at), scratch |-> <<>>]
        ELSE IF ~ Escapes(start, end)
        THEN [token |-> IF Controls(start, end) THEN Error(at)
                        ELSE Token("str", SubSeq(mem, start + 1, end), end + 1),
              scratch |-> <<>>]
        ELSE IF Controls(start, FirstBackslash(start, end))
        THEN [token |-> Error(at), scratch |-> <<>>]
        ELSE [token |-> IF u.ok /\ Valid(u.out) THEN Token("str", UpToNul(u.out), end + 1)
                        ELSE Error(at),
              scratch |-> <<[size |-> ScratchSize(start, end), used |-> Len(u.out)]>>]

-----------------------------------------------------------------------------
(* Numbers.                                                                *)
Magnitude(first, end) ==
    LET Shift(v, i) == IF v > I64Max THEN v ELSE v * 10 + C(i) - 48
    IN  FoldLeft(Shift, 0, [k \in 1..end - first |-> first + k - 1])

(* Faulty: the conversion is that of the digits, the sign comes last.      *)
Integer64SignLast(first, end, negative) ==
    LET limited == IF Magnitude(first, end) > I64Max THEN I64Max ELSE Magnitude(first, end)
    IN  IF negative THEN - limited ELSE limited

(* strtoll, which stops at INT64_MIN and INT64_MAX. *)
Integer64(first, end, negative) ==
    LET limit == IF negative THEN I64Max + 1 ELSE I64Max
        limited == IF Magnitude(first, end) > limit THEN limit ELSE Magnitude(first, end)
    IN  IF negative THEN - limited ELSE limited

(* Faulty: a leading zero is refused before a point and an exponent only.  *)
LeadingZeroAnywhere(first, end, is_double) == is_double /\ end - 1 # first /\ C(first) = 48

(* An integer may not begin with a zero, a double may.                     *)
LeadingZero(first, end, is_double) == ~ is_double /\ end - 1 # first /\ C(first) = 48

(* parse_number *)
Number(at) ==
    LET first == IF C(at) = 45 THEN at + 1 ELSE at
        int_end == Past(first, Digits)
        has_point == C(int_end) = 46
        frac_end == IF has_point THEN Past(int_end + 1, Digits) ELSE int_end
        has_exp == C(frac_end) \in {101, 69}
        exp == IF has_exp /\ C(frac_end + 1) \in {43, 45} THEN frac_end + 2 ELSE frac_end + 1
        end == IF has_exp THEN Past(exp, Digits) ELSE frac_end
    IN  IF \/ int_end = first
           \/ has_point /\ frac_end = int_end + 1
           \/ has_exp /\ end = exp
           \/ LeadingZero(first, end, has_point \/ has_exp)
        THEN Error(at)
        ELSE IF has_point \/ has_exp THEN Token("double", SubSeq(mem, at + 1, end), end)
        ELSE Token("i64", <<Integer64(first, end, first # at)>>, end)

(* Faulty: the first letter is taken for the word. *)
WordUnchecked(at, rest, kind) == Token(kind, <<>>, at + 1 + Len(rest))

(* true, null and false: the check of the rest of the word. *)
Word(at, rest, kind) ==
    IF Spelt(at + 1, rest) THEN Token(kind, <<>>, at + 1 + Len(rest)) ELSE Error(at + 1)

(* A comment ends the text with an error, unless it runs into a NUL.       *)
Comment(at) ==
    IF C(at + 1) # 47 THEN Error(at + 1)
    ELSE LET stop == Min({buf_end} \cup {i \in at + 2..buf_end - 1 : C(i) \in {0, 10}})
         IN  IF stop < buf_end /\ C(stop) = 0 THEN Token("eof", <<>>, stop) ELSE Error(stop)

-----------------------------------------------------------------------------
(* The byte that decides, at which white space ends. *)
Begin == Min({buf_end} \cup {i \in buf..buf_end - 1 : C(i) \notin White})

Punctuation(at) == Token("punct", <<C(at)>>, at + 1)

TokenAt(at) ==
    CASE at >= buf_end -> Token("eof", <<>>, at)
      [] C(at) \in Structural -> Punctuation(at)
      [] C(at) = Quote -> String(at).token
      [] C(at) = 116 -> Word(at, <<114, 117, 101>>, "true")
      [] C(at) = 110 -> Word(at, <<117, 108, 108>>, "null")
      [] C(at) = 102 -> Word(at, <<97, 108, 115, 101>>, "false")
      [] C(at) \in Digits \cup {45} -> Number(at)
      [] C(at) = 47 -> Comment(at)
      [] OTHER -> Error(at)

Reading == \A i \in DOMAIN read : read[i].kind \notin {"eof", "err"}

(* cee_json_next_token; the parser asks for no token after the last. *)
CutToken ==
    LET at == Begin
        t == IF at < buf_end THEN TokenAt(at) ELSE Token("eof", <<>>, at)
    IN  /\ Reading
        /\ line' = line + Cardinality({i \in buf..at - 1 : C(i) \in {10, 13}})
        /\ buf' = t.next
        /\ read' = Append(read, [kind |-> t.kind, val |-> t.val])
        /\ scratch' = IF at < buf_end /\ C(at) = Quote THEN String(at).scratch ELSE <<>>
        /\ UNCHANGED <<mem, buf_end>>

(* The calls begin with a text in the buffer. *)
Reads(text) == /\ \E rest \in Behind : mem = text \o rest
               /\ buf_end = Len(text) /\ buf = 0 /\ line = 0
               /\ read = <<>> /\ scratch = <<>>

TokSpec == (\E text \in Seq(0..255) : Reads(text)) /\ [][CutToken]_tokenizer

-----------------------------------------------------------------------------
(* Type invariant. *)
TokTypeOK == /\ mem \in Seq(0..255) /\ Last(mem) = 0
             /\ buf \in 0..Len(mem) - 1 /\ buf_end \in 0..Len(mem) - 1 /\ line \in 0..buf_end
             /\ Len(scratch) <= 1

Ended == ~ Reading
Accepted == Ended /\ Last(read).kind = "eof"

(* Safety: no token reaches behind the buffer (tokenizer.c:449, :364), and *)
(* unescaping stays in what it allocated, with a byte to spare for the NUL *)
(* at which "%s" stops (tokenizer.c:338, :381).                            *)
StaysInBuffer == /\ TokTypeOK /\ buf <= buf_end
                 /\ \A i \in DOMAIN scratch : scratch[i].used < scratch[i].size
=============================================================================
