------------------------------ MODULE TextProofs ------------------------------
(***************************************************************************)
(* Proofs about what reads and writes text: JsonTokenizer, JsonParser and  *)
(* CeeStr.                                                                 *)
(*                                                                         *)
(* JsonTokenizer, for a text of any bytes and any length: as long as a NUL *)
(* lies right behind the buffer, no token reaches behind it, and           *)
(* unescaping a string writes less than it has allocated.  The lemmas are  *)
(* about a buffer as it is in one state; the calls do not change it.       *)
(*                                                                         *)
(* JsonParser, for any set of strings, any capacity of the stack and texts *)
(* of any length: whatever is read, the value on top of the stack is of    *)
(* the kind the state works on, the values form a tree, and a call that    *)
(* succeeds returns the outermost value.                                   *)
(*                                                                         *)
(* CeeStr, for any characters, sizes and texts: as long as the program     *)
(* sees to MemoryEnds, no call on a string writes behind its block and the *)
(* string is one text, whatever blocks it lies in.                         *)
(***************************************************************************)
EXTENDS JsonParser, JsonTokenizer, CeeStr, TLAPS, WellFoundedInduction, FiniteSetTheorems, SequenceTheorems

-----------------------------------------------------------------------------
(* JsonTokenizer. *)
Bytes == 0..255

(* What has to lie behind the buffer: a NUL. *)
Nul == << 0 >>
Terminated == Behind = {Nul}

(* The buffer and its NUL. *)
Buffered == /\ mem \in Seq(Bytes) /\ buf_end \in Nat
            /\ Len(mem) = buf_end + 1 /\ mem[buf_end + 1] = 0

-----------------------------------------------------------------------------
(* What there is of natural numbers has a least. *)
LEMMA LeastIs ==
    ASSUME NEW T \in SUBSET Nat, T # {}
    PROVE  \E m \in T : \A n \in T : m <= n
<1>1. PICK m \in T : \A n \in T : ~ (<<n, m>> \in OpToRel(<, Nat))
  BY NatLessThanWellFounded, WFMin
<1>2. ASSUME NEW n \in T PROVE m <= n
  <2>1. ~ (n < m)
    BY <1>1 DEF OpToRel
  <2> QED
    BY <2>1
<1> QED
  BY <1>1, <1>2

LEMMA MinIs ==
    ASSUME NEW T \in SUBSET Nat, T # {}
    PROVE  Min(T) \in T /\ \A n \in T : Min(T) <= n
BY LeastIs DEF Min

LEMMA BytesAre ==
    ASSUME Buffered, NEW i \in 0..buf_end
    PROVE  C(i) \in Bytes /\ (i = buf_end => C(i) = 0)
BY DEF Buffered, C

(* A scan over bytes that are not NUL ends at the NUL behind the buffer. *)
LEMMA PastStays ==
    ASSUME Buffered, NEW i \in 0..buf_end, NEW S, 0 \notin S
    PROVE  Past(i, S) \in i..buf_end
<1> DEFINE T == {j \in i..buf_end : C(j) \notin S}
           Stop(j) == C(j) \notin S /\ \A k \in i..j - 1 : C(k) \in S
<1>1. buf_end \in Nat /\ Len(mem) - 1 = buf_end
  BY DEF Buffered
<1>2. T \in SUBSET Nat /\ buf_end \in T
  BY <1>1, BytesAre
<1>3. PICK m \in T : \A n \in T : m <= n
  BY <1>2, LeastIs
<1>4. m \in i..buf_end /\ C(m) \notin S /\ \A k \in i..m - 1 : C(k) \in S
  BY <1>1, <1>3
<1>5. \E j \in i..Len(mem) - 1 : C(j) \notin S /\ \A k \in i..j - 1 : C(k) \in S
  BY <1>1, <1>4
<1> QED
  BY <1>1, <1>5 DEF Past

-----------------------------------------------------------------------------
(* Tokens but strings. *)

(* A token leaves buf where it was or further on, in the buffer. *)
Leaves(t, at) == t.next \in at..buf_end

LEMMA WordStays ==
    ASSUME Buffered, NEW at \in 0..buf_end - 1, NEW S, 0 \notin S, NEW rest \in Seq(S), NEW kind
    PROVE  Leaves(Word(at, rest, kind), at)
<1> USE DEF Leaves
<1>1. buf_end \in Nat /\ Len(mem) = buf_end + 1 /\ Len(rest) \in Nat /\ mem \in Seq(Bytes)
  BY DEF Buffered
<1>2. CASE ~ Spelt(at + 1, rest)
  BY <1>1, <1>2 DEF Word, Error, Token
<1>3. CASE Spelt(at + 1, rest)
  <2> DEFINE n == Len(rest)
             b == at + 2
             e == at + 1 + n
  <2>1. n \in Nat /\ b \in Int /\ e \in Int /\ e - b + 1 = n /\ b >= 1 /\ e >= at
    BY <1>1
  <2>2. e <= buf_end + 1 /\ SubSeq(mem, b, e) = rest
    BY <1>1, <1>3 DEF Spelt
  <2>3. Word(at, rest, kind).next = e
    BY <1>3 DEF Word, Token
  <2>4. n # 0 => rest[n] \in S
    <3>1. \A k \in 1..Len(rest) : rest[k] \in S
      OBVIOUS
    <3>2. n # 0 => n \in 1..Len(rest)
      BY <1>1
    <3> HIDE DEF n
    <3> QED
      BY <3>1, <3>2
  <2> HIDE DEF n, b, e
  <2>5. n # 0 => rest[n] = mem[e]
    <3>1. \A k \in b..e : mem[k] \in Bytes
      BY <1>1, <2>1, <2>2
    <3>2. \A k \in 1..e - b + 1 : SubSeq(mem, b, e)[k] = mem[b + k - 1]
      BY <2>1, <3>1, SubSeqProperties
    <3>3. n # 0 => n \in 1..e - b + 1 /\ b + n - 1 = e
      BY <2>1
    <3> QED
      BY <2>2, <3>2, <3>3
  <2>6. e # buf_end + 1
    <3> SUFFICES ASSUME e = buf_end + 1 PROVE FALSE
      OBVIOUS
    <3>1. n # 0
      BY <1>1 DEF n, e
    <3>2. mem[e] = 0
      BY DEF Buffered
    <3>3. 0 \in S
      BY <2>4, <2>5, <3>1, <3>2
    <3> QED
      BY <3>3
  <2> QED
    BY <1>1, <2>1, <2>2, <2>3, <2>6
<1> QED
  BY <1>2, <1>3

LEMMA CommentStays ==
    ASSUME Buffered, NEW at \in 0..buf_end - 1
    PROVE  Leaves(Comment(at), at)
<1> DEFINE T == {buf_end} \cup {i \in at + 2..buf_end - 1 : C(i) \in {0, 10}}
           stop == Min(T)
<1>1. buf_end \in Nat
  BY DEF Buffered
<1>2. T \in SUBSET Nat /\ T # {}
  BY <1>1
<1>3. stop \in T
  BY <1>2, MinIs
<1>4. stop \in at..buf_end
  BY <1>1, <1>3
<1> HIDE DEF stop
<1>5. Leaves(Error(at + 1), at) /\ Leaves(Error(stop), at) /\ Leaves(Token("eof", <<>>, stop), at)
  BY <1>1, <1>4 DEF Leaves, Error, Token
<1> QED
  BY <1>5 DEF Comment, stop

LEMMA NumberStays ==
    ASSUME Buffered, NEW at \in 0..buf_end - 1
    PROVE  Leaves(Number(at), at)
<1> DEFINE first == IF C(at) = 45 THEN at + 1 ELSE at
           int_end == Past(first, Digits)
           has_point == C(int_end) = 46
           frac_end == IF has_point THEN Past(int_end + 1, Digits) ELSE int_end
           has_exp == C(frac_end) \in {101, 69}
           exp == IF has_exp /\ C(frac_end + 1) \in {43, 45} THEN frac_end + 2 ELSE frac_end + 1
           end == IF has_exp THEN Past(exp, Digits) ELSE frac_end
<1>1. buf_end \in Nat /\ 0 \notin Digits /\ C(buf_end) = 0
  BY BytesAre DEF Buffered, Digits
<1>2. first \in at..buf_end
  BY <1>1
<1> HIDE DEF first
<1>3. int_end \in at..buf_end
  BY <1>1, <1>2, PastStays
<1> HIDE DEF int_end
<1>4. frac_end \in at..buf_end
  <2>1. CASE has_point
    <3>1. int_end + 1 \in 0..buf_end
      BY <1>1, <1>3, <2>1
    <3>2. Past(int_end + 1, Digits) \in int_end + 1..buf_end
      BY <1>1, <3>1, PastStays
    <3> QED
      BY <1>1, <1>3, <2>1, <3>2
  <2> QED
    BY <1>3, <2>1
<1> HIDE DEF frac_end
<1>5. end \in at..buf_end
  <2>1. CASE has_exp
    <3>1. frac_end + 1 \in 0..buf_end
      BY <1>1, <1>4, <2>1
    <3>2. exp \in 0..buf_end /\ exp >= at
      BY <1>1, <1>4, <3>1
    <3> HIDE DEF exp
    <3>3. Past(exp, Digits) \in exp..buf_end
      BY <1>1, <3>2, PastStays
    <3> QED
      BY <1>1, <1>4, <2>1, <3>2, <3>3
  <2> QED
    BY <1>4, <2>1
<1>6. Number(at).next \in {at, end}
  <2> HIDE DEF end
  <2> QED
    BY DEF Number, Error, Token, first, int_end, frac_end, end
<1> QED
  BY <1>1, <1>5, <1>6 DEF Leaves

-----------------------------------------------------------------------------
(* Strings.  The functions that walk over the bytes of a string refer to   *)
(* themselves at higher positions only, up to N, so they exist: else there *)
(* would be a least n such that they do not from N - n on.                 *)
LEMMA StringEndStays ==
    ASSUME Buffered, NEW start \in 0..buf_end
    PROVE  StringEnd(start) \in start..buf_end
<1> DEFINE N == buf_end
           Round(f, i) == IF C(i) \in {0, Quote} THEN i
                          ELSE IF C(i) = Backslash /\ C(i + 1) # 0 THEN f[i + 2] ELSE f[i + 1]
           Solves(f, k) == \A i \in k..N : f[i] = Round(f, i)
           T == {n \in 0..N - start : ~ \E f : Solves(f, N - n)}
<1>1. N \in Nat /\ Len(mem) - 1 = N /\ start \in Nat /\ start <= N
  BY DEF Buffered
<1>2. ASSUME NEW i \in start..N
      PROVE  \/ C(i) \in {0, Quote}
             \/ i + 1 \in i + 1..N /\ (C(i + 1) # 0 => i + 2 \in i + 1..N)
  <2>1. C(i) # 0 => i + 1 \in 0..N
    BY <1>1, BytesAre
  <2>2. C(i) # 0 /\ C(i + 1) # 0 => i + 2 \in 0..N
    BY <1>1, <2>1, BytesAre
  <2> QED
    BY <1>1, <2>1, <2>2
<1>3. T = {}
  <2> SUFFICES ASSUME T # {} PROVE FALSE
    OBVIOUS
  <2>0. T \in SUBSET Nat
    BY <1>1
  <2>1. PICK n \in T : \A m \in T : n <= m
    <3> HIDE DEF T
    <3> QED
      BY <2>0, LeastIs
  <2> DEFINE b == N - n
  <2>2. n \in 0..N - start /\ b \in start..N /\ ~ \E f : Solves(f, b)
    BY <1>1, <2>1
  <2>3. \E f : \A i \in b + 1..N : f[i] = Round(f, i)
    <3>1. CASE n = 0
      <4>1. b + 1..N = {}
        BY <1>1, <3>1
      <4> QED
        BY <4>1
    <3>2. CASE n # 0
      <4>1. n - 1 \in 0..N - start /\ n - 1 < n /\ N - (n - 1) = b + 1
        BY <1>1, <2>2, <3>2
      <4>2. n - 1 \notin T
        <5> HIDE DEF T
        <5> QED
          BY <2>0, <2>1, <2>2, <4>1
      <4> QED
        BY <4>1, <4>2
    <3> QED
      BY <3>1, <3>2
  <2>4. PICK f : \A i \in b + 1..N : f[i] = Round(f, i)
    BY <2>3
  <2> HIDE DEF b
  <2> DEFINE g == [i \in b..N |-> IF i = b THEN Round(f, b) ELSE f[i]]
  <2>5. \A j \in b + 1..N : g[j] = f[j]
    BY <1>1, <2>2
  <2>6. g[b] = Round(f, b)
    BY <1>1, <2>2
  <2> HIDE DEF g
  <2>7. ASSUME NEW i \in b..N PROVE g[i] = Round(g, i)
    <3>1. Round(g, i) = Round(f, i)
      <4>1. i \in start..N /\ i + 1 \in Int /\ \A j \in i + 1..N : j \in b + 1..N
        BY <1>1, <2>2
      <4>2. \A j \in i + 1..N : g[j] = f[j]
        BY <4>1, <2>5
      <4> QED
        BY <1>2, <4>1, <4>2
    <3>2. i = b \/ i \in b + 1..N
      BY <1>1, <2>2
    <3> HIDE DEF Round
    <3> QED
      BY <3>1, <3>2, <2>4, <2>5, <2>6
  <2> QED
    BY <2>2, <2>7
<1>4. PICK f : Solves(f, start)
  <2>1. N - start \in 0..N - start /\ N - (N - start) = start
    BY <1>1
  <2> HIDE DEF Solves
  <2> QED
    BY <1>3, <2>1
<1> DEFINE h == [i \in start..N |-> f[i]]
<1>5. h = [i \in start..N |-> Round(h, i)]
  <2>1. ASSUME NEW i \in start..N PROVE f[i] = Round(h, i)
    <3>1. \A j \in i + 1..N : h[j] = f[j]
      BY <1>1
    <3> HIDE DEF h
    <3> QED
      BY <1>2, <1>4, <3>1
  <2> HIDE DEF Round
  <2> QED
    BY <2>1
<1> HIDE DEF h
<1> DEFINE e == CHOOSE x : x = [i \in start..N |-> Round(x, i)]
<1>6. e = [i \in start..N |-> Round(e, i)]
  BY <1>5
<1>7. StringEnd(start) = e[start]
  BY <1>1 DEF StringEnd
<1> HIDE DEF e
<1> DEFINE U == {n \in 0..N - start : e[N - n] \notin N - n..N}
<1>8. U = {}
  <2> SUFFICES ASSUME U # {} PROVE FALSE
    OBVIOUS
  <2>0. U \in SUBSET Nat
    BY <1>1
  <2>1. PICK n \in U : \A m \in U : n <= m
    <3> HIDE DEF U
    <3> QED
      BY <2>0, LeastIs
  <2> DEFINE b == N - n
  <2>2. b \in start..N /\ e[b] \notin b..N /\ n \in 0..N - start
    BY <1>1, <2>1
  <2>3. \A j \in b + 1..N : e[j] \in j..N
    <3> TAKE j \in b + 1..N
    <3>1. N - j \in 0..N - start /\ N - j < n /\ N - (N - j) = j
      BY <1>1, <2>2
    <3>2. N - j \notin U
      <4> HIDE DEF U
      <4> QED
        BY <2>1, <2>2, <3>1
    <3> QED
      BY <3>1, <3>2
  <2> HIDE DEF b
  <2>4. e[b] = Round(e, b)
    BY <1>6, <2>2
  <2> QED
    BY <1>1, <1>2, <2>2, <2>3, <2>4
<1> QED
  <2>1. N - start \in 0..N - start /\ N - (N - start) = start
    BY <1>1
  <2>2. N - start \notin U
    BY <1>8
  <2> QED
    BY <1>7, <2>1, <2>2

-----------------------------------------------------------------------------
(* What unescaping writes. *)
Outcomes == [ok : BOOLEAN, out : Seq(Int)]

LEMMA WroteIs ==
    ASSUME NEW bytes \in Seq(Int), NEW rest \in Outcomes
    PROVE  Wrote(bytes, rest) \in Outcomes /\ Len(Wrote(bytes, rest).out) = Len(bytes) + Len(rest.out)
<1>1. PICK ok \in BOOLEAN, w \in Seq(Int) : rest = [ok |-> ok, out |-> w]
  BY DEF Outcomes
<1>2. bytes \o w \in Seq(Int) /\ Len(bytes \o w) = Len(bytes) + Len(w)
  BY ConcatProperties
<1>3. Wrote(bytes, rest) = [ok |-> ok, out |-> bytes \o w] /\ rest.out = w
  <2>1. Wrote(bytes, rest) = [rest EXCEPT !.out = bytes \o rest.out] /\ rest.out = w
    BY <1>1 DEF Wrote
  <2> DEFINE all == bytes \o w
  <2>2. Wrote(bytes, rest) = [rest EXCEPT !.out = all]
    BY <2>1
  <2> HIDE DEF all
  <2>3. Wrote(bytes, rest) = [ok |-> ok, out |-> all]
    BY <1>1, <2>2
  <2> QED
    BY <2>1, <2>3 DEF all
<1> DEFINE all == bytes \o w
<1>4. all \in Seq(Int) /\ Len(all) = Len(bytes) + Len(w) /\ Wrote(bytes, rest) = [ok |-> ok, out |-> all]
  BY <1>2, <1>3
<1> HIDE DEF all
<1> QED
  BY <1>3, <1>4 DEF Outcomes

(* A character takes at most four bytes. *)
LEMMA EncodedIs ==
    ASSUME NEW c \in Int
    PROVE  Encoded(c) \in Seq(Int) /\ Len(Encoded(c)) \in 1..4
<1>1. Width(c) \in 1..4
  BY DEF Width
<1>2. CASE Width(c) = 1
  BY <1>2 DEF Encoded
<1>3. CASE Width(c) = 2
  <2> DEFINE a == 192 + (c \div 64)
             b == 128 + (c % 64)
  <2>1. a \in Int /\ b \in Int /\ Encoded(c) = <<a, b>>
    BY <1>3 DEF Encoded
  <2> HIDE DEF a, b
  <2> QED
    BY <2>1
<1>4. CASE Width(c) = 3
  <2> DEFINE a == 224 + (c \div 4096)
             b == 128 + ((c \div 64) % 64)
             d == 128 + (c % 64)
  <2>1. a \in Int /\ b \in Int /\ d \in Int /\ Encoded(c) = <<a, b, d>>
    BY <1>4 DEF Encoded
  <2> HIDE DEF a, b, d
  <2> QED
    BY <2>1
<1>5. CASE Width(c) = 4
  <2> DEFINE a == 240 + (c \div 262144)
             b == 128 + ((c \div 4096) % 64)
             d == 128 + ((c \div 64) % 64)
             e == 128 + (c % 64)
  <2>1. a \in Int /\ b \in Int /\ d \in Int /\ e \in Int /\ Encoded(c) = <<a, b, d, e>>
    BY <1>5 DEF Encoded
  <2> HIDE DEF a, b, d, e
  <2> QED
    BY <2>1
<1> QED
  BY <1>1, <1>2, <1>3, <1>4, <1>5

LEMMA Digits4Is ==
    ASSUME NEW i \in Int, \A k \in i..i + 3 : C(k) \in DOMAIN Hex
    PROVE  Digits4(i) \in Int
<1>1. \A b \in DOMAIN Hex : Hex[b] \in Int
  BY DEF Hex, Digits
<1>2. C(i) \in DOMAIN Hex /\ C(i + 1) \in DOMAIN Hex /\ C(i + 2) \in DOMAIN Hex /\ C(i + 3) \in DOMAIN Hex
  OBVIOUS
<1>3. Hex[C(i)] \in Int /\ Hex[C(i + 1)] \in Int /\ Hex[C(i + 2)] \in Int /\ Hex[C(i + 3)] \in Int
  BY <1>1, <1>2
<1> QED
  BY <1>3 DEF Digits4

(* Unescaping writes no more bytes than it reads, and fewer if there is an *)
(* escape: six bytes of \uXXXX become four at most.                        *)
LEMMA UnescapedFits ==
    ASSUME Buffered, NEW start \in 0..buf_end, NEW end \in start..buf_end
    PROVE  /\ Unescaped(start, end) \in Outcomes
           /\ Len(Unescaped(start, end).out) <= end - start
           /\ Escapes(start, end) => Len(Unescaped(start, end).out) < end - start
<1> DEFINE Round(f, i, high) ==
        IF i = end THEN [ok |-> TRUE, out |-> <<>>]
        ELSE IF C(i) <= 31 \/ (high # 0 /\ C(i) # Backslash) THEN Failed
        ELSE IF C(i) # Backslash THEN Wrote(<<C(i)>>, f[i + 1][0])
        ELSE IF i + 1 = end \/ (high # 0 /\ C(i + 1) # 117) THEN Failed
        ELSE IF C(i + 1) \in DOMAIN Simple THEN Wrote(<<Simple[C(i + 1)]>>, f[i + 2][0])
        ELSE IF C(i + 1) # 117 \/ ~ HasDigits(i + 2, end) THEN Failed
        ELSE LET x == Digits4(i + 2)
             IN  IF high # 0
                 THEN IF Second(x) THEN Wrote(Encoded(Combined(high, x)), f[i + 6][0])
                      ELSE Failed
                 ELSE IF First(x) THEN f[i + 6][x]
                 ELSE Wrote(Encoded(x), f[i + 6][0])
    Fails(i, high) == \A f : Round(f, i, high) = Failed
    Writes(i, high, bytes, j, h) == \A f : Round(f, i, high) = Wrote(bytes, f[j][h])
    Waits(i, high, j, h) == \A f : Round(f, i, high) = f[j][h]
    Less(i, n, j) == n < j - i \/ (n = 1 /\ j = i + 1 /\ C(i) # Backslash)
    Goes(i, high) ==
        \/ Fails(i, high)
        \/ \E bytes \in Seq(Int), j \in i + 1..end, h \in Pending :
              Writes(i, high, bytes, j, h) /\ Less(i, Len(bytes), j)
        \/ \E j \in i + 1..end, h \in Pending : Waits(i, high, j, h) /\ Less(i, 0, j)
<1>1. buf_end \in Nat /\ start \in Nat /\ end \in start..buf_end /\ end \in Nat
  BY DEF Buffered
<1>2. 0 \in Pending /\ \A h \in Pending : h \in Int
  BY DEF Pending
<1>3. ASSUME NEW i \in start..end - 1, NEW high \in Pending PROVE Goes(i, high)
  <2>1. i \in Int /\ i # end /\ C(i) \in Int /\ i + 1 \in i + 1..end
    BY <1>1, BytesAre DEF Bytes
  <2>2. CASE C(i) <= 31 \/ (high # 0 /\ C(i) # Backslash)
    <3>1. Fails(i, high)
      BY <2>1, <2>2
    <3> QED
      BY <3>1
  <2>3. CASE C(i) # Backslash /\ ~ (C(i) <= 31 \/ (high # 0 /\ C(i) # Backslash))
    <3>1. Writes(i, high, <<C(i)>>, i + 1, 0)
      BY <2>1, <2>3
    <3>2. <<C(i)>> \in Seq(Int) /\ Len(<<C(i)>>) = 1
      BY <2>1
    <3>3. Less(i, Len(<<C(i)>>), i + 1)
      BY <2>1, <2>3, <3>2
    <3> HIDE DEF Writes, Less
    <3> QED
      BY <1>2, <2>1, <3>1, <3>2, <3>3
  <2>4. CASE C(i) = Backslash
    <3>0. C(i) = 92 /\ ~ (C(i) <= 31 \/ (high # 0 /\ C(i) # Backslash))
      BY <2>4 DEF Backslash
    <3>1. CASE i + 1 = end \/ (high # 0 /\ C(i + 1) # 117)
      <4>1. Fails(i, high)
        BY <2>1, <2>4, <3>0, <3>1
      <4> QED
        BY <4>1
    <3>2. CASE ~ (i + 1 = end \/ (high # 0 /\ C(i + 1) # 117))
      <4>1. i + 2 \in i + 1..end
        BY <1>1, <2>1, <3>2
      <4>2. CASE C(i + 1) \in DOMAIN Simple
        <5> DEFINE s == Simple[C(i + 1)]
        <5>1. Writes(i, high, <<s>>, i + 2, 0)
          BY <2>1, <2>4, <3>0, <3>2, <4>2
        <5>2. s \in Int
          BY <4>2 DEF Simple
        <5> HIDE DEF s
        <5>3. <<s>> \in Seq(Int) /\ Len(<<s>>) = 1
          BY <5>2
        <5>4. Less(i, Len(<<s>>), i + 2)
          BY <2>1, <5>3
        <5> HIDE DEF Writes, Less
        <5> QED
          BY <1>2, <4>1, <5>1, <5>3, <5>4
      <4>3. CASE C(i + 1) \notin DOMAIN Simple /\ (C(i + 1) # 117 \/ ~ HasDigits(i + 2, end))
        <5>1. Fails(i, high)
          BY <2>1, <2>4, <3>0, <3>2, <4>3
        <5> QED
          BY <5>1
      <4>4. CASE C(i + 1) \notin DOMAIN Simple /\ ~ (C(i + 1) # 117 \/ ~ HasDigits(i + 2, end))
        <5> DEFINE x == Digits4(i + 2)
        <5>1. i + 6 \in i + 1..end
          BY <1>1, <2>1, <4>4 DEF HasDigits
        <5>2. x \in Int
          <6>1. i + 2 \in Int /\ \A k \in i + 2..(i + 2) + 3 : C(k) \in DOMAIN Hex
            BY <2>1, <4>4 DEF HasDigits
          <6> QED
            BY ONLY <6>1, Digits4Is
        <5> DEFINE Last6(f) == IF high # 0
                               THEN IF Second(x) THEN Wrote(Encoded(Combined(high, x)), f[i + 6][0])
                                    ELSE Failed
                               ELSE IF First(x) THEN f[i + 6][x]
                               ELSE Wrote(Encoded(x), f[i + 6][0])
        <5>3. \A f : Round(f, i, high) = Last6(f)
          BY <2>1, <2>4, <3>0, <3>2, <4>4
        <5>4. ASSUME NEW c \in Int, \A f : Last6(f) = Wrote(Encoded(c), f[i + 6][0])
              PROVE  Goes(i, high)
          <6>1. Writes(i, high, Encoded(c), i + 6, 0)
            <7> HIDE DEF Round, Last6
            <7> QED
              BY <5>3, <5>4
          <6>2. Encoded(c) \in Seq(Int) /\ Len(Encoded(c)) \in 1..4
            BY EncodedIs
          <6>3. Less(i, Len(Encoded(c)), i + 6)
            <7>1. \A n \in 1..4 : Less(i, n, i + 6)
              BY <2>1
            <7> HIDE DEF Less
            <7> QED
              BY <6>2, <7>1
          <6> HIDE DEF Writes, Less
          <6> QED
            BY <1>2, <5>1, <6>1, <6>2, <6>3
        <5> HIDE DEF x
        <5>5. CASE high # 0 /\ Second(x)
          <6>1. Combined(high, x) \in Int
            BY <1>2, <5>2 DEF Combined
          <6>2. \A f : Last6(f) = Wrote(Encoded(Combined(high, x)), f[i + 6][0])
            BY <5>5
          <6> HIDE DEF Last6, Goes
          <6> QED
            BY <5>4, <6>1, <6>2
        <5>6. CASE high # 0 /\ ~ Second(x)
          <6>1. Fails(i, high)
            <7>1. \A f : Last6(f) = Failed
              BY <5>6
            <7> HIDE DEF Last6, Round
            <7> QED
              BY <5>3, <7>1
          <6> QED
            BY <6>1
        <5>7. CASE high = 0 /\ First(x)
          <6>1. Waits(i, high, i + 6, x)
            <7>1. \A f : Last6(f) = f[i + 6][x]
              BY <5>7
            <7> HIDE DEF Last6, Round
            <7> QED
              BY <5>3, <7>1
          <6>2. x \in Pending
            BY <5>2, <5>7 DEF First, Pending
          <6>3. Less(i, 0, i + 6)
            BY <2>1
          <6> HIDE DEF Waits, Less
          <6> QED
            BY <5>1, <6>1, <6>2, <6>3
        <5>8. CASE high = 0 /\ ~ First(x)
          <6>1. \A f : Last6(f) = Wrote(Encoded(x), f[i + 6][0])
            BY <5>8
          <6> HIDE DEF Last6, Goes
          <6> QED
            BY <5>2, <5>4, <6>1
        <5> HIDE DEF Goes
        <5> QED
          BY <5>5, <5>6, <5>7, <5>8
      <4> HIDE DEF Goes
      <4> QED
        BY <4>2, <4>3, <4>4
    <3> HIDE DEF Goes
    <3> QED
      BY <3>1, <3>2
  <2> HIDE DEF Goes
  <2> QED
    BY <2>2, <2>3, <2>4
<1>4. \A f : Round(f, end, 0) = [ok |-> TRUE, out |-> <<>>]
  OBVIOUS
<1>5. \A f, high : Round(f, end, high) = [ok |-> TRUE, out |-> <<>>]
  OBVIOUS
(* All that matters of a step: it takes from f what it takes at a higher   *)
(* position.                                                               *)
<1>6. ASSUME NEW f, NEW g, NEW i \in start..end, \A j \in i + 1..end : g[j] = f[j],
             NEW high \in Pending
      PROVE  Round(g, i, high) = Round(f, i, high)
  <2>1. CASE i = end
    BY <1>5, <2>1
  <2>2. CASE i # end
    <3>1. Goes(i, high)
      <4>1. i \in start..end - 1
        BY <1>1, <2>2
      <4> HIDE DEF Goes
      <4> QED
        BY <1>3, <4>1
    <3> HIDE DEF Round, Less
    <3> QED
      BY <1>6, <3>1
  <2> QED
    BY <2>1, <2>2
<1> HIDE DEF Round
<1> DEFINE Solves(f, k) == \A i \in k..end : f[i] = [high \in Pending |-> Round(f, i, high)]
           T == {n \in 0..end - start : ~ \E f : Solves(f, end - n)}
<1>7. T = {}
  <2> SUFFICES ASSUME T # {} PROVE FALSE
    OBVIOUS
  <2>0. T \in SUBSET Nat
    BY <1>1
  <2>1. PICK n \in T : \A m \in T : n <= m
    <3> HIDE DEF T
    <3> QED
      BY <2>0, LeastIs
  <2> DEFINE b == end - n
  <2>2. n \in 0..end - start /\ b \in start..end /\ ~ \E f : Solves(f, b)
    <3> HIDE DEF Solves
    <3> QED
      BY <1>1, <2>1
  <2>3. \E f : Solves(f, b + 1)
    <3>1. CASE n = 0
      <4>1. b + 1..end = {}
        BY <1>1, <3>1
      <4> QED
        BY <4>1
    <3>2. CASE n # 0
      <4>1. n - 1 \in 0..end - start /\ n - 1 < n /\ end - (n - 1) = b + 1
        BY <1>1, <2>2, <3>2
      <4>2. n - 1 \notin T
        <5> HIDE DEF T
        <5> QED
          BY <2>0, <2>1, <2>2, <4>1
      <4> HIDE DEF Solves
      <4> QED
        BY <4>1, <4>2
    <3> QED
      BY <3>1, <3>2
  <2>4. PICK f : Solves(f, b + 1)
    BY <2>3
  <2> HIDE DEF b
  <2> DEFINE g == [i \in b..end |-> IF i = b THEN [high \in Pending |-> Round(f, b, high)] ELSE f[i]]
  <2>5. \A j \in b + 1..end : g[j] = f[j]
    BY <1>1, <2>2
  <2>6. g[b] = [high \in Pending |-> Round(f, b, high)]
    BY <1>1, <2>2
  <2> HIDE DEF g
  <2>7. ASSUME NEW i \in b..end PROVE g[i] = [high \in Pending |-> Round(g, i, high)]
    <3>1. \A high \in Pending : Round(g, i, high) = Round(f, i, high)
      <4>1. i \in start..end /\ \A j \in i + 1..end : j \in b + 1..end
        BY <1>1, <2>2
      <4>2. \A j \in i + 1..end : g[j] = f[j]
        BY <4>1, <2>5
      <4> HIDE DEF Solves
      <4> QED
        BY ONLY <1>6, <4>1, <4>2
    <3>2. i = b \/ i \in b + 1..end
      BY <1>1, <2>2
    <3>3. g[i] = [high \in Pending |-> Round(f, i, high)]
      BY <3>2, <2>4, <2>5, <2>6
    <3> QED
      BY <3>1, <3>3
  <2> QED
    BY <2>2, <2>7
<1>8. PICK f : Solves(f, start)
  <2>1. end - start \in 0..end - start /\ end - (end - start) = start
    BY <1>1
  <2> HIDE DEF Solves
  <2> QED
    BY <1>7, <2>1
<1> DEFINE h == [i \in start..end |-> f[i]]
<1>9. h = [i \in start..end |-> [high \in Pending |-> Round(h, i, high)]]
  <2>1. ASSUME NEW i \in start..end PROVE f[i] = [high \in Pending |-> Round(h, i, high)]
    <3>1. \A j \in i + 1..end : h[j] = f[j]
      BY <1>1
    <3> HIDE DEF h
    <3>2. \A high \in Pending : Round(h, i, high) = Round(f, i, high)
      BY <1>6, <3>1
    <3> QED
      BY <1>8, <3>2
  <2> QED
    BY <2>1
<1> HIDE DEF h
<1> DEFINE e == CHOOSE x : x = [i \in start..end |-> [high \in Pending |-> Round(x, i, high)]]
<1>10. e = [i \in start..end |-> [high \in Pending |-> Round(e, i, high)]]
  BY <1>9
<1>11. Unescaped(start, end) = e[start][0]
  BY DEF Unescaped, Round
<1> HIDE DEF e
<1>12. \A i \in start..end, high \in Pending : e[i][high] = Round(e, i, high)
  BY <1>10
<1> DEFINE Fits(i) == \A high \in Pending :
                         /\ e[i][high] \in Outcomes
                         /\ Len(e[i][high].out) <= end - i
                         /\ Escapes(i, end) => Len(e[i][high].out) < end - i
           U == {n \in 0..end - start : ~ Fits(end - n)}
<1>13. ASSUME NEW i \in start..end, \A j \in i + 1..end : Fits(j) PROVE Fits(i)
  <2> SUFFICES ASSUME NEW high \in Pending
               PROVE  /\ e[i][high] \in Outcomes
                      /\ Len(e[i][high].out) <= end - i
                      /\ Escapes(i, end) => Len(e[i][high].out) < end - i
    OBVIOUS
  <2>1. CASE i = end
    <3>1. e[i][high] = [ok |-> TRUE, out |-> <<>>]
      BY <1>5, <1>12, <2>1
    <3>2. i..end - 1 = {}
      BY <1>1, <2>1
    <3> QED
      BY <1>1, <2>1, <3>1, <3>2 DEF Escapes, Outcomes
  <2>2. CASE i # end
    <3>1. Goes(i, high) /\ i \in start..end - 1
      <4>1. i \in start..end - 1
        BY <1>1, <2>2
      <4> HIDE DEF Goes
      <4> QED
        BY <1>3, <4>1
    <3>2. CASE Fails(i, high)
      <4>1. e[i][high] = Failed
        BY <1>12, <3>2
      <4> QED
        BY <1>1, <3>1, <4>1 DEF Failed, Outcomes
    <3>3. ASSUME NEW n \in Nat, NEW j \in i + 1..end, NEW k \in Pending, Less(i, n, j),
                 e[i][high] \in Outcomes, Len(e[i][high].out) = n + Len(e[j][k].out)
          PROVE  /\ Len(e[i][high].out) <= end - i
                 /\ Escapes(i, end) => Len(e[i][high].out) < end - i
      <4> DEFINE rest == Len(e[j][k].out)
      <4>1. e[j][k] \in Outcomes /\ rest <= end - j /\ (Escapes(j, end) => rest < end - j)
        BY <1>13, <3>3
      <4>2. rest \in Nat
        BY <4>1 DEF Outcomes
      <4>3. n < j - i \/ (n = 1 /\ j = i + 1 /\ C(i) # Backslash)
        BY <3>3
      <4> HIDE DEF rest
      <4>4. ASSUME j = i + 1, C(i) # Backslash, Escapes(i, end) PROVE Escapes(j, end)
        <5>1. PICK m \in i..end - 1 : C(m) = Backslash
          BY <4>4 DEF Escapes
        <5>2. m # i /\ m \in j..end - 1
          BY <1>1, <4>4, <5>1
        <5> QED
          BY <5>1, <5>2 DEF Escapes
      <4>5. n + rest <= end - i /\ (Escapes(i, end) => n + rest < end - i)
        <5>1. CASE n < j - i
          BY <1>1, <4>1, <4>2, <5>1
        <5>2. CASE n = 1 /\ j = i + 1 /\ C(i) # Backslash
          BY <1>1, <4>1, <4>2, <4>4, <5>2
        <5> QED
          BY <4>3, <5>1, <5>2
      <4> QED
        BY <3>3, <4>5 DEF rest
    <3>4. ASSUME NEW bytes \in Seq(Int), NEW j \in i + 1..end, NEW k \in Pending,
                 Writes(i, high, bytes, j, k), Less(i, Len(bytes), j)
          PROVE  /\ e[i][high] \in Outcomes
                 /\ Len(e[i][high].out) <= end - i
                 /\ Escapes(i, end) => Len(e[i][high].out) < end - i
      <4>1. e[i][high] = Wrote(bytes, e[j][k])
        BY <1>12, <3>4
      <4>2. e[j][k] \in Outcomes
        BY <1>13, <3>4
      <4>3. e[i][high] \in Outcomes /\ Len(e[i][high].out) = Len(bytes) + Len(e[j][k].out)
        BY ONLY <4>1, <4>2, <3>4, WroteIs
      <4>4. Len(bytes) \in Nat
        OBVIOUS
      <4> HIDE DEF Less
      <4> QED
        BY ONLY <3>3, <3>4, <4>3, <4>4
    <3>5. ASSUME NEW j \in i + 1..end, NEW k \in Pending, Waits(i, high, j, k), Less(i, 0, j)
          PROVE  /\ e[i][high] \in Outcomes
                 /\ Len(e[i][high].out) <= end - i
                 /\ Escapes(i, end) => Len(e[i][high].out) < end - i
      <4>1. e[i][high] = e[j][k]
        BY <1>12, <3>5
      <4>2. e[j][k] \in Outcomes
        BY <1>13, <3>5
      <4>3. Len(e[i][high].out) = 0 + Len(e[j][k].out) /\ 0 \in Nat
        <5>1. Len(e[j][k].out) \in Nat
          BY <4>2 DEF Outcomes
        <5> QED
          BY <4>1, <5>1
      <4> HIDE DEF Less
      <4> QED
        BY ONLY <3>3, <3>5, <4>1, <4>2, <4>3
    <3> HIDE DEF Fails, Writes, Waits, Less, Fits
    <3> QED
      BY <3>1, <3>2, <3>4, <3>5
  <2> QED
    BY <2>1, <2>2
<1> HIDE DEF Fits
<1>14. U = {}
  <2> SUFFICES ASSUME U # {} PROVE FALSE
    OBVIOUS
  <2>0. U \in SUBSET Nat
    BY <1>1
  <2>1. PICK n \in U : \A m \in U : n <= m
    <3> HIDE DEF U
    <3> QED
      BY <2>0, LeastIs
  <2> DEFINE b == end - n
  <2>2. b \in start..end /\ ~ Fits(b) /\ n \in 0..end - start
    BY <1>1, <2>1
  <2>3. \A j \in b + 1..end : Fits(j)
    <3> TAKE j \in b + 1..end
    <3>1. end - j \in 0..end - start /\ end - j < n /\ end - (end - j) = j
      BY <1>1, <2>2
    <3>2. end - j \notin U
      <4> HIDE DEF U
      <4> QED
        BY <2>1, <2>2, <3>1
    <3> QED
      BY <3>1, <3>2
  <2> HIDE DEF b
  <2> QED
    BY <1>13, <2>2, <2>3
<1>15. Fits(start)
  <2>1. end - start \in 0..end - start /\ end - (end - start) = start
    BY <1>1
  <2>2. end - start \notin U
    BY <1>14
  <2> QED
    BY <2>1, <2>2
<1> QED
  BY <1>2, <1>11, <1>15 DEF Fits

(* What unescaping allocated, if it did, has room for what it wrote. *)
Roomy(s) == Len(s) <= 1 /\ \A i \in DOMAIN s : s[i].used < s[i].size

LEMMA StringStays ==
    ASSUME Buffered, NEW at \in 0..buf_end - 1
    PROVE  Leaves(String(at).token, at) /\ Roomy(String(at).scratch)
<1> DEFINE start == at + 1
           end == StringEnd(start)
           u == Unescaped(start, end)
<1>1. buf_end \in Nat /\ start \in 0..buf_end /\ start \in at..buf_end
  BY DEF Buffered
<1>2. end \in start..buf_end
  BY <1>1, StringEndStays
<1>3. Escapes(start, end) => Len(u.out) < ScratchSize(start, end)
  <2> HIDE DEF start, end
  <2> QED
    BY <1>1, <1>2, UnescapedFits DEF ScratchSize
<1> HIDE DEF end
<1>4. C(end) = Quote => end + 1 \in at..buf_end
  <2>1. C(buf_end) = 0 /\ Quote # 0
    BY <1>1, BytesAre DEF Quote
  <2> QED
    BY <1>1, <1>2, <2>1
<1>5. Roomy(<<>>) /\ Leaves(Error(at), at)
  BY <1>1 DEF Roomy, Leaves, Error, Token
<1>6. C(end) = Quote => \A val : Leaves(Token("str", val, end + 1), at)
  BY <1>4 DEF Leaves, Token
<1>7. Escapes(start, end) => Roomy(<<[size |-> ScratchSize(start, end), used |-> Len(u.out)]>>)
  <2> DEFINE size == ScratchSize(start, end)
             used == Len(u.out)
  <2>1. Escapes(start, end) => used < size
    BY <1>3
  <2> HIDE DEF size, used
  <2>2. \A r : r.used < r.size => Roomy(<<r>>)
    BY DEF Roomy
  <2> DEFINE r == [size |-> size, used |-> used]
  <2>3. r.used = used /\ r.size = size
    OBVIOUS
  <2>4. r.used < r.size => Roomy(<<r>>)
    <3> HIDE DEF r
    <3> QED
      BY <2>2
  <2> QED
    BY <2>1, <2>3, <2>4 DEF size, used
<1> DEFINE v == SubSeq(mem, start + 1, end)
           w == UpToNul(u.out)
           kept == <<[size |-> ScratchSize(start, end), used |-> Len(u.out)]>>
<1>8. /\ String(at).token \in {Error(at), Token("str", v, end + 1), Token("str", w, end + 1)}
      /\ C(end) # Quote => String(at).token = Error(at)
      /\ String(at).scratch = <<>> \/ (Escapes(start, end) /\ String(at).scratch = kept)
  <2> DEFINE t1 == IF Controls(start, end) THEN Error(at) ELSE Token("str", v, end + 1)
             t2 == IF u.ok /\ Valid(u.out) THEN Token("str", w, end + 1) ELSE Error(at)
             ctl == Controls(start, FirstBackslash(start, end))
  <2>1. String(at) = IF C(end) # Quote THEN [token |-> Error(at), scratch |-> <<>>]
                     ELSE IF ~ Escapes(start, end) THEN [token |-> t1, scratch |-> <<>>]
                     ELSE IF ctl THEN [token |-> Error(at), scratch |-> <<>>]
                     ELSE [token |-> t2, scratch |-> kept]
    BY DEF String, end
  <2>2. t1 \in {Error(at), Token("str", v, end + 1)} /\ t2 \in {Error(at), Token("str", w, end + 1)}
    OBVIOUS
  <2> HIDE DEF t1, t2, ctl, v, w, kept, u, start
  <2> QED
    BY <2>1, <2>2
<1> HIDE DEF v, w, u
<1> QED
  BY <1>5, <1>6, <1>7, <1>8

-----------------------------------------------------------------------------
(* Any token. *)
LEMMA TokenAtStays ==
    ASSUME Buffered, NEW at \in 0..buf_end - 1
    PROVE  Leaves(TokenAt(at), at)
<1>1. buf_end \in Nat /\ at < buf_end
  BY DEF Buffered
<1> DEFINE S == {97, 101, 108, 114, 115, 117}
           T == <<114, 117, 101>>
           N == <<117, 108, 108>>
           F == <<97, 108, 115, 101>>
<1>2. T \in Seq(S) /\ N \in Seq(S) /\ F \in Seq(S) /\ 0 \notin S
  OBVIOUS
<1> HIDE DEF S, T, N, F
<1>3. /\ Leaves(Word(at, T, "true"), at)
      /\ Leaves(Word(at, N, "null"), at)
      /\ Leaves(Word(at, F, "false"), at)
  BY <1>2, WordStays
<1>4. Leaves(Punctuation(at), at) /\ Leaves(Error(at), at)
  BY <1>1 DEF Punctuation, Leaves, Error, Token
<1>5. Leaves(String(at).token, at) /\ Leaves(Number(at), at) /\ Leaves(Comment(at), at)
  BY StringStays, NumberStays, CommentStays
<1> QED
  BY <1>1, <1>3, <1>4, <1>5 DEF TokenAt, T, N, F

(* A call reads no more line ends than bytes. *)
LEMMA LineEnds ==
    ASSUME NEW i \in Nat, NEW j \in i..buf_end, buf_end \in Nat
    PROVE  Cardinality({k \in i..j - 1 : C(k) \in {10, 13}}) \in 0..j - i
<1> DEFINE b == j - 1
           R == {k \in i..b : C(k) \in {10, 13}}
<1>1. b \in Int /\ IsFiniteSet(i..b) /\ Cardinality(i..b) = j - i
  <2>1. b \in Int /\ i \in Int /\ j = b + 1 /\ i <= j
    OBVIOUS
  <2> HIDE DEF b
  <2> QED
    BY <2>1, FS_Interval
<1>2. R \in SUBSET (i..b)
  OBVIOUS
<1> HIDE DEF R, b
<1>3. Cardinality(R) \in Nat /\ Cardinality(R) <= Cardinality(i..b)
  BY <1>1, <1>2, FS_Subset, FS_CardinalityType
<1>4. Cardinality(R) \in 0..j - i
  BY <1>1, <1>3
<1> QED
  BY <1>4 DEF R, b

-----------------------------------------------------------------------------
(* The inductive invariant: besides what StaysInBuffer says, the NUL lies  *)
(* right behind the buffer, and no more line ends than bytes were read.    *)
TokInv == /\ Buffered
          /\ buf \in 0..buf_end /\ line \in 0..buf
          /\ Roomy(scratch)

LEMMA TokInvHolds == Terminated => (TokSpec => []TokInv)
<1> SUFFICES ASSUME Terminated PROVE TokSpec => []TokInv
  OBVIOUS
<1>1. ASSUME NEW text \in Seq(0..255), Reads(text) PROVE TokInv
  <2>1. mem = text \o Nul /\ buf_end = Len(text) /\ buf = 0 /\ line = 0 /\ scratch = <<>>
    BY <1>1 DEF Reads, Terminated
  <2>2. text \in Seq(Bytes) /\ Nul \in Seq(Bytes) /\ Len(Nul) = 1 /\ Nul[1] = 0
    BY DEF Bytes, Nul
  <2>3. /\ text \o Nul \in Seq(Bytes)
        /\ Len(text \o Nul) = Len(text) + 1
        /\ (text \o Nul)[Len(text) + 1] = 0
    <3>1. Len(text) + 1 \in 1..Len(text) + Len(Nul) /\ ~ (Len(text) + 1 <= Len(text))
      BY <2>2
    <3>2. (text \o Nul)[Len(text) + 1] = Nul[(Len(text) + 1) - Len(text)]
      BY <2>2, <3>1, ConcatProperties
    <3>3. (Len(text) + 1) - Len(text) = 1
      BY <2>2
    <3>4. text \o Nul \in Seq(Bytes) /\ Len(text \o Nul) = Len(text) + Len(Nul)
      BY <2>2, ConcatProperties
    <3> QED
      BY <2>2, <3>2, <3>3, <3>4
  <2>4. Buffered
    BY <2>1, <2>3 DEF Buffered
  <2> QED
    BY <2>1, <2>4 DEF TokInv, Roomy, Buffered
<1>2. ASSUME TokInv, [CutToken]_tokenizer PROVE TokInv'
  <2>1. CASE UNCHANGED tokenizer
    BY <1>2, <2>1 DEF TokInv, Buffered, Roomy, tokenizer
  <2>2. CASE CutToken
    <3> DEFINE at == Begin
               t == IF at < buf_end THEN TokenAt(at) ELSE Token("eof", <<>>, at)
               ends == Cardinality({k \in buf..at - 1 : C(k) \in {10, 13}})
               kept == IF at < buf_end /\ C(at) = Quote THEN String(at).scratch ELSE <<>>
    <3>1. /\ line' = line + ends /\ buf' = t.next /\ scratch' = kept
          /\ mem' = mem /\ buf_end' = buf_end
      BY <2>2 DEF CutToken
    <3>2. Buffered /\ buf_end \in Nat /\ buf \in 0..buf_end /\ line \in 0..buf
      BY <1>2 DEF TokInv, Buffered
    <3>3. at \in buf..buf_end
      <4> DEFINE T == {buf_end} \cup {i \in buf..buf_end - 1 : C(i) \notin White}
      <4>1. T \in SUBSET Nat /\ T # {} /\ T \in SUBSET (buf..buf_end)
        BY <3>2
      <4>2. Min(T) \in T
        BY <4>1, MinIs
      <4> QED
        BY <4>1, <4>2 DEF Begin
    <3> HIDE DEF at
    <3>4. ends \in 0..at - buf
      BY <3>2, <3>3, LineEnds
    <3>5. t.next \in at..buf_end
      <4>1. CASE at < buf_end
        <5>1. at \in 0..buf_end - 1
          BY <3>2, <3>3, <4>1
        <5> QED
          BY <3>2, <4>1, <5>1, TokenAtStays DEF Leaves
      <4>2. CASE ~ (at < buf_end)
        BY <3>2, <3>3, <4>2 DEF Token
      <4> QED
        BY <4>1, <4>2
    <3>6. Roomy(kept)
      <4>1. CASE at < buf_end /\ C(at) = Quote
        <5>1. at \in 0..buf_end - 1
          BY <3>2, <3>3, <4>1
        <5> QED
          BY <3>2, <4>1, <5>1, StringStays
      <4>2. CASE ~ (at < buf_end /\ C(at) = Quote)
        BY <4>2 DEF Roomy
      <4> QED
        BY <4>1, <4>2
    <3> HIDE DEF t, ends, kept
    <3>7. Buffered' /\ Roomy(scratch')
      BY <3>1, <3>2, <3>6 DEF Buffered
    <3>8. buf' \in 0..buf_end' /\ line' \in 0..buf'
      BY <3>1, <3>2, <3>3, <3>4, <3>5
    <3> QED
      BY <3>7, <3>8 DEF TokInv, Roomy
  <2> QED
    BY <1>2, <2>1, <2>2
<1>3. (\E text \in Seq(0..255) : Reads(text)) => TokInv
  BY <1>1
<1> QED
  BY <1>2, <1>3, PTL DEF TokSpec

(* For a text of any bytes and any length with a NUL right behind it, no   *)
(* token reaches behind the buffer, and a string with escapes is written   *)
(* to less than what was allocated for it, so that the NUL behind it is    *)
(* one of the allocated bytes (tokenizer.c:338, :364, :381, :449).         *)
THEOREM TokensStayInBuffer == Terminated => (TokSpec => []StaysInBuffer)
<1>1. TokInv => StaysInBuffer
  <2> SUFFICES ASSUME TokInv PROVE StaysInBuffer
    OBVIOUS
  <2>1. /\ mem \in Seq(0..255) /\ buf_end \in Nat /\ Len(mem) = buf_end + 1 /\ mem[buf_end + 1] = 0
        /\ buf \in 0..buf_end /\ line \in 0..buf
    BY DEF TokInv, Buffered, Bytes
  <2>2. Last(mem) = 0
    <3>1. Last(mem) = mem[Len(mem)]
      BY DEF Last
    <3> QED
      BY <2>1, <3>1
  <2>3. Roomy(scratch)
    BY DEF TokInv
  <2>4. Len(scratch) <= 1
    BY <2>3 DEF Roomy
  <2>5. \A i \in DOMAIN scratch : scratch[i].used < scratch[i].size
    BY <2>3 DEF Roomy
  <2> QED
    BY <2>1, <2>2, <2>4, <2>5 DEF StaysInBuffer, TokTypeOK
<1> QED
  BY <1>1, TokInvHolds, PTL

-----------------------------------------------------------------------------
(* JsonParser. *)
ArrayStates == {"array_value_or_close", "array_close_or_comma"}
ObjectStates == {"object_key_or_close", "object_colon", "object_value", "object_close_or_comma"}
Afters == {"array_close_or_comma", "object_close_or_comma"}

Tags == Scalars \cup {"[", "{"}
NodesOf(n) == [tag : Tags, elems : Seq(1..n), keys : Seq(Strings)]
Frames(n) == [tops : States, j : 0..n]

(* Among values v, j is a container that a state s works on. *)
FitsIn(v, s, j) == j \in 1..Len(v) /\ v[j].tag = IF s \in ArrayStates THEN "[" ELSE "{"

(* Each frame but the first goes on with the container in the one beneath. *)
StackFits(v, f) ==
    /\ f # <<>> => f[1].tops = "done"
    /\ \A k \in 2..Len(f) : f[k].tops \in Afters /\ FitsIn(v, f[k].tops, f[k - 1].j)

(* The first frame has the outermost value, which is the first made. *)
StateFits(v, f, s) ==
    /\ s \in ArrayStates \cup ObjectStates => f # <<>> /\ f[1].j = 1 /\ FitsIn(v, s, f[Len(f)].j)
    /\ s = "value" => Len(f) = 1 /\ v = <<>>
    /\ s = "done" => v # <<>>

Ends(s) == s = "done" => result = 1
Keyed == state \in {"object_colon", "object_value"} => key \in Strings

(* The inductive invariant. *)
PInv == /\ TypeOK /\ OutIsOutermost /\ ElementsFormTree
        /\ StackFits(nodes, sp) /\ StateFits(nodes, sp, state) /\ Ends(state) /\ Keyed

-----------------------------------------------------------------------------
(* Identifiers of values, NULL included.                                   *)
LEMMA WithNull == \A n \in Nat : 1..n \cup {0} = 0..n
  OBVIOUS

(* A range that grows by one.                                              *)
LEMMA Ranges == \A n \in Nat : /\ n >= n /\ n + 1 \in Nat /\ n + 1 >= n /\ n + 1 \in 1..n + 1
                               /\ 0..n \subseteq 0..n + 1
  OBVIOUS

(* A range has what a shorter one has.                                     *)
LEMMA LargerRange == \A m, n \in Nat : m >= n => \A i \in 0..n : i \in 0..m
  OBVIOUS

(* What the type invariant says of the stack and the values, in terms of   *)
(* their lengths.                                                          *)
LEMMA Typing ==
    ASSUME TypeOK
    PROVE  /\ Len(nodes) \in Nat /\ nodes \in Seq(NodesOf(Len(nodes)))
           /\ Len(sp) \in Nat /\ sp \in Seq(Frames(Len(nodes)))
           /\ sp # <<>> => Len(sp) \in 1..Len(sp)
<1>1. nodes \in Seq(NodesOf(Len(nodes)))
  BY DEF TypeOK, NodesOf, Tags, NodeIds
<1>2. Len(nodes) \in Nat
  BY <1>1
<1>3. NodeIds \cup {NULL} = 0..Len(nodes)
  BY <1>2 DEF NodeIds, NULL
<1>4. sp \in Seq(Frames(Len(nodes)))
  BY <1>3 DEF TypeOK, Frames
<1> QED BY <1>1, <1>2, <1>4, EmptySeq

(* A longer list of values has those before. *)
LEMMA NodesGrow ==
    ASSUME NEW n \in Nat
    PROVE  Seq(NodesOf(n)) \subseteq Seq(NodesOf(n + 1)) /\ Seq(Frames(n)) \subseteq Seq(Frames(n + 1))
<1>1. 1..n \subseteq 1..n + 1 /\ 0..n \subseteq 0..n + 1
  OBVIOUS
<1>2. Seq(1..n) \subseteq Seq(1..n + 1)
  BY <1>1
<1>3. NodesOf(n) \subseteq NodesOf(n + 1) /\ Frames(n) \subseteq Frames(n + 1)
  BY <1>1, <1>2 DEF NodesOf, Frames
<1> QED BY <1>3

-----------------------------------------------------------------------------
(* A container e with one more element n + 1, or with n + 1 in the place   *)
(* of others, otherwise as old.                                            *)
Takes(old, e, n) ==
    /\ e \in NodesOf(n + 1) /\ e.tag = old.tag
    /\ \A k \in DOMAIN e.elems :
          e.elems[k] = n + 1 \/ \E m \in DOMAIN old.elems : e.elems[k] = old.elems[m]

(* A container that gets one more element takes it.                        *)
LEMMA Appended ==
    ASSUME NEW n \in Nat, NEW old \in NodesOf(n), NEW ks \in Seq(Strings)
    PROVE  Takes(old, [tag |-> old.tag, elems |-> Append(old.elems, n + 1), keys |-> ks], n)
<1> DEFINE es == old.elems
<1>1. es \in Seq(1..n) /\ old.tag \in Tags
  BY DEF NodesOf
<1>2. es \in Seq(1..n + 1) /\ n + 1 \in 1..n + 1
  BY <1>1
<1>3. DOMAIN es = 1..Len(es) /\ Len(es) \in Nat
  BY <1>1
<1> HIDE DEF es
<1>4. /\ Append(es, n + 1) \in Seq(1..n + 1) /\ Len(Append(es, n + 1)) = Len(es) + 1
      /\ \A i \in 1..Len(es) : Append(es, n + 1)[i] = es[i]
      /\ Append(es, n + 1)[Len(es) + 1] = n + 1
  BY <1>2, AppendProperties
<1>5. DOMAIN Append(es, n + 1) = 1..Len(es) + 1
  BY <1>4
<1>6. ASSUME NEW k \in DOMAIN Append(es, n + 1)
      PROVE  Append(es, n + 1)[k] = n + 1 \/ \E m \in DOMAIN es : Append(es, n + 1)[k] = es[m]
  <2>1. k \in 1..Len(es) \/ k = Len(es) + 1
    BY <1>3, <1>5
  <2> QED BY <2>1, <1>3, <1>4
<1> QED BY <1>1, <1>4, <1>6 DEF Takes, NodesOf, es

(* A container that has the key already gets n + 1 in the place of the old. *)
LEMMA Overwrites ==
    ASSUME NEW n \in Nat, NEW old \in NodesOf(n), NEW at
    PROVE  LET r == [i \in DOMAIN old.elems |-> IF i \in at THEN n + 1 ELSE old.elems[i]]
           IN  Takes(old, [tag |-> old.tag, elems |-> r, keys |-> old.keys], n)
<1> DEFINE es == old.elems
           r == [i \in DOMAIN es |-> IF i \in at THEN n + 1 ELSE es[i]]
<1>1. es \in Seq(1..n) /\ old.tag \in Tags /\ old.keys \in Seq(Strings)
  BY DEF NodesOf
<1>2. DOMAIN es = 1..Len(es) /\ Len(es) \in Nat /\ \A i \in 1..Len(es) : es[i] \in 1..n
  BY <1>1
<1>3. r \in [1..Len(es) -> 1..n + 1]
  BY <1>2
<1>4. r \in Seq(1..n + 1)
  BY <1>2, <1>3, SeqDef
<1>5. \A k \in DOMAIN r : r[k] = n + 1 \/ \E m \in DOMAIN es : r[k] = es[m]
  OBVIOUS
<1> HIDE DEF r
<1>6. [tag |-> old.tag, elems |-> r, keys |-> old.keys] \in NodesOf(n + 1)
  BY <1>1, <1>4 DEF NodesOf
<1>7. Takes(old, [tag |-> old.tag, elems |-> r, keys |-> old.keys], n)
  BY <1>5, <1>6 DEF Takes
<1> QED BY <1>7 DEF r

(* A container on top of the stack takes the next value.                   *)
LEMMA Attaches ==
    ASSUME TypeOK, sp # <<>>, NEW s \in ArrayStates \cup ObjectStates,
           FitsIn(nodes, s, sp[Len(sp)].j), s \in ObjectStates => key \in Strings,
           NEW c \in Tags
    PROVE  \E e : /\ Takes(nodes[sp[Len(sp)].j], e, Len(nodes))
                  /\ Attached(Value(c)) = Append([nodes EXCEPT ![sp[Len(sp)].j] = e], Value(c))
<1> DEFINE n == Len(nodes)
           j == sp[Len(sp)].j
           old == nodes[j]
           at == {i \in DOMAIN old.keys : old.keys[i] = key}
           longer == Append(old.elems, n + 1)
           other == [i \in DOMAIN old.elems |-> IF i \in at THEN n + 1 ELSE old.elems[i]]
<1>1. n \in Nat /\ nodes \in Seq(NodesOf(n)) /\ j \in 1..n
  BY Typing DEF FitsIn
<1>2. old \in NodesOf(n)
  BY <1>1, ElementOfSeq
<1>3. old = [tag |-> old.tag, elems |-> old.elems, keys |-> old.keys] /\ old.keys \in Seq(Strings)
  BY <1>2 DEF NodesOf
<1>4. CASE old.tag = "["
  <2> DEFINE e == [tag |-> old.tag, elems |-> longer, keys |-> old.keys]
  <2>1. Attached(Value(c)) = Append([nodes EXCEPT ![j].elems = Append(@, n + 1)], Value(c))
    BY <1>4 DEF Attached, Last
  <2>2. [nodes EXCEPT ![j].elems = Append(@, n + 1)] = [nodes EXCEPT ![j] = e]
    <3>1. [old EXCEPT !.elems = longer] = e
      <4> HIDE DEF longer, old
      <4> QED BY <1>3
    <3> HIDE DEF e
    <3> QED BY <3>1
  <2>3. Takes(old, e, n)
    BY <1>1, <1>2, <1>3, Appended
  <2> QED BY <2>1, <2>2, <2>3
<1>5. CASE old.tag # "[" /\ at # {}
  <2> DEFINE e == [tag |-> old.tag, elems |-> other, keys |-> old.keys]
  <2>1. Attached(Value(c)) = Append([nodes EXCEPT ![j].elems = other], Value(c))
    BY <1>5 DEF Attached, Last
  <2>2. [nodes EXCEPT ![j].elems = other] = [nodes EXCEPT ![j] = e]
    <3>1. [old EXCEPT !.elems = other] = e
      BY SMTT(20), <1>3
    <3> HIDE DEF e
    <3> QED BY <3>1
  <2>3. Takes(old, e, n)
    BY <1>1, <1>2, Overwrites
  <2> QED BY <2>1, <2>2, <2>3
<1>6. CASE old.tag # "[" /\ at = {}
  <2> DEFINE e == [tag |-> old.tag, elems |-> longer, keys |-> Append(old.keys, key)]
  <2>1. Attached(Value(c)) = Append([nodes EXCEPT ![j].elems = Append(@, n + 1),
                                                  ![j].keys = Append(@, key)], Value(c))
    BY <1>6 DEF Attached, Last
  <2>2. [nodes EXCEPT ![j].elems = Append(@, n + 1), ![j].keys = Append(@, key)]
            = [nodes EXCEPT ![j] = e]
    <3> DEFINE d == [tag |-> old.tag, elems |-> longer, keys |-> old.keys]
    <3>1. [old EXCEPT !.elems = longer] = d /\ [d EXCEPT !.keys = Append(old.keys, key)] = e
      <4> HIDE DEF longer, old
      <4> QED BY <1>3
    <3>2. [nodes EXCEPT ![j].elems = longer] = [nodes EXCEPT ![j] = d]
      <4> HIDE DEF d
      <4> QED BY <3>1
    <3>3. [nodes EXCEPT ![j] = d][j] = d
      <4>1. j \in DOMAIN nodes
        BY <1>1, LenProperties
      <4> HIDE DEF d, j
      <4> QED BY <4>1
    <3>4. d.keys = old.keys
      OBVIOUS
    <3> HIDE DEF d, e
    <3>5. [[nodes EXCEPT ![j] = d] EXCEPT ![j].keys = Append(old.keys, key)] = [nodes EXCEPT ![j] = e]
      BY <3>1, <3>3, <3>4
    <3> QED BY <3>2, <3>5
  <2>3. key \in Strings
    BY <1>6 DEF FitsIn
  <2>4. Append(old.keys, key) \in Seq(Strings)
    BY <1>3, <2>3, AppendProperties
  <2>5. Takes(old, e, n)
    BY <1>1, <1>2, <2>4, Appended
  <2> QED BY <2>1, <2>2, <2>5
<1> QED BY <1>4, <1>5, <1>6

(* w is v with one more value in the place of nothing before.              *)
Extends(v, w) ==
    /\ w \in Seq(NodesOf(Len(v) + 1)) /\ Len(w) = Len(v) + 1
    /\ \A i \in 1..Len(v) : w[i].tag = v[i].tag

HoldersIn(v, i) == {j \in 1..Len(v) : \E k \in DOMAIN v[j].elems : v[j].elems[k] = i}
Tree(v) == \A i \in 1..Len(v) : HoldersIn(v, i) \subseteq 1..i - 1 /\ \A j, k \in HoldersIn(v, i) : j = k

(* A value just made has no elements.                                      *)
LEMMA ValueOf ==
    ASSUME NEW c \in Tags, NEW n \in Nat
    PROVE  Value(c) \in NodesOf(n) /\ Value(c).tag = c /\ DOMAIN Value(c).elems = {}
BY EmptySeq DEF Value, NodesOf

(* Taking a value in keeps the values a tree: the new one has one holder.  *)
LEMMA TreeGrows ==
    ASSUME NEW v, Len(v) \in Nat, v \in Seq(NodesOf(Len(v))), Tree(v),
           NEW j \in 1..Len(v), NEW e, Takes(v[j], e, Len(v)), NEW c \in Tags
    PROVE  LET w == Append([v EXCEPT ![j] = e], Value(c))
           IN  Extends(v, w) /\ Tree(w) /\ w[Len(v) + 1].tag = c
<1> DEFINE n == Len(v)
           u == [v EXCEPT ![j] = e]
           w == Append(u, Value(c))
<1>1. v \in Seq(NodesOf(n + 1)) /\ e \in NodesOf(n + 1) /\ Value(c) \in NodesOf(n + 1)
  BY NodesGrow, ValueOf DEF Takes
<1>2. /\ u \in Seq(NodesOf(n + 1)) /\ Len(u) = n
      /\ \A i \in 1..n : u[i] = IF i = j THEN e ELSE v[i]
  BY <1>1, ExceptSeq
<1> HIDE DEF u
<1>3. /\ w \in Seq(NodesOf(n + 1)) /\ Len(w) = n + 1 /\ w[n + 1] = Value(c)
      /\ \A i \in 1..n : w[i] = u[i]
  BY <1>1, <1>2, AppendProperties
<1> HIDE DEF w
<1>4. \A i \in 1..n : w[i] = IF i = j THEN e ELSE v[i]
  BY <1>2, <1>3
<1>5. Extends(v, w)
  BY <1>3, <1>4 DEF Extends, Takes
<1>6. \A i, h \in 1..n : h \in HoldersIn(w, i) => h \in HoldersIn(v, i)
  <2> SUFFICES ASSUME NEW i \in 1..n, NEW h \in 1..n, h \in HoldersIn(w, i)
               PROVE  h \in HoldersIn(v, i)
    OBVIOUS
  <2>1. PICK k \in DOMAIN w[h].elems : w[h].elems[k] = i
    BY DEF HoldersIn
  <2>2. CASE h # j
    BY <1>4, <2>1, <2>2 DEF HoldersIn
  <2>3. CASE h = j
    <3>1. w[h] = e
      BY <1>4, <2>3
    <3>2. i # n + 1
      OBVIOUS
    <3>3. \E m \in DOMAIN v[j].elems : e.elems[k] = v[j].elems[m]
      BY <2>1, <3>1, <3>2 DEF Takes
    <3> QED BY <2>1, <2>3, <3>1, <3>3 DEF HoldersIn
  <2> QED BY <2>2, <2>3
<1>7. \A i \in 1..n + 1 : n + 1 \notin HoldersIn(w, i)
  BY <1>3, ValueOf DEF HoldersIn
<1>8. \A i \in 1..n : HoldersIn(w, i) \subseteq HoldersIn(v, i)
  <2>1. \A i \in 1..n : HoldersIn(w, i) \subseteq 1..n + 1
    BY <1>3 DEF HoldersIn
  <2> QED BY <1>6, <1>7, <2>1
<1>9. HoldersIn(w, n + 1) \subseteq {j}
  <2> SUFFICES ASSUME NEW h \in HoldersIn(w, n + 1), h # j
               PROVE  FALSE
    OBVIOUS
  <2>1. h \in 1..n
    BY <1>3, <1>7 DEF HoldersIn
  <2>2. PICK k \in DOMAIN w[h].elems : w[h].elems[k] = n + 1
    BY DEF HoldersIn
  <2>3. w[h] = v[h] /\ v[h] \in NodesOf(n)
    BY <1>4, <2>1, ElementOfSeq
  <2>4. v[h].elems[k] \in 1..n
    BY SMTT(20), <2>2, <2>3 DEF NodesOf
  <2> QED BY <2>2, <2>3, <2>4
<1>10. Tree(w)
  <2> SUFFICES ASSUME NEW i \in 1..n + 1
               PROVE  HoldersIn(w, i) \subseteq 1..i - 1 /\ \A g, k \in HoldersIn(w, i) : g = k
    BY <1>3 DEF Tree
  <2>1. CASE i \in 1..n
    BY <1>8, <2>1 DEF Tree
  <2>2. CASE i = n + 1
    BY <1>9, <2>2
  <2> QED BY <2>1, <2>2
<1> QED BY <1>3, <1>5, <1>10, ValueOf DEF w, u

(* The outermost value, alone.                                             *)
LEMMA TreeStarts ==
    ASSUME NEW c \in Tags
    PROVE  LET w == Append(<<>>, Value(c))
           IN  w \in Seq(NodesOf(1)) /\ Len(w) = 1 /\ Tree(w) /\ w[1].tag = c
<1> DEFINE w == Append(<<>>, Value(c))
<1>1. Value(c) \in NodesOf(1) /\ Value(c).tag = c /\ DOMAIN Value(c).elems = {}
  BY ValueOf
<1>2. w \in Seq(NodesOf(1)) /\ Len(w) = 1 /\ w[1] = Value(c)
  BY <1>1, EmptySeq, AppendProperties
<1> HIDE DEF w
<1>3. \A i \in 1..Len(w) : HoldersIn(w, i) = {}
  BY <1>1, <1>2 DEF HoldersIn
<1>4. Tree(w)
  BY <1>3 DEF Tree
<1> QED BY <1>1, <1>2, <1>4 DEF w

-----------------------------------------------------------------------------
(* The stack stays as it is when there are more values, ...                *)
LEMMA FitsStays ==
    ASSUME NEW v, NEW w, Len(v) \in Nat, Extends(v, w), NEW s, NEW j, FitsIn(v, s, j)
    PROVE  FitsIn(w, s, j)
<1>1. \A m \in Nat : 1..m \subseteq 1..m + 1
  OBVIOUS
<1>2. Len(w) = Len(v) + 1 /\ j \in 1..Len(v)
  BY DEF FitsIn, Extends
<1>3. j \in 1..Len(w)
  BY <1>1, <1>2
<1>4. w[j].tag = v[j].tag
  BY <1>2 DEF Extends
<1> QED BY <1>3, <1>4 DEF FitsIn

(* ... all of its frames, ...                                              *)
LEMMA StackStays ==
    ASSUME NEW v, NEW w, NEW f, Len(v) \in Nat, f \in Seq(Frames(Len(v))),
           Extends(v, w), StackFits(v, f)
    PROVE  f \in Seq(Frames(Len(w))) /\ StackFits(w, f)
<1>1. f \in Seq(Frames(Len(w)))
  BY NodesGrow DEF Extends
<1>2. \A s, j : FitsIn(v, s, j) => FitsIn(w, s, j)
  BY FitsStays
<1> QED BY <1>1, <1>2 DEF StackFits

(* ... it takes a frame for a new container, ...                           *)
LEMMA StackPushed ==
    ASSUME NEW v, Len(v) \in Nat, NEW f \in Seq(Frames(Len(v))), StackFits(v, f), f # <<>>,
           NEW x \in Frames(Len(v)), x.tops \in Afters, FitsIn(v, x.tops, f[Len(f)].j)
    PROVE  LET g == Append(f, x)
           IN  /\ g \in Seq(Frames(Len(v))) /\ StackFits(v, g)
               /\ g # <<>> /\ g[1] = f[1] /\ g[Len(g)] = x
<1> DEFINE g == Append(f, x)
<1>1. /\ g \in Seq(Frames(Len(v))) /\ g # <<>> /\ Len(g) = Len(f) + 1
      /\ \A i \in 1..Len(f) : g[i] = f[i]
      /\ g[Len(f) + 1] = x
  BY AppendProperties
<1>2. Len(f) \in Nat /\ Len(f) >= 1
  BY EmptySeq
<1> HIDE DEF g
<1>3. g[1].tops = "done"
  BY <1>1, <1>2 DEF StackFits
<1>4. ASSUME NEW k \in 2..Len(g) PROVE g[k].tops \in Afters /\ FitsIn(v, g[k].tops, g[k - 1].j)
  <2>1. CASE k <= Len(f)
    BY SMTT(60), <1>1, <1>2, <2>1 DEF StackFits
  <2>2. CASE k = Len(f) + 1
    BY <1>1, <1>2, <2>2
  <2> QED BY <1>1, <1>2, <2>1, <2>2
<1>5. StackFits(v, g)
  BY <1>3, <1>4 DEF StackFits
<1>6. g[1] = f[1] /\ g[Len(g)] = x
  BY <1>1, <1>2
<1> QED BY <1>1, <1>5, <1>6 DEF g

(* ... and it may lose the frame on top.                                   *)
LEMMA StackPopped ==
    ASSUME NEW v, Len(v) \in Nat, NEW f \in Seq(Frames(Len(v))), StackFits(v, f), f # <<>>,
           v # <<>>, f[1].j = 1
    PROVE  /\ Front(f) \in Seq(Frames(Len(v))) /\ StackFits(v, Front(f))
           /\ StateFits(v, Front(f), Last(f).tops)
           /\ Last(f).tops = "done" => Last(f).j = 1
           /\ Last(f).tops \in Afters \cup {"done"} /\ Last(f).j \in 0..Len(v)
<1> DEFINE n == Len(f)
           g == Front(f)
<1>1. n \in Nat /\ n >= 1 /\ \A i \in 1..n : f[i] \in Frames(Len(v))
  BY EmptySeq, ElementOfSeq
<1>2. /\ g \in Seq(Frames(Len(v))) /\ Len(g) = n - 1
      /\ \A i \in 1..n - 1 : g[i] = f[i]
  <2>1. g = SubSeq(f, 1, n - 1)
    BY DEF Front
  <2>2. n - 1 \in Int /\ 1 \in Int /\ \A i \in 1..n - 1 : f[i] \in Frames(Len(v))
    BY <1>1
  <2> HIDE DEF g, n
  <2>3. /\ SubSeq(f, 1, n - 1) \in Seq(Frames(Len(v)))
        /\ Len(SubSeq(f, 1, n - 1)) = IF 1 <= n - 1 THEN n - 1 - 1 + 1 ELSE 0
        /\ \A i \in 1..n - 1 - 1 + 1 : SubSeq(f, 1, n - 1)[i] = f[1 + i - 1]
    BY <2>2, SubSeqProperties
  <2>4. Len(g) = n - 1
    BY <1>1, <2>1, <2>3
  <2>5. \A i \in 1..n - 1 : g[i] = f[i]
    BY <1>1, <2>1, <2>3
  <2> QED BY <2>1, <2>3, <2>4, <2>5
<1> HIDE DEF g
<1>3. Last(f) = f[n] /\ f[n].j \in 0..Len(v)
  BY <1>1 DEF Last, Frames
<1>4. StackFits(v, g)
  <2>1. g # <<>> => g[1] = f[1]
    BY <1>1, <1>2
  <2>2. \A k \in 2..n - 1 : g[k] = f[k] /\ g[k - 1] = f[k - 1]
    BY <1>1, <1>2
  <2> QED BY <1>1, <1>2, <2>1, <2>2 DEF StackFits
<1>5. CASE n = 1
  <2>1. f[n].tops = "done" /\ f[n].j = 1
    BY <1>5 DEF StackFits
  <2> QED BY <1>2, <1>3, <1>4, <2>1 DEF StateFits, ArrayStates, ObjectStates, g
<1>6. CASE n > 1
  <2>1. f[n].tops \in Afters /\ FitsIn(v, f[n].tops, f[n - 1].j)
    BY <1>1, <1>6 DEF StackFits
  <2>2. g # <<>> /\ g[1].j = 1 /\ g[Len(g)] = f[n - 1]
    BY <1>1, <1>2, <1>6, EmptySeq
  <2> QED BY <1>2, <1>3, <1>4, <2>1, <2>2 DEF StateFits, ArrayStates, ObjectStates, Afters, g
<1> HIDE DEF n
<1>7. n = 1 \/ n > 1
  BY <1>1
<1> QED BY <1>5, <1>6, <1>7

-----------------------------------------------------------------------------
(* What a step within the loop has to show.                                *)
LEMMA Keeps ==
    ASSUME PInv, force_eof' = force_eof, out' = out, outcome = "reading", outcome' = "reading",
           Len(nodes') \in Nat, Len(nodes') >= Len(nodes),
           nodes' \in Seq(NodesOf(Len(nodes'))), Tree(nodes'),
           sp' \in Seq(Frames(Len(nodes'))), StackFits(nodes', sp'), StateFits(nodes', sp', state'),
           state' \in States, result' \in 0..Len(nodes'), state' = "done" => result' = 1,
           key' \in Strings \cup {""}, state' \in {"object_colon", "object_value"} => key' \in Strings,
           seen' \in Seq(Tokens)
    PROVE  PInv'
<1>1. out' \in 0..Len(nodes') /\ force_eof' \in BOOLEAN
  <2>1. out \in NodeIds \cup {NULL} /\ force_eof \in BOOLEAN /\ Len(nodes) \in Nat
    BY Typing DEF PInv, TypeOK
  <2>2. out \in 0..Len(nodes)
    BY <2>1, WithNull DEF NodeIds, NULL
  <2>3. out \in 0..Len(nodes')
    BY <2>1, <2>2, LargerRange
  <2> QED BY <2>1, <2>3
<1>2. NodeIds' \cup {NULL} = 0..Len(nodes')
  BY WithNull DEF NodeIds, NULL
<1>3. sp' \in Seq([tops : States, j : NodeIds' \cup {NULL}])
  BY <1>2 DEF Frames
<1>4. nodes' \in Seq([tag : Scalars \cup {"[", "{"}, elems : Seq(NodeIds'), keys : Seq(Strings)])
  BY DEF NodesOf, NodeIds, Tags
<1>5. {result', out'} \subseteq NodeIds' \cup {NULL}
  BY <1>1, <1>2
<1>6. TypeOK'
  <2> HIDE DEF NodeIds, NULL
  <2> QED BY <1>1, <1>3, <1>4, <1>5 DEF TypeOK
<1>7. OutIsOutermost'
  BY DEF OutIsOutermost
<1>8. ElementsFormTree'
  <2>1. NodeIds' = 1..Len(nodes')
    BY DEF NodeIds
  <2>2. \A i : Holders(i)' = HoldersIn(nodes', i)
    BY <2>1 DEF Holders, HoldersIn
  <2> QED BY <2>1, <2>2 DEF ElementsFormTree, Tree
<1>9. StackFits(nodes, sp)' /\ StateFits(nodes, sp, state)'
  OBVIOUS
<1>10. Ends(state)' /\ Keyed'
  BY DEF Ends, Keyed
<1> QED BY <1>6, <1>7, <1>8, <1>9, <1>10 DEF PInv

(* What every step within the loop starts from.                            *)
LEMMA ReadsOn ==
    ASSUME PInv, NEW c, NEW s, Read(s, c)
    PROVE  /\ outcome = "reading" /\ outcome' = "reading" /\ out' = out /\ seen' \in Seq(Tokens)
           /\ c \in Tokens /\ state = s /\ sp # <<>>
           /\ Len(nodes) \in Nat /\ nodes \in Seq(NodesOf(Len(nodes))) /\ Tree(nodes)
           /\ sp \in Seq(Frames(Len(nodes))) /\ StackFits(nodes, sp) /\ StateFits(nodes, sp, s)
           /\ result \in 0..Len(nodes) /\ key \in Strings \cup {""}
<1>1. c \in Tokens /\ seen' = Append(seen, c) /\ seen \in Seq(Tokens)
  BY DEF Read, NextToken, PInv, TypeOK, Tokens
<1>2. seen' \in Seq(Tokens)
  BY <1>1, AppendProperties
<1>3. Tree(nodes)
  BY DEF PInv, ElementsFormTree, Holders, NodeIds, Tree, HoldersIn
<1>4. result \in 0..Len(nodes)
  BY Typing, WithNull DEF PInv, TypeOK, NodeIds, NULL
<1> QED BY <1>1, <1>2, <1>3, <1>4, Typing DEF PInv, TypeOK, Read, Looping

(* The ways in which a step goes on: to the error state, ...               *)
LEMMA Failing ==
    ASSUME PInv, NEW c, NEW s, Read(s, c), force_eof' = force_eof, NEW E, Fail(E, c)
    PROVE  PInv'
<1>1. state' = "error" /\ sp' = sp /\ result' = result /\ key' = key /\ nodes' = nodes
  BY DEF Fail, Goto
<1>2. StateFits(nodes, sp, "error") /\ "error" \in States
  BY DEF StateFits, ArrayStates, ObjectStates, States
<1>3. /\ outcome = "reading" /\ outcome' = "reading" /\ out' = out /\ seen' \in Seq(Tokens)
      /\ Len(nodes) \in Nat /\ nodes \in Seq(NodesOf(Len(nodes))) /\ Tree(nodes)
      /\ sp \in Seq(Frames(Len(nodes))) /\ StackFits(nodes, sp)
      /\ result \in 0..Len(nodes) /\ key \in Strings \cup {""}
  BY ReadsOn
<1>4. Len(nodes) >= Len(nodes)
  BY <1>3, Ranges
<1> QED BY <1>1, <1>2, <1>3, <1>4, Keeps

(* ... out of a container, ...                                             *)
LEMMA Returning ==
    ASSUME PInv, NEW c, NEW s \in ArrayStates \cup ObjectStates, Read(s, c), Return,
           force_eof' = force_eof, key' = key, nodes' = nodes
    PROVE  PInv'
<1>1. state' = Last(sp).tops /\ result' = Last(sp).j /\ sp' = Front(sp)
  BY DEF Return
<1>2. /\ outcome = "reading" /\ outcome' = "reading" /\ out' = out /\ seen' \in Seq(Tokens)
      /\ Len(nodes) \in Nat /\ nodes \in Seq(NodesOf(Len(nodes))) /\ Tree(nodes)
      /\ sp \in Seq(Frames(Len(nodes))) /\ StackFits(nodes, sp) /\ StateFits(nodes, sp, s)
      /\ sp # <<>> /\ key \in Strings \cup {""}
  BY ReadsOn
<1>3. sp[1].j = 1 /\ FitsIn(nodes, s, sp[Len(sp)].j)
  BY <1>2 DEF StateFits
<1>4. nodes # <<>>
  <2>1. Len(nodes) # 0
    <3>1. sp[Len(sp)].j \in 1..Len(nodes)
      BY <1>3 DEF FitsIn
    <3>2. \A i : i \notin 1..0
      OBVIOUS
    <3> QED BY <3>1, <3>2
  <2> QED BY <1>2, <2>1, EmptySeq
<1>5. /\ Front(sp) \in Seq(Frames(Len(nodes))) /\ StackFits(nodes, Front(sp))
      /\ StateFits(nodes, Front(sp), Last(sp).tops)
      /\ Last(sp).tops = "done" => Last(sp).j = 1
      /\ Last(sp).tops \in Afters \cup {"done"} /\ Last(sp).j \in 0..Len(nodes)
  BY <1>2, <1>3, <1>4, StackPopped
<1>6. state' \in States /\ state' \notin {"object_colon", "object_value"}
  BY <1>1, <1>5 DEF Afters, States
<1>7. Len(nodes) >= Len(nodes)
  BY <1>2, Ranges
<1> QED BY <1>1, <1>2, <1>5, <1>6, <1>7, Keeps

(* ... on in the container, ...                                            *)
LEMMA Going ==
    ASSUME PInv, NEW c, NEW s \in ArrayStates \cup ObjectStates, Read(s, c), force_eof' = force_eof,
           NEW t \in ArrayStates \cup ObjectStates, s \in ArrayStates <=> t \in ArrayStates, Goto(t),
           nodes' = nodes, key' \in Strings \cup {""},
           t \in {"object_colon", "object_value"} => key' \in Strings
    PROVE  PInv'
<1>1. state' = t /\ sp' = sp /\ result' = result
  BY DEF Goto
<1>2. /\ outcome = "reading" /\ outcome' = "reading" /\ out' = out /\ seen' \in Seq(Tokens)
      /\ Len(nodes) \in Nat /\ nodes \in Seq(NodesOf(Len(nodes))) /\ Tree(nodes)
      /\ sp \in Seq(Frames(Len(nodes))) /\ StackFits(nodes, sp) /\ StateFits(nodes, sp, s)
      /\ result \in 0..Len(nodes)
  BY ReadsOn
<1>3. t \in States /\ t # "done" /\ t # "value"
  BY DEF ArrayStates, ObjectStates, States
<1>4. StateFits(nodes, sp, t)
  BY <1>2, <1>3 DEF StateFits, FitsIn
<1>5. Len(nodes) >= Len(nodes)
  BY <1>2, Ranges
<1> QED BY <1>1, <1>2, <1>3, <1>4, <1>5, Keeps

(* ... or over or into its next element.                                   *)
LEMMA Entering ==
    ASSUME PInv, NEW c, NEW s \in ArrayStates \cup ObjectStates, Read(s, c), force_eof' = force_eof,
           s \in ObjectStates => key \in Strings,
           NEW after \in Afters, s \in ArrayStates <=> after \in ArrayStates, Element(c, after)
    PROVE  PInv'
<1> DEFINE n == Len(nodes)
           j == sp[Len(sp)].j
           w == Attached(Value(c))
<1>1. /\ outcome = "reading" /\ outcome' = "reading" /\ out' = out /\ seen' \in Seq(Tokens)
      /\ n \in Nat /\ nodes \in Seq(NodesOf(n)) /\ Tree(nodes)
      /\ sp \in Seq(Frames(n)) /\ StackFits(nodes, sp) /\ StateFits(nodes, sp, s)
      /\ sp # <<>> /\ result \in 0..n /\ key \in Strings \cup {""}
  BY ReadsOn
<1>2. c \in Tags /\ after \in ArrayStates \cup ObjectStates
  BY DEF Element, Opening, Tags, Afters, ArrayStates, ObjectStates
<1>3. FitsIn(nodes, s, j) /\ sp[1].j = 1 /\ FitsIn(nodes, after, j)
  BY <1>1 DEF StateFits, FitsIn
<1>4. PICK e : Takes(nodes[j], e, n) /\ w = Append([nodes EXCEPT ![j] = e], Value(c))
  BY <1>1, <1>2, <1>3, Attaches DEF PInv
<1>5. j \in 1..n
  BY <1>3 DEF FitsIn
<1>6. Extends(nodes, w) /\ Tree(w) /\ w[n + 1].tag = c
  <2> HIDE DEF w, j
  <2> QED BY ZenonT(40), <1>1, <1>2, <1>4, <1>5, TreeGrows
<1>7. nodes' = w /\ key' = key
  BY DEF Element
<1> HIDE DEF w
<1>8. Len(w) = n + 1 /\ Len(w) \in Nat /\ Len(w) >= n /\ w \in Seq(NodesOf(Len(w)))
  <2>1. Len(w) = n + 1 /\ w \in Seq(NodesOf(n + 1))
    BY <1>6 DEF Extends
  <2> HIDE DEF n
  <2> QED BY <1>1, <2>1, Ranges
<1>9. sp \in Seq(Frames(Len(w))) /\ StackFits(w, sp)
  BY <1>1, <1>6, StackStays
<1>10. FitsIn(w, after, j)
  BY <1>1, <1>3, <1>6, FitsStays
<1>11. result \in 0..Len(w)
  BY <1>1, <1>8, Ranges
<1>12. CASE c \in Scalars /\ Goto(after)
  <2>1. state' = after /\ sp' = sp /\ result' = result
    BY <1>12 DEF Goto
  <2>2. after \in States /\ after \notin {"value", "done", "object_colon", "object_value"}
    BY DEF Afters, States
  <2>3. StateFits(w, sp, after)
    BY <1>1, <1>3, <1>10, <2>2 DEF StateFits
  <2> QED BY <1>1, <1>6, <1>7, <1>8, <1>9, <1>11, <2>1, <2>2, <2>3, Keeps
<1>13. CASE c \in DOMAIN Opening /\ ~ (c \in Scalars /\ Goto(after))
  <2> DEFINE g == Append(sp, [tops |-> after, j |-> n + 1])
             t == Opening[c]
  <2>1. state' = t /\ sp' = g /\ result' = result
    BY <1>13 DEF Element
  <2>2. n + 1 \in 1..Len(w)
    <3> HIDE DEF n
    <3> QED BY <1>1, <1>8, Ranges
  <2>3. /\ g \in Seq(Frames(Len(w))) /\ StackFits(w, g)
        /\ g # <<>> /\ g[1] = sp[1] /\ g[Len(g)].j = n + 1
    <3> DEFINE x == [tops |-> after, j |-> n + 1]
    <3>1. x \in Frames(Len(w)) /\ x.tops = after /\ x.j = n + 1
      <4>1. n + 1 \in 0..Len(w)
        BY <2>2
      <4> QED BY <4>1 DEF Frames, States, Afters
    <3>2. sp # <<>> /\ FitsIn(w, after, sp[Len(sp)].j) /\ Len(w) \in Nat
      BY <1>1, <1>8, <1>10
    <3>3. g = Append(sp, x)
      OBVIOUS
    <3> HIDE DEF n, g, x
    <3> QED BY <1>9, <3>1, <3>2, <3>3, StackPushed
  <2>4. /\ t \in States /\ t \notin {"value", "done", "object_colon", "object_value"}
        /\ c = IF t \in ArrayStates THEN "[" ELSE "{"
    BY <1>13 DEF Opening, States, ArrayStates
  <2> HIDE DEF g, t
  <2>5. FitsIn(w, t, n + 1)
    BY <1>6, <2>2, <2>4 DEF FitsIn
  <2>6. StateFits(w, g, t)
    BY <1>3, <2>3, <2>4, <2>5 DEF StateFits
  <2> QED BY <1>1, <1>6, <1>7, <1>8, <1>11, <2>1, <2>3, <2>4, <2>6, Keeps
<1> QED BY <1>12, <1>13 DEF Element

(* The outermost value: a scalar, or a container to go into.               *)
LEMMA Starting ==
    ASSUME PInv, NEW c, force_eof' = force_eof, ReadValue(c)
    PROVE  PInv'
<1> DEFINE w == Append(<<>>, Value(c))
<1>1. Read("value", c)
  BY DEF ReadValue
<1>2. /\ outcome = "reading" /\ outcome' = "reading" /\ out' = out /\ seen' \in Seq(Tokens)
      /\ StackFits(nodes, sp) /\ StateFits(nodes, sp, "value") /\ sp # <<>>
      /\ sp \in Seq(Frames(Len(nodes))) /\ key \in Strings \cup {""}
  BY <1>1, ReadsOn
<1>3. nodes = <<>> /\ Len(nodes) = 0 /\ Len(sp) = 1
  BY <1>2 DEF StateFits
<1>4. sp[1] \in Frames(0) /\ sp[1].tops = "done"
  <2>1. 1 \in 1..Len(sp)
    BY <1>3
  <2>2. sp[1] \in Frames(Len(nodes))
    BY <1>2, <2>1, ElementOfSeq
  <2> QED BY <1>2, <1>3, <2>2 DEF StackFits
<1>5. ASSUME c \in Tags
      PROVE  /\ w \in Seq(NodesOf(1)) /\ Len(w) = 1 /\ Tree(w) /\ w[1].tag = c /\ w # <<>>
             /\ Len(w) \in Nat /\ Len(w) >= Len(nodes)
  <2>1. w \in Seq(NodesOf(1)) /\ Len(w) = 1 /\ Tree(w) /\ w[1].tag = c
    BY <1>5, TreeStarts
  <2>2. w # <<>>
    BY <2>1, EmptySeq
  <2> QED BY <1>3, <2>1, <2>2
<1> HIDE DEF w
<1>6. CASE Fail(Scalars \cup DOMAIN Opening, c)
  BY <1>1, <1>6, Failing
<1>7. CASE /\ c \in DOMAIN Opening /\ nodes' = Append(nodes, Value(c)) /\ state' = Opening[c]
           /\ sp' = [sp EXCEPT ![Len(sp)].j = Len(nodes) + 1] /\ UNCHANGED <<key, result>>
  <2> DEFINE x == [tops |-> "done", j |-> 1]
             t == Opening[c]
  <2>1. c \in Tags
    BY <1>7 DEF Tags, Opening
  <2>2. nodes' = w /\ key' = key /\ result' = result /\ state' = t
    BY <1>3, <1>7 DEF w
  <2>3. sp' = [sp EXCEPT ![1].j = 1]
    BY <1>3, <1>7
  <2>4. [sp[1] EXCEPT !.j = 1] = x
    BY <1>4 DEF Frames
  <2>5. sp' = [sp EXCEPT ![1] = x]
    BY <2>3, <2>4
  <2>6. x \in Frames(1) /\ x.tops = "done" /\ x.j = 1
    BY DEF Frames, States
  <2>7. sp \in Seq(Frames(1)) /\ 1 \in 1..Len(sp)
    <3>1. 0 \in Nat /\ 0 + 1 = 1
      OBVIOUS
    <3>2. Seq(Frames(0)) \subseteq Seq(Frames(0 + 1))
      BY <3>1, NodesGrow
    <3>3. sp \in Seq(Frames(0)) /\ 1 \in 1..Len(sp)
      <4>1. sp \in Seq(Frames(Len(nodes))) /\ Len(nodes) = 0
        BY <1>2, <1>3
      <4>2. 1 \in 1..1
        OBVIOUS
      <4> QED BY <1>3, <4>1, <4>2
    <3> QED BY <3>1, <3>2, <3>3
  <2> HIDE DEF x
  <2>8. /\ sp' \in Seq(Frames(1)) /\ Len(sp') = 1 /\ sp'[1] = x
    <3>1. /\ [sp EXCEPT ![1] = x] \in Seq(Frames(1)) /\ Len([sp EXCEPT ![1] = x]) = Len(sp)
          /\ [sp EXCEPT ![1] = x][1] = x
      BY <2>6, <2>7, ExceptSeq
    <3> QED BY <1>3, <2>5, <3>1
  <2>9. sp' # <<>>
    BY <2>8, EmptySeq
  <2>10. /\ t \in States /\ t \notin {"value", "done", "object_colon", "object_value"}
         /\ c = IF t \in ArrayStates THEN "[" ELSE "{"
    BY <1>7 DEF Opening, States, ArrayStates
  <2> HIDE DEF t
  <2>11. StackFits(w, sp')
    BY <2>6, <2>8 DEF StackFits
  <2>12. FitsIn(w, t, 1)
    <3>1. 1 \in 1..Len(w)
      BY <1>5, <2>1
    <3> QED BY <1>5, <2>1, <2>10, <3>1 DEF FitsIn
  <2>13. StateFits(w, sp', t)
    BY <2>6, <2>8, <2>9, <2>10, <2>12 DEF StateFits
  <2>14. result' \in 0..1
    <3>1. result' \in 0..0
      BY <1>1, <1>3, <2>2, ReadsOn
    <3> QED BY <3>1
  <2> QED BY <1>2, <1>5, <2>1, <2>2, <2>8, <2>10, <2>11, <2>13, <2>14, Keeps
<1>8. CASE /\ c \in Scalars /\ nodes' = Append(nodes, Value(c)) /\ state' = Last(sp).tops
           /\ result' = Len(nodes) + 1 /\ sp' = Front(sp) /\ UNCHANGED key
  <2>1. c \in Tags
    BY <1>8 DEF Tags
  <2>2. nodes' = w /\ result' = 1 /\ key' = key
    BY <1>3, <1>8 DEF w
  <2>3. Last(sp) = sp[1] /\ Front(sp) = <<>>
    <3>1. Last(sp) = sp[1] /\ Front(sp) = SubSeq(sp, 1, 0)
      BY <1>3 DEF Last, Front
    <3>2. SubSeq(sp, 1, 0) = <<>>
      BY SubSeqEmpty
    <3> QED BY <3>1, <3>2
  <2>4. state' = "done" /\ sp' = <<>>
    BY <1>4, <1>8, <2>3
  <2>5. StackFits(w, <<>>) /\ <<>> \in Seq(Frames(1)) /\ "done" \in States
    BY DEF StackFits, States
  <2>6. StateFits(w, <<>>, "done")
    BY <1>5, <2>1 DEF StateFits, ArrayStates, ObjectStates
  <2>7. 1 \in 0..1
    OBVIOUS
  <2> QED BY <1>2, <1>5, <2>1, <2>2, <2>4, <2>5, <2>6, <2>7, Keeps
<1> QED BY <1>6, <1>7, <1>8 DEF ReadValue

(* Every step within the loop, by the state the automaton is in.           *)
LEMMA Stepping ==
    ASSUME PInv, NEW c, force_eof' = force_eof, Step(c)
    PROVE  PInv'
<1>0. /\ "object_key_or_close" \in ObjectStates /\ "object_key_or_close" \notin ArrayStates
      /\ "object_colon" \in ObjectStates /\ "object_colon" \notin ArrayStates
      /\ "object_value" \in ObjectStates /\ "object_value" \notin ArrayStates
      /\ "object_close_or_comma" \in ObjectStates /\ "object_close_or_comma" \notin ArrayStates
      /\ "array_value_or_close" \in ArrayStates /\ "array_value_or_close" \notin ObjectStates
      /\ "array_close_or_comma" \in ArrayStates
      /\ "object_close_or_comma" \in Afters /\ "array_close_or_comma" \in Afters
  BY DEF ArrayStates, ObjectStates, Afters
<1>1. CASE ReadValue(c)
  BY <1>1, Starting
<1>2. CASE ReadKey(c)
  <2>1. Read("object_key_or_close", c)
    BY <1>2 DEF ReadKey
  <2>2. CASE Return /\ UNCHANGED <<key, nodes>>
    BY <2>1, <2>2, <1>0, Returning
  <2>3. CASE c \in Strings /\ key' = c /\ Goto("object_colon") /\ UNCHANGED nodes
    <3>1. key' \in Strings /\ nodes' = nodes
      BY <2>3
    <3> QED BY <1>0, <2>1, <2>3, <3>1, Going
  <2>4. CASE Fail(Strings \cup {"}"}, c)
    BY <2>1, <2>4, Failing
  <2> QED BY <1>2, <2>2, <2>3, <2>4 DEF ReadKey
<1>3. CASE ReadColon(c)
  <2>1. Read("object_colon", c) /\ key \in Strings
    BY <1>3 DEF ReadColon, Read, PInv, Keyed
  <2>2. CASE Goto("object_value") /\ UNCHANGED <<key, nodes>>
    <3>1. key' = key /\ nodes' = nodes
      BY <2>2
    <3> QED BY <1>0, <2>1, <2>2, <3>1, Going
  <2>3. CASE Fail({":"}, c)
    BY <2>1, <2>3, Failing
  <2> QED BY <1>3, <2>2, <2>3 DEF ReadColon
<1>4. CASE ReadMember(c)
  <2>1. Read("object_value", c) /\ key \in Strings
    BY <1>4 DEF ReadMember, Read, PInv, Keyed
  <2>2. CASE Element(c, "object_close_or_comma")
    BY <2>1, <2>2, <1>0, Entering
  <2>3. CASE Fail(Scalars \cup DOMAIN Opening, c)
    BY <2>1, <2>3, Failing
  <2> QED BY <1>4, <2>2, <2>3 DEF ReadMember
<1>5. CASE ReadObjectEnd(c)
  <2>1. Read("object_close_or_comma", c) /\ key \in Strings \cup {""}
    BY <1>5, ReadsOn DEF ReadObjectEnd
  <2>2. CASE Goto("object_key_or_close") /\ UNCHANGED <<key, nodes>>
    <3>1. key' = key /\ nodes' = nodes
      BY <2>2
    <3> QED BY <1>0, <2>1, <2>2, <3>1, Going
  <2>3. CASE Return /\ UNCHANGED <<key, nodes>>
    BY <2>1, <2>3, <1>0, Returning
  <2>4. CASE Fail({",", "}"}, c)
    BY <2>1, <2>4, Failing
  <2> QED BY <1>5, <2>2, <2>3, <2>4 DEF ReadObjectEnd
<1>6. CASE ReadElement(c)
  <2>1. Read("array_value_or_close", c)
    BY <1>6 DEF ReadElement
  <2>2. CASE Return /\ UNCHANGED <<key, nodes>>
    BY <2>1, <2>2, <1>0, Returning
  <2>3. CASE Element(c, "array_close_or_comma")
    BY <2>1, <2>3, <1>0, Entering
  <2>4. CASE Fail(Scalars \cup DOMAIN Opening \cup {"]"}, c)
    BY <2>1, <2>4, Failing
  <2> QED BY <1>6, <2>2, <2>3, <2>4 DEF ReadElement
<1>7. CASE ReadArrayEnd(c)
  <2>1. Read("array_close_or_comma", c) /\ key \in Strings \cup {""}
    BY <1>7, ReadsOn DEF ReadArrayEnd
  <2>2. CASE Return /\ UNCHANGED <<key, nodes>>
    BY <2>1, <2>2, <1>0, Returning
  <2>3. CASE Goto("array_value_or_close") /\ UNCHANGED <<key, nodes>>
    <3>1. key' = key /\ nodes' = nodes
      BY <2>3
    <3> QED BY <1>0, <2>1, <2>3, <3>1, Going
  <2>4. CASE Fail({"]", ","}, c)
    BY <2>1, <2>4, Failing
  <2> QED BY <1>7, <2>2, <2>3, <2>4 DEF ReadArrayEnd
<1> QED BY <1>1, <1>2, <1>3, <1>4, <1>5, <1>6, <1>7 DEF Step

(* Behind the loop only the outcome, the value returned and the tokens     *)
(* read change.                                                            *)
LEMMA Stays ==
    ASSUME PInv, force_eof' = force_eof, state' = state, sp' = sp, key' = key, result' = result,
           nodes' = nodes, seen' \in Seq(Tokens), outcome' \in {"reading", "ok", "einval"},
           out' \in NodeIds \cup {NULL}, outcome' = "ok" => out' = 1 /\ nodes # <<>>
    PROVE  PInv'
<1>1. TypeOK'
  BY DEF PInv, TypeOK, NodeIds
<1>2. OutIsOutermost'
  BY DEF OutIsOutermost
<1>3. ElementsFormTree'
  <2>1. NodeIds' = NodeIds
    BY DEF NodeIds
  <2>2. \A i : Holders(i)' = Holders(i)
    BY <2>1 DEF Holders
  <2> QED BY <2>1, <2>2 DEF PInv, ElementsFormTree
<1>4. (StackFits(nodes, sp) /\ StateFits(nodes, sp, state) /\ Ends(state) /\ Keyed)'
  BY DEF PInv, Ends, Keyed
<1> QED BY <1>1, <1>2, <1>3, <1>4 DEF PInv

(* Every step keeps the inductive invariant, ...                           *)
LEMMA NextKeeps ==
    ASSUME PInv, [Next]_vars
    PROVE  PInv'
<1>1. ASSUME NEW c \in Tokens, Step(c), force_eof' = force_eof PROVE PInv'
  BY <1>1, Stepping
<1>2. seen \in Seq(Tokens) /\ out \in NodeIds \cup {NULL} /\ result \in NodeIds \cup {NULL}
  BY DEF PInv, TypeOK
<1>3. ASSUME NEW c, NextToken(c) PROVE seen' \in Seq(Tokens)
  <2>1. c \in Tokens /\ seen' = Append(seen, c)
    BY <1>3 DEF NextToken, Tokens
  <2> QED BY <1>2, <2>1, AppendProperties
<1>4. ASSUME NEW c \in Tokens, RejectRest(c), force_eof' = force_eof PROVE PInv'
  BY <1>2, <1>3, <1>4, Stays DEF RejectRest
<1>5. ASSUME GiveUp, force_eof' = force_eof PROVE PInv'
  BY <1>2, <1>5, Stays DEF GiveUp
<1>6. ASSUME Accept, force_eof' = force_eof PROVE PInv'
  <2>1. seen' \in Seq(Tokens)
    BY <1>2, <1>3, <1>6 DEF Accept
  <2>2. result = 1 /\ nodes # <<>>
    BY <1>6 DEF Accept, PInv, Ends, StateFits
  <2> QED BY <1>2, <1>6, <2>1, <2>2, Stays DEF Accept
<1>7. ASSUME UNCHANGED vars PROVE PInv'
  <2>1. outcome = "ok" => out = 1 /\ nodes # <<>>
    BY DEF PInv, OutIsOutermost
  <2>2. outcome \in {"reading", "ok", "einval"}
    BY DEF PInv, TypeOK
  <2> QED BY <1>2, <1>7, <2>1, <2>2, Stays DEF vars
<1> QED BY <1>1, <1>4, <1>5, <1>6, <1>7 DEF Next

(* ... the call starts with it, ...                                        *)
LEMMA InitFits == Init => PInv
<1> SUFFICES ASSUME Init PROVE PInv
  OBVIOUS
<1> USE DEF Init
<1>1. Len(nodes) = 0 /\ NodeIds = {}
  <2>1. nodes = <<>>
    OBVIOUS
  <2> HIDE DEF Init
  <2>2. Len(nodes) = 0
    BY <2>1
  <2> QED BY <2>2 DEF NodeIds
<1>2. TypeOK
  <2> DEFINE x == [tops |-> "done", j |-> NULL]
             F == [tops : States, j : NodeIds \cup {NULL}]
  <2>1. x \in F /\ sp = <<x>>
    BY DEF States
  <2>2. sp \in Seq(F)
    <3> HIDE DEF Init, x, F
    <3> QED BY <2>1
  <2>3. <<>> \in Seq(Tokens)
        /\ <<>> \in Seq([tag : Scalars \cup {"[", "{"}, elems : Seq(NodeIds), keys : Seq(Strings)])
    BY EmptySeq
  <2> QED BY <2>2, <2>3 DEF TypeOK, States
<1>3. OutIsOutermost /\ ElementsFormTree
  BY <1>1 DEF OutIsOutermost, ElementsFormTree
<1>4. StackFits(nodes, sp) /\ StateFits(nodes, sp, state)
  <2> DEFINE x == [tops |-> "done", j |-> NULL]
  <2>1. sp = <<x>> /\ x.tops = "done" /\ state = "value" /\ nodes = <<>>
    OBVIOUS
  <2> HIDE DEF Init, x
  <2>2. Len(sp) = 1 /\ sp[1] = x
    BY <2>1
  <2>3. StackFits(nodes, sp)
    BY <2>1, <2>2 DEF StackFits
  <2>4. state \notin ArrayStates \cup ObjectStates /\ state # "done"
    BY <2>1 DEF ArrayStates, ObjectStates
  <2> QED BY <2>1, <2>2, <2>3, <2>4 DEF StateFits
<1>5. Ends(state) /\ Keyed
  BY DEF Ends, Keyed
<1> QED BY <1>2, <1>3, <1>4, <1>5 DEF PInv

(* ... and it says that the parser is safe.                                *)
LEMMA Fitting == PInv => ParserSafe
<1> SUFFICES ASSUME PInv, Looping PROVE TopFitsState
  BY DEF PInv, ParserSafe, TopFitsState
<1>1. state \in ArrayStates \cup ObjectStates => FitsIn(nodes, state, Last(sp).j)
  BY DEF PInv, StateFits, Last
<1>2. state \in ArrayStates \cup ObjectStates => Last(sp).j # NULL
  <2>1. 0 \notin 1..Len(nodes)
    BY Typing DEF PInv
  <2> QED BY <1>1, <2>1 DEF FitsIn, NULL
<1> QED BY <1>1, <1>2 DEF TopFitsState, FitsIn, ArrayStates, ObjectStates

(* For any set of strings, any capacity of the stack and texts of any      *)
(* length: cee_json_parsex works on a container of the kind its state is   *)
(* for, no value is in two containers or within itself, and the value      *)
(* returned is the outermost one.                                          *)
THEOREM ParserIsSafe == Spec => []ParserSafe
<1>1. PInv /\ [Next]_vars => PInv'
  BY NextKeeps
<1> QED BY InitFits, Fitting, <1>1, PTL DEF Spec

-----------------------------------------------------------------------------
(* Strings. *)
(* A block: it claims what lies behind its header, its text ends in that,  *)
(* and what was written passes it by less than the padding.                *)
Blocks ==
    {b \in [text : Seq(Chars), size : Nat, capacity : Nat, used : Nat] :
        /\ b.size = b.capacity + Header
        /\ b.used <= b.capacity + Slack
        /\ Len(b.text) <= b.capacity}

BlocksSound == blocks \in Seq(Blocks)

(* The blocks before a step are there behind it, and hold what they held.  *)
Kept == \A i \in DOMAIN blocks :
           blocks' # <<>> /\ (i < Len(blocks) \/ Len(blocks') # Len(blocks))
              => i \in DOMAIN blocks' /\ blocks'[i] = blocks[i]

-----------------------------------------------------------------------------
(* The operators.                                                          *)

(* A new block has room for what it was made for. *)
LEMMA RoundsUp ==
    ASSUME StrAssumption, NEW n \in Nat
    PROVE  RoundUp(n) \in Nat /\ RoundUp(n) > n
<1> DEFINE q == n \div Block
<1>1. q \in Nat /\ n % Block \in 0..Block - 1 /\ n = Block * q + (n % Block)
  BY DEF StrAssumption
<1>2. (q + 1) * Block = Block * q + Block
  BY <1>1 DEF StrAssumption
<1>3. RoundUp(n) = (q + 1) * Block /\ Block * q \in Nat
  BY <1>1 DEF RoundUp, StrAssumption
<1> HIDE DEF q
<1> QED
  BY <1>1, <1>2, <1>3 DEF StrAssumption

LEMMA FreshIsBlock ==
    ASSUME StrAssumption, NEW t \in Seq(Chars), NEW n \in Nat, NEW w \in Nat,
           Len(t) <= Room(n), w <= Room(n) + Slack
    PROVE  Fresh(t, n, w) \in Blocks /\ Fresh(t, n, w).text = t
<1>1. RoundUp(n + Header) \in Nat /\ RoundUp(n + Header) > n + Header /\ Header \in Nat
  <2>1. Header \in Nat /\ n + Header \in Nat
    BY DEF StrAssumption
  <2> QED
    BY <2>1, RoundsUp
<1>2. Room(n) \in Nat /\ RoundUp(n + Header) = Room(n) + Header
  BY <1>1 DEF Room
<1>3. Fresh(t, n, w) = [text |-> t, size |-> Room(n) + Header, capacity |-> Room(n), used |-> w]
  BY <1>1, <1>2 DEF Fresh
<1> QED
  BY <1>1, <1>2, <1>3 DEF Blocks

(* Room for n bytes is more than n. *)
LEMMA RoomEnough ==
    ASSUME StrAssumption, NEW n \in Nat
    PROVE  Room(n) \in Nat /\ Room(n) > n
<1>1. Header \in Nat /\ n + Header \in Nat
  BY DEF StrAssumption
<1> QED
  BY <1>1, RoundsUp DEF Room

(* Writing in a block, or in a larger one, changes its text and what was   *)
(* written of it.                                                          *)
LEMMA PutText ==
    ASSUME NEW s \in Seq(Chars), NEW t \in Seq(Chars), NEW at \in 0..Len(s)
    PROVE  /\ SubSeq(s, 1, at) \o t \in Seq(Chars)
           /\ Len(SubSeq(s, 1, at) \o t) = at + Len(t)
           /\ at = Len(s) => SubSeq(s, 1, at) = s
           /\ at = 0 => SubSeq(s, 1, at) \o t = t
<1>1. \A i \in 1..at : s[i] \in Chars
  OBVIOUS
<1>2. SubSeq(s, 1, at) \in Seq(Chars) /\ Len(SubSeq(s, 1, at)) = at
  BY <1>1, SubSeqProperties
<1> QED
  BY <1>2, ConcatProperties, ConcatEmptySeq, SubSeqFull, SubSeqEmpty

LEMMA PutIsBlock ==
    ASSUME StrAssumption, NEW b \in Blocks, NEW t \in Seq(Chars), NEW at \in 0..Len(b.text),
           at + Len(t) <= b.capacity
    PROVE  Put(b, at, t) \in Blocks /\ Put(b, at, t).text = SubSeq(b.text, 1, at) \o t
           /\ Put(b, at, t).capacity = b.capacity
<1> DEFINE u == SubSeq(b.text, 1, at) \o t
<1>1. u \in Seq(Chars) /\ Len(u) = at + Len(t)
  BY PutText DEF Blocks
<1>2. /\ b \in [text : Seq(Chars), size : Nat, capacity : Nat, used : Nat]
      /\ b.size = b.capacity + Header /\ b.used <= b.capacity + Slack
  BY DEF Blocks
<1> HIDE DEF u
<1>3. Put(b, at, t) = [text |-> u, size |-> b.size, capacity |-> b.capacity,
                       used |-> Larger(b.used, at + Len(t) + 1)]
  <2>1. Put(b, at, t) = [b EXCEPT !.text = u, !.used = Larger(b.used, at + Len(t) + 1)]
    <3>1. "text" \in DOMAIN b /\ "used" \in DOMAIN b
      BY <1>2
    <3> QED
      BY <3>1 DEF Put, u
  <2> QED
    BY <1>2, <2>1
<1>4. /\ Larger(b.used, at + Len(t) + 1) \in Nat
      /\ Larger(b.used, at + Len(t) + 1) <= b.capacity + Slack
  BY <1>1, <1>2 DEF Larger, StrAssumption
<1>5. Put(b, at, t) \in Blocks /\ Put(b, at, t).text = u /\ Put(b, at, t).capacity = b.capacity
  BY <1>1, <1>2, <1>3, <1>4 DEF Blocks
<1> QED
  BY <1>5 DEF u

LEMMA PutBehind ==
    ASSUME StrAssumption, NEW b \in Blocks, NEW t \in Seq(Chars), NEW n, n = Len(b.text),
           n + Len(t) <= b.capacity
    PROVE  /\ Put(b, n, t) \in Blocks /\ Put(b, n, t).text = b.text \o t
           /\ Put(b, n, t).capacity = b.capacity
<1>1. b.text \in Seq(Chars) /\ n \in 0..Len(b.text)
  BY DEF Blocks
<1>2. SubSeq(b.text, 1, n) = b.text
  BY <1>1, SubSeqFull
<1> QED
  BY <1>1, <1>2, PutIsBlock

LEMMA WrittenIsBlock ==
    ASSUME StrAssumption, NEW b \in Blocks, NEW w \in Nat, w <= b.capacity + Slack
    PROVE  LET c == [b EXCEPT !.used = Larger(@, w)] IN c \in Blocks /\ c.text = b.text
<1>1. [b EXCEPT !.used = Larger(@, w)]
        = [text |-> b.text, size |-> b.size, capacity |-> b.capacity, used |-> Larger(b.used, w)]
  BY DEF Blocks
<1>2. Larger(b.used, w) \in Nat /\ Larger(b.used, w) <= b.capacity + Slack
  BY DEF Larger, Blocks, StrAssumption
<1> QED
  BY <1>1, <1>2 DEF Blocks

(* A block that grows by enough for n bytes has room for them behind all   *)
(* it had room for.                                                        *)
LEMMA ResizedIsBlock ==
    ASSUME StrAssumption, NEW b \in Blocks, NEW n \in Nat
    PROVE  /\ Resized(b, n) \in Blocks /\ Resized(b, n).text = b.text
           /\ Resized(b, n).capacity >= b.capacity + n
           /\ Resized(b, n).capacity >= b.capacity + b.size
<1> DEFINE s == NewSize(b, n)
<1>1. /\ b.size \in Nat /\ b.capacity \in Nat /\ b.used \in Nat /\ Len(b.text) \in Nat
      /\ b.size = b.capacity + Header /\ Header \in Nat /\ Slack \in Nat
      /\ b.used <= b.capacity + Slack /\ Len(b.text) <= b.capacity
  BY DEF Blocks, StrAssumption
<1>2. s \in Nat /\ s >= b.size + b.size /\ s >= b.size + n
  BY SMTT(20), <1>1 DEF NewSize, Larger
<1>3. Resized(b, n) = [text |-> b.text, size |-> s, capacity |-> s - Header, used |-> b.used]
  <2> HIDE DEF s
  <2>1. Resized(b, n) = [b EXCEPT !.size = s, !.capacity = s - Header]
    BY DEF Resized, s
  <2> QED
    BY <2>1 DEF Blocks
<1> HIDE DEF s
<1>4. s - Header \in Nat /\ s = (s - Header) + Header /\ s - Header >= b.capacity
  BY SMTT(20), <1>1, <1>2
<1>5. Resized(b, n) \in [text : Seq(Chars), size : Nat, capacity : Nat, used : Nat]
  BY <1>2, <1>3, <1>4 DEF Blocks
<1>6. /\ Resized(b, n).text = b.text /\ Resized(b, n).used = b.used
      /\ Resized(b, n).size = s /\ Resized(b, n).capacity = s - Header
  BY <1>3
<1>7. /\ s = (s - Header) + Header /\ b.used <= (s - Header) + Slack
      /\ Len(b.text) <= s - Header /\ s - Header >= b.capacity + n /\ s - Header >= b.capacity + b.size
  <2> DEFINE c == b.capacity  z == b.size  u == b.used  l == Len(b.text)
  <2>1. /\ c \in Nat /\ z \in Nat /\ u \in Nat /\ l \in Nat /\ Header \in Nat /\ Slack \in Nat
        /\ z = c + Header /\ u <= c + Slack /\ l <= c /\ s \in Nat /\ s >= z + z /\ s >= z + n
    BY <1>1, <1>2
  <2> HIDE DEF c, z, u, l
  <2>2. /\ s = (s - Header) + Header /\ u <= (s - Header) + Slack
        /\ l <= s - Header /\ s - Header >= c + n /\ s - Header >= c + z
    BY <2>1
  <2> QED
    BY <2>2 DEF c, z, u, l
<1>8. Resized(b, n) \in Blocks
  BY <1>5, <1>6, <1>7 DEF Blocks
<1> QED
  BY <1>6, <1>7, <1>8

-----------------------------------------------------------------------------
(* The steps on blocks.                                                    *)

(* A string that is made has a last block, and that is sound. *)
LEMMA LastBlock ==
    ASSUME BlocksSound, Made
    PROVE  /\ Len(blocks) \in Nat \ {0} /\ This = blocks[Len(blocks)]
           /\ This \in Blocks /\ Content = This.text /\ This.text \in Seq(Chars)
BY DEF BlocksSound, Made, This, Last, Content, Blocks

LEMMA PlacedBlock ==
    ASSUME BlocksSound, Made, NEW b \in Blocks, InPlace(b)
    PROVE  BlocksSound' /\ Kept /\ Content' = b.text
<1>1. Len(blocks) \in Nat \ {0} /\ blocks' = [blocks EXCEPT ![Len(blocks)] = b]
  BY LastBlock DEF InPlace
<1>2. /\ blocks' \in Seq(Blocks) /\ Len(blocks') = Len(blocks) /\ blocks'[Len(blocks)] = b
      /\ \A i \in 1..Len(blocks) : i # Len(blocks) => blocks'[i] = blocks[i]
  BY <1>1 DEF BlocksSound
<1>3. BlocksSound' /\ Kept
  BY <1>2 DEF BlocksSound, Kept
<1>4. Made' /\ This' = b
  BY <1>1, <1>2 DEF Made, This, Last
<1> QED
  BY <1>3, <1>4 DEF Content

LEMMA MovedBlock ==
    ASSUME BlocksSound, Made, NEW b \in Blocks, Moved(b)
    PROVE  BlocksSound' /\ Kept /\ Content' = b.text
<1>1. Len(blocks) \in Nat \ {0} /\ blocks' = Append(blocks, b)
  BY LastBlock DEF Moved
<1>2. /\ blocks' \in Seq(Blocks) /\ Len(blocks') = Len(blocks) + 1 /\ blocks'[Len(blocks) + 1] = b
      /\ \A i \in 1..Len(blocks) : blocks'[i] = blocks[i]
  BY <1>1 DEF BlocksSound
<1>3. BlocksSound' /\ Kept
  BY <1>2 DEF BlocksSound, Kept
<1>4. Made' /\ This' = b
  BY <1>1, <1>2 DEF Made, This, Last
<1> QED
  BY <1>3, <1>4 DEF Content

LEMMA FirstBlock ==
    ASSUME ~ Made, NEW b \in Blocks, blocks' = <<b>>
    PROVE  BlocksSound' /\ Kept /\ Content' = b.text /\ Content = <<>>
<1>1. /\ blocks' \in Seq(Blocks) /\ Len(blocks') = 1 /\ blocks'[1] = b /\ blocks' # <<>>
      /\ blocks = <<>>
  BY DEF Made
<1>2. This' = b /\ Made'
  BY <1>1 DEF This, Last, Made
<1> QED
  BY <1>1, <1>2 DEF BlocksSound, Kept, Content, Made

-----------------------------------------------------------------------------
(* Trimming.                                                               *)

LEMMA MaxIsLargest ==
    ASSUME NEW n \in Nat, NEW S \in SUBSET (0..n), S # {}
    PROVE  Max(S) \in S /\ \A x \in S : x <= Max(S)
<1> DEFINE D == {d \in 0..n : \E x \in S : d = n - x}
<1>1. D \subseteq Nat /\ D # {}
  <2>1. PICK x \in S : TRUE
    OBVIOUS
  <2>2. n - x \in D
    BY <2>1
  <2>3. D \subseteq Nat
    OBVIOUS
  <2> HIDE DEF D
  <2> QED
    BY <2>2, <2>3
<1>2. PICK d \in D : \A y \in D : ~ (<<y, d>> \in OpToRel(<, Nat))
  BY <1>1, NatLessThanWellFounded, WFMin
<1>3. \A y \in D : d <= y
  <2>1. \A y \in D : ~ (y < d)
    BY <1>1, <1>2 DEF OpToRel
  <2> QED
    BY <1>1, <2>1
<1>4. PICK m \in S : d = n - m
  BY <1>2
<1>5. \A x \in S : x <= m
  <2>1. \A x \in S : n - x \in D
    OBVIOUS
  <2> HIDE DEF D
  <2> QED
    BY <1>3, <1>4, <2>1
<1> QED
  BY <1>4, <1>5 DEF Max

(* Trimming the end keeps a first part of the text and drops white space,  *)
(* all of it unless only the first character is left.                      *)
LEMMA RTrims ==
    ASSUME NEW t \in Seq(Chars)
    PROVE  \E m \in 0..Len(t) :
              /\ RTrimmed(t) = SubSeq(t, 1, m)
              /\ \A i \in m + 1..Len(t) : t[i] \in Spaces
              /\ m > 1 => t[m] \notin Spaces
<1> DEFINE S == {0} \cup {i \in DOMAIN t : i = 1 \/ t[i] \notin Spaces}
<1>1. S \in SUBSET (0..Len(t)) /\ S # {} /\ Len(t) \in Nat
  OBVIOUS
<1> DEFINE m == Max(S)
<1>2. m \in S /\ \A x \in S : x <= m
  BY <1>1, MaxIsLargest
<1> HIDE DEF m
<1>3. /\ m \in 0..Len(t)
      /\ \A i \in m + 1..Len(t) : t[i] \in Spaces
      /\ m > 1 => t[m] \notin Spaces
  BY <1>1, <1>2
<1> QED
  BY <1>3 DEF RTrimmed, m

(* Trimming the start keeps a last part, and one space before it.          *)
LEMMA LTrims ==
    ASSUME NEW t \in Seq(Chars)
    PROVE  \E m \in 1..Len(t) + 1 :
              /\ LTrimmed(t) = SubSeq(t, m, Len(t)) /\ (m <= Len(t) \/ t = <<>>)
              /\ \A i \in 1..m - 1 : t[i] \in Spaces
              /\ m < Len(t) => t[m] \notin Spaces \/ t[m + 1] \notin Spaces
<1> DEFINE S == {1} \cup Leading(t)
<1>1. S \in SUBSET (0..Len(t) + 1) /\ S # {} /\ Len(t) + 1 \in Nat
  BY DEF Leading
<1> DEFINE m == Max(S)
<1>2. m \in S /\ \A x \in S : x <= m
  BY <1>1, MaxIsLargest
<1> HIDE DEF m
<1>3. /\ m \in 1..Len(t) + 1 /\ (m <= Len(t) \/ t = <<>>)
      /\ \A i \in 1..m - 1 : t[i] \in Spaces
  BY <1>1, <1>2 DEF Leading
<1>4. ASSUME m < Len(t), t[m] \in Spaces, t[m + 1] \in Spaces PROVE FALSE
  <2>1. \A j \in 1..m + 1 : t[j] \in Spaces
    BY <1>3, <1>4
  <2>2. m + 1 \in S
    BY <1>3, <1>4, <2>1 DEF Leading
  <2> QED
    BY <1>2, <1>3, <2>2
<1> QED
  BY <1>3, <1>4 DEF LTrimmed, m

(* The parts that trimming keeps, as TextBuffer sees them. *)
LEMMA FirstPart ==
    ASSUME NEW t \in Seq(Chars), NEW m \in 0..Len(t), \A i \in m + 1..Len(t) : t[i] \in Spaces
    PROVE  LET u == SubSeq(t, 1, m)
           IN  /\ u \in Seq(Chars) /\ Len(u) = m /\ Buffer!IsPrefix(u, t)
               /\ Buffer!White(SubSeq(t, Len(u) + 1, Len(t)))
               /\ m > 0 => Buffer!Last(u) = t[m]
<1> DEFINE u == SubSeq(t, 1, m)
<1>1. u \in Seq(Chars) /\ Len(u) = m /\ \A i \in 1..m : u[i] = t[i]
  <2>1. \A i \in 1..m : t[i] \in Chars
    OBVIOUS
  <2> QED
    BY <2>1, SubSeqProperties
<1>2. SubSeq(u, 1, Len(u)) = u
  BY <1>1, SubSeqFull
<1>3. Len(SubSeq(t, m + 1, Len(t))) = Len(t) - m
      /\ \A i \in 1..Len(t) - m : SubSeq(t, m + 1, Len(t))[i] = t[m + i]
  <2>1. \A i \in m + 1..Len(t) : t[i] \in Chars
    OBVIOUS
  <2> QED
    BY <2>1, SubSeqProperties
<1>4. SubSeq(t, m + 1, Len(t)) \in Seq(Chars)
  <2>1. \A i \in m + 1..Len(t) : t[i] \in Chars
    OBVIOUS
  <2> QED
    BY <2>1, SubSeqProperties
<1> HIDE DEF u
<1>5. Buffer!White(SubSeq(t, m + 1, Len(t)))
  <2> DEFINE r == SubSeq(t, m + 1, Len(t))
  <2>1. DOMAIN r = 1..Len(t) - m /\ \A i \in 1..Len(t) - m : r[i] \in Spaces
    BY <1>3, <1>4
  <2> HIDE DEF r
  <2>2. Buffer!White(r)
    BY <2>1 DEF Buffer!White, Buffer!Range
  <2> QED
    BY <2>2 DEF r
<1>6. Buffer!IsPrefix(u, t)
  BY <1>1, <1>2 DEF Buffer!IsPrefix, u
<1>7. m > 0 => Buffer!Last(u) = t[m]
  BY <1>1 DEF Buffer!Last
<1> QED
  BY <1>1, <1>5, <1>6, <1>7 DEF u

LEMMA ReversedText ==
    ASSUME NEW t \in Seq(Chars)
    PROVE  /\ Buffer!Reverse(t) \in Seq(Chars) /\ Len(Buffer!Reverse(t)) = Len(t)
           /\ \A i \in 1..Len(t) : Buffer!Reverse(t)[i] = t[Len(t) - i + 1]
<1>1. Buffer!Reverse(t) = [i \in 1..Len(t) |-> t[(Len(t) - i) + 1]]
  BY DEF Buffer!Reverse
<1>2. \A i \in 1..Len(t) : t[(Len(t) - i) + 1] \in Chars
  OBVIOUS
<1> QED
  BY <1>1, <1>2

LEMMA LastPart ==
    ASSUME NEW t \in Seq(Chars), NEW m \in 1..Len(t) + 1, m <= Len(t) \/ t = <<>>,
           \A i \in 1..m - 1 : t[i] \in Spaces,
           m < Len(t) => t[m] \notin Spaces \/ t[m + 1] \notin Spaces
    PROVE  LET u == SubSeq(t, m, Len(t))
           IN  /\ u \in Seq(Chars) /\ Len(u) <= Len(t) /\ Buffer!IsSuffix(u, t)
               /\ Buffer!White(SubSeq(t, 1, Len(t) - Len(u)))
               /\ Len(u) > 1 => ~ Buffer!White(SubSeq(u, 1, 2))
<1> DEFINE n == Len(t)
           u == SubSeq(t, m, n)
<1>1. u \in Seq(Chars) /\ Len(u) = n - m + 1 /\ \A i \in 1..n - m + 1 : u[i] = t[m + i - 1]
  <2>1. \A i \in m..n : t[i] \in Chars
    OBVIOUS
  <2> QED
    BY <2>1, SubSeqProperties
<1>2. n \in Nat /\ Len(u) <= n /\ n - Len(u) = m - 1
  BY <1>1
<1> HIDE DEF u
<1>3. Buffer!White(SubSeq(t, 1, m - 1))
  <2> DEFINE r == SubSeq(t, 1, m - 1)
  <2>1. \A i \in 1..m - 1 : t[i] \in Chars
    OBVIOUS
  <2>2. r \in Seq(Chars) /\ Len(r) = m - 1 /\ \A i \in 1..m - 1 : r[i] = t[i]
    BY <2>1, SubSeqProperties
  <2>3. DOMAIN r = 1..m - 1 /\ \A i \in 1..m - 1 : r[i] \in Spaces
    BY <2>2
  <2> HIDE DEF r
  <2>4. Buffer!White(r)
    BY <2>3 DEF Buffer!White, Buffer!Range
  <2> QED
    BY <2>4 DEF r
<1>4. ASSUME Len(u) > 1 PROVE ~ Buffer!White(SubSeq(u, 1, 2))
  <2> DEFINE r == SubSeq(u, 1, 2)
  <2>1. \A i \in 1..2 : u[i] \in Chars
    BY <1>1, <1>4
  <2>2. r \in Seq(Chars) /\ Len(r) = 2 /\ r[1] = u[1] /\ r[2] = u[2]
    BY <2>1, SubSeqProperties
  <2>3. u[1] = t[m] /\ u[2] = t[m + 1] /\ m < n
    BY <1>1, <1>4
  <2>4. {1, 2} \subseteq DOMAIN r /\ (r[1] \notin Spaces \/ r[2] \notin Spaces)
    BY <2>2, <2>3
  <2> HIDE DEF r
  <2>5. ~ Buffer!White(r)
    BY <2>4 DEF Buffer!White, Buffer!Range
  <2> QED
    BY <2>5 DEF r
<1>5. Buffer!IsSuffix(u, t)
  <2> DEFINE v == Buffer!Reverse(u)
             w == Buffer!Reverse(t)
  <2>1. /\ v \in Seq(Chars) /\ Len(v) = Len(u) /\ w \in Seq(Chars) /\ Len(w) = n
        /\ \A i \in 1..Len(u) : v[i] = u[Len(u) - i + 1]
        /\ \A i \in 1..n : w[i] = t[n - i + 1]
    BY <1>1, ReversedText
  <2> HIDE DEF v, w
  <2>2. \A i \in 1..Len(u) : v[i] = w[i]
    <3>1. ASSUME NEW i \in 1..Len(u) PROVE v[i] = w[i]
      <4>1. Len(u) - i + 1 \in 1..n - m + 1 /\ m + (Len(u) - i + 1) - 1 = n - i + 1 /\ i \in 1..n
        BY <1>1, <1>2
      <4> QED
        BY SMTT(20), <1>1, <2>1, <4>1
    <3> QED
      BY <3>1
  <2>3. SubSeq(v, 1, Len(v)) = v
    BY <2>1, SubSeqFull
  <2>4. SubSeq(w, 1, Len(v)) \in Seq(Chars) /\ Len(SubSeq(w, 1, Len(v))) = Len(v)
        /\ \A i \in 1..Len(v) : SubSeq(w, 1, Len(v))[i] = w[i]
    <3>1. \A i \in 1..Len(v) : w[i] \in Chars
      BY <1>2, <2>1
    <3> QED
      BY <1>1, <2>1, <3>1, SubSeqProperties
  <2>5. SubSeq(v, 1, Len(v)) = SubSeq(w, 1, Len(v))
    <3> DEFINE x == SubSeq(w, 1, Len(v))
    <3>1. x \in Seq(Chars) /\ Len(x) = Len(v) /\ \A i \in 1..Len(v) : v[i] = x[i]
      BY <2>1, <2>2, <2>4
    <3> HIDE DEF x
    <3>2. v = x
      BY <2>1, <3>1, SeqEqual
    <3> QED
      BY <2>3, <3>2 DEF x
  <2> QED
    BY <1>2, <2>1, <2>5 DEF Buffer!IsSuffix, Buffer!IsPrefix, v, w
<1> QED
  BY <1>1, <1>2, <1>3, <1>4, <1>5 DEF u

-----------------------------------------------------------------------------
(* The calls.                                                              *)

(* What a step keeps: the blocks sound, those before in place, and the     *)
(* text changed as TextBuffer says.                                        *)
Fits == BlocksSound' /\ Kept /\ [Buffer!Next]_Content

LEMMA MkFits ==
    ASSUME StrAssumption, MemoryEnds, NEW t \in Inputs, Mk(t)
    PROVE  Fits
<1>1. PICK u \in {t} \cup Reread : ~ Made /\ blocks' = <<Fresh(u, Len(t) + 1, Len(u) + 1)>>
  BY DEF Mk
<1>2. t \in Seq(Chars) /\ u \in Seq(Chars) /\ Len(t) + 1 \in Nat /\ Len(u) \in Nat
  BY DEF StrAssumption
<1>3. Room(Len(t) + 1) \in Nat /\ Len(t) <= Room(Len(t) + 1)
  BY <1>2, RoomEnough
<1>4. Len(u) <= Room(Len(t) + 1) /\ Len(u) + 1 <= Room(Len(t) + 1) + Slack
  BY <1>2, <1>3 DEF MemoryEnds, StrAssumption
<1>5. Fresh(u, Len(t) + 1, Len(u) + 1) \in Blocks /\ Fresh(u, Len(t) + 1, Len(u) + 1).text = u
  BY <1>2, <1>4, FreshIsBlock
<1>6. BlocksSound' /\ Kept /\ Content' = u /\ Content = <<>>
  BY <1>1, <1>5, FirstBlock
<1>7. Buffer!Replace \/ Buffer!Begin
  <2>1. CASE u = t
    BY <1>6, <2>1 DEF Buffer!Replace
  <2>2. CASE u \in Reread
    BY <1>6, <2>2 DEF Buffer!Begin
  <2> QED
    BY <2>1, <2>2
<1> QED
  BY <1>6, <1>7 DEF Fits, Buffer!Next

LEMMA MkFormatFits ==
    ASSUME StrAssumption, NEW t \in Inputs, MkFormat(t)
    PROVE  Fits
<1>1. t \in Seq(Chars) /\ Len(t) + 1 \in Nat /\ Len(t) \in Nat
  BY DEF StrAssumption
<1>2. Room(Len(t) + 1) \in Nat /\ Len(t) + 1 <= Room(Len(t) + 1) /\ Slack \in Nat
  BY <1>1, RoomEnough DEF StrAssumption
<1>3. Fresh(t, Len(t) + 1, Len(t) + 1) \in Blocks /\ Fresh(t, Len(t) + 1, Len(t) + 1).text = t
  BY <1>1, <1>2, FreshIsBlock
<1>4. BlocksSound' /\ Kept /\ Content' = t /\ Content = <<>>
  BY <1>3, FirstBlock DEF MkFormat
<1> QED
  BY <1>4 DEF Fits, Buffer!Next, Buffer!Replace

LEMMA MkRoomFits ==
    ASSUME StrAssumption, NEW n \in Nat, MkRoom(n)
    PROVE  Fits
<1>1. <<>> \in Seq(Chars) /\ Len(<<>>) = 0
  OBVIOUS
<1>2. Room(n) \in Nat /\ 1 <= Room(n) + Slack
  BY RoomEnough DEF StrAssumption
<1>3. Fresh(<<>>, n, 1) \in Blocks /\ Fresh(<<>>, n, 1).text = <<>>
  <2>1. Len(<<>>) <= Room(n) /\ 1 \in Nat
    BY <1>1, <1>2
  <2> QED
    BY <1>1, <1>2, <2>1, FreshIsBlock
<1>4. BlocksSound' /\ Kept /\ Content' = <<>>
  BY <1>3, FirstBlock DEF MkRoom
<1> QED
  BY <1>4 DEF Fits, Buffer!Next

LEMMA StrnFits ==
    ASSUME StrAssumption, MemoryEnds, NEW t \in Inputs, Strn(t)
    PROVE  Fits
<1>1. PICK g \in Garbage : ~ Made /\ blocks' = <<Fresh(t \o g, Len(t) + 1, Len(t))>>
  BY DEF Strn
<1> DEFINE u == t \o g
<1>2. /\ t \in Seq(Chars) /\ u \in Seq(Chars) /\ Len(t) + 1 \in Nat /\ Len(t) \in Nat
      /\ Len(u) <= Room(Len(t) + 1)
  <2>1. t \in Seq(Chars) /\ g \in Seq(Chars)
    BY DEF StrAssumption
  <2>2. u \in Seq(Chars)
    BY <2>1
  <2>3. Len(u) <= Room(Len(t) + 1)
    BY DEF MemoryEnds
  <2> QED
    BY <2>1, <2>2, <2>3
<1> HIDE DEF u
<1>3. Room(Len(t) + 1) \in Nat /\ Len(t) <= Room(Len(t) + 1) + Slack
  BY SMTT(20), <1>2, RoomEnough DEF StrAssumption
<1>4. Fresh(u, Len(t) + 1, Len(t)) \in Blocks /\ Fresh(u, Len(t) + 1, Len(t)).text = u
  BY <1>2, <1>3, FreshIsBlock
<1>5. BlocksSound' /\ Kept /\ Content' = t \o g /\ Content = <<>>
  BY <1>1, <1>4, FirstBlock DEF u
<1> QED
  BY <1>5 DEF Fits, Buffer!Next, Buffer!Begin

LEMMA AddFits ==
    ASSUME StrAssumption, BlocksSound, Made, NEW c \in Chars \cup {NUL}, Add(c)
    PROVE  Fits
<1> DEFINE n == Len(This.text)
           t == IF c = NUL THEN <<>> ELSE <<c>>
<1>1. /\ This \in Blocks /\ Content = This.text /\ This.text \in Seq(Chars) /\ n \in Nat
      /\ This.capacity \in Nat /\ This.size \in Nat \ {0, 1} /\ n <= This.capacity
  BY LastBlock DEF Blocks, StrAssumption
<1>2. t \in Seq(Chars) /\ Len(t) <= 1 /\ (t = <<>> \/ (t = <<c>> /\ c \in Chars))
  <2>1. CASE c = NUL
    BY <2>1
  <2>2. CASE c # NUL
    <3>1. c \in Chars
      BY <2>2
    <3>2. t = <<c>>
      BY <2>2
    <3> HIDE DEF t
    <3> QED
      BY <3>1, <3>2
  <2> QED
    BY <2>1, <2>2
<1> HIDE DEF t
<1>3. Content \o t = Content \/ (c \in Chars /\ Content \o t = Content \o <<c>>)
  BY <1>1, <1>2, ConcatEmptySeq
<1>4. ASSUME BlocksSound', Kept, Content' = This.text \o t PROVE Fits
  <2>1. Content' = Content \/ Buffer!Grow
    BY <1>1, <1>3, <1>4 DEF Buffer!Grow
  <2> QED
    BY <1>4, <2>1 DEF Fits, Buffer!Next
<1>5. CASE n < This.capacity
  <2> DEFINE p == Put(This, n, t)
  <2>1. p \in Blocks /\ p.text = This.text \o t /\ p.capacity = This.capacity
    <3>1. n + Len(t) <= This.capacity
      BY <1>1, <1>2, <1>5
    <3> QED
      BY <1>1, <1>2, <3>1, PutBehind
  <2>2. n + 2 <= p.capacity + Slack /\ n + 2 \in Nat
    BY <1>1, <1>5, <2>1 DEF StrAssumption
  <2>3. InPlace([p EXCEPT !.used = Larger(@, n + 2)])
    BY <1>5 DEF Add, t
  <2> HIDE DEF p
  <2>4. LET q == [p EXCEPT !.used = Larger(@, n + 2)] IN q \in Blocks /\ q.text = p.text
    BY <2>1, <2>2, WrittenIsBlock
  <2>5. BlocksSound' /\ Kept /\ Content' = p.text
    BY <2>3, <2>4, PlacedBlock
  <2> QED
    BY <1>4, <2>1, <2>5
<1>6. CASE ~ (n < This.capacity)
  <2> DEFINE r == Resized(This, Block)
             p == Put(r, This.capacity, t)
             k == This.capacity + 2
  <2>1. n = This.capacity
    BY <1>1, <1>6
  <2>2. r \in Blocks /\ r.text = This.text /\ r.capacity >= This.capacity + This.size
    BY <1>1, ResizedIsBlock DEF StrAssumption
  <2>3. Moved([p EXCEPT !.used = Larger(@, k)])
    BY <1>6 DEF Add, t
  <2> HIDE DEF r
  <2>4. p \in Blocks /\ p.text = This.text \o t /\ p.capacity = r.capacity
    <3>1. This.capacity + Len(t) <= r.capacity
      BY <1>1, <1>2, <2>2 DEF Blocks
    <3>2. This.capacity = Len(r.text) /\ r.text = This.text
      BY <2>1, <2>2
    <3> QED
      BY <1>2, <2>2, <3>1, <3>2, PutBehind
  <2> HIDE DEF p
  <2>5. k <= p.capacity + Slack /\ k \in Nat
    <3>1. r.capacity \in Nat /\ This.capacity + 2 <= r.capacity /\ Slack \in Nat
      BY SMTT(20), <1>1, <2>2 DEF StrAssumption, Blocks
    <3> QED
      BY <1>1, <2>4, <3>1
  <2> HIDE DEF k
  <2>6. LET q == [p EXCEPT !.used = Larger(@, k)] IN q \in Blocks /\ q.text = p.text
    BY <2>4, <2>5, WrittenIsBlock
  <2>7. BlocksSound' /\ Kept /\ Content' = p.text
    BY <2>3, <2>6, MovedBlock
  <2> QED
    BY <1>4, <2>4, <2>7
<1> QED
  BY <1>5, <1>6

LEMMA CatfFits ==
    ASSUME StrAssumption, BlocksSound, Made, NEW t \in Inputs, Catf(t)
    PROVE  Fits
<1> DEFINE n == Len(This.text)
           s == Len(t) + 1
<1>1. /\ This \in Blocks /\ Content = This.text /\ This.text \in Seq(Chars) /\ n \in Nat
      /\ This.capacity \in Nat /\ n <= This.capacity /\ t \in Seq(Chars) /\ Len(t) \in Nat
  BY LastBlock DEF Blocks, StrAssumption
<1>2. ASSUME NEW p \in Blocks, p.text = This.text \o t, InPlace(p) \/ Moved(p) PROVE Fits
  <2>1. BlocksSound' /\ Kept /\ Content' = p.text
    BY <1>2, PlacedBlock, MovedBlock
  <2> QED
    BY <1>1, <1>2, <2>1 DEF Fits, Buffer!Next, Buffer!Grow
<1>3. CASE n + s < This.capacity
  <2>1. n + Len(t) <= This.capacity
    <3>1. \A x, y, z \in Nat : x + (y + 1) < z => x + y <= z
      OBVIOUS
    <3> QED
      BY <1>1, <1>3, <3>1
  <2>2. Put(This, n, t) \in Blocks /\ Put(This, n, t).text = This.text \o t
    BY <1>1, <2>1, PutBehind
  <2>3. InPlace(Put(This, n, t))
    BY <1>3 DEF Catf
  <2> QED
    BY <1>2, <2>2, <2>3
<1>4. CASE ~ (n + s < This.capacity)
  <2> DEFINE r == Resized(This, s)
  <2>1. r \in Blocks /\ r.text = This.text /\ r.capacity >= This.capacity + s
    <3>1. s \in Nat
      BY <1>1
    <3> QED
      BY <1>1, <3>1, ResizedIsBlock
  <2>2. Moved(Put(r, n, t))
    BY <1>4 DEF Catf
  <2> HIDE DEF r
  <2>3. n + Len(t) <= r.capacity /\ n = Len(r.text)
    BY <1>1, <2>1 DEF Blocks
  <2>4. Put(r, n, t) \in Blocks /\ Put(r, n, t).text = This.text \o t
    BY <1>1, <2>1, <2>3, PutBehind
  <2> QED
    BY <1>2, <2>2, <2>4
<1> QED
  BY <1>3, <1>4

LEMMA ReplaceByFits ==
    ASSUME StrAssumption, BlocksSound, Made, NEW t \in Inputs, ReplaceBy(t)
    PROVE  Fits
<1> DEFINE s == Len(t) + 1
<1>1. /\ This \in Blocks /\ This.text \in Seq(Chars) /\ Len(This.text) \in Nat
      /\ This.capacity \in Nat /\ t \in Seq(Chars) /\ s \in Nat
  BY LastBlock DEF Blocks, StrAssumption
<1>2. ASSUME NEW p \in Blocks, p.text = t, InPlace(p) \/ Moved(p) PROVE Fits
  <2>1. BlocksSound' /\ Kept /\ Content' = t
    BY <1>2, PlacedBlock, MovedBlock
  <2> QED
    BY <2>1 DEF Fits, Buffer!Next, Buffer!Replace
<1>3. ASSUME NEW b \in Blocks, Len(t) <= b.capacity
      PROVE  Put(b, 0, t) \in Blocks /\ Put(b, 0, t).text = t
  <2>1. b.text \in Seq(Chars) /\ 0 \in 0..Len(b.text) /\ 0 + Len(t) <= b.capacity
    BY <1>1, <1>3 DEF Blocks
  <2>2. Put(b, 0, t) \in Blocks /\ Put(b, 0, t).text = SubSeq(b.text, 1, 0) \o t
    BY <1>1, <2>1, PutIsBlock
  <2> QED
    BY <1>1, <2>1, <2>2, PutText
<1>4. CASE s < This.capacity
  <2>1. InPlace(Put(This, 0, t)) /\ Len(t) <= This.capacity
    BY <1>1, <1>4 DEF ReplaceBy
  <2>2. Put(This, 0, t) \in Blocks /\ Put(This, 0, t).text = t
    BY <1>1, <1>3, <2>1
  <2> QED
    BY <1>2, <2>1, <2>2
<1>5. CASE ~ (s < This.capacity)
  <2> DEFINE r == Resized(This, s)
  <2>1. r \in Blocks /\ r.capacity >= This.capacity + s
    BY <1>1, ResizedIsBlock
  <2>2. Moved(Put(r, 0, t))
    BY <1>5 DEF ReplaceBy
  <2> HIDE DEF r
  <2>3. Len(t) <= r.capacity
    BY <1>1, <2>1 DEF Blocks
  <2>4. Put(r, 0, t) \in Blocks /\ Put(r, 0, t).text = t
    BY <1>3, <2>1, <2>3
  <2> QED
    BY <1>2, <2>2, <2>4
<1> QED
  BY <1>4, <1>5

(* Trimming writes a shorter text in the block. *)
LEMMA ShorterIsBlock ==
    ASSUME NEW b \in Blocks, NEW t \in Seq(Chars), Len(t) <= Len(b.text)
    PROVE  [b EXCEPT !.text = t] \in Blocks /\ [b EXCEPT !.text = t].text = t
<1>1. [b EXCEPT !.text = t]
        = [text |-> t, size |-> b.size, capacity |-> b.capacity, used |-> b.used]
  BY DEF Blocks
<1> QED
  BY <1>1 DEF Blocks

LEMMA TrimFits ==
    ASSUME StrAssumption, BlocksSound, Made, Rtrim \/ Ltrim
    PROVE  Fits
<1> DEFINE t == This.text
<1>1. This \in Blocks /\ Content = t /\ t \in Seq(Chars)
  BY LastBlock
<1>2. ASSUME NEW u \in Seq(Chars), Len(u) <= Len(t), InPlace([This EXCEPT !.text = u])
      PROVE  BlocksSound' /\ Kept /\ Content' = u
  BY <1>1, <1>2, ShorterIsBlock, PlacedBlock
<1>3. CASE Rtrim
  <2> DEFINE u == RTrimmed(t)
  <2>1. PICK m \in 0..Len(t) : /\ u = SubSeq(t, 1, m)
                               /\ \A i \in m + 1..Len(t) : t[i] \in Spaces
                               /\ m > 1 => t[m] \notin Spaces
    BY <1>1, RTrims
  <2>2. InPlace([This EXCEPT !.text = u])
    BY <1>3 DEF Rtrim
  <2> HIDE DEF u
  <2>3. /\ u \in Seq(Chars) /\ Len(u) = m /\ Buffer!IsPrefix(u, t)
        /\ Buffer!White(SubSeq(t, Len(u) + 1, Len(t)))
        /\ m > 0 => Buffer!Last(u) = t[m]
    BY <1>1, <2>1, FirstPart
  <2>4. BlocksSound' /\ Kept /\ Content' = u
    BY <1>1, <1>2, <2>2, <2>3
  <2>5. Len(u) > 1 => Buffer!Last(u) \notin Spaces
    BY <2>1, <2>3
  <2>6. Buffer!TrimEnd
    BY <1>1, <2>3, <2>4, <2>5 DEF Buffer!TrimEnd
  <2> QED
    BY <2>4, <2>6 DEF Fits, Buffer!Next
<1>4. CASE Ltrim
  <2> DEFINE u == LTrimmed(t)
  <2>1. PICK m \in 1..Len(t) + 1 :
              /\ u = SubSeq(t, m, Len(t)) /\ (m <= Len(t) \/ t = <<>>)
              /\ \A i \in 1..m - 1 : t[i] \in Spaces
              /\ m < Len(t) => t[m] \notin Spaces \/ t[m + 1] \notin Spaces
    BY <1>1, LTrims
  <2>2. InPlace([This EXCEPT !.text = u])
    BY <1>4 DEF Ltrim
  <2> HIDE DEF u
  <2>3. /\ u \in Seq(Chars) /\ Len(u) <= Len(t) /\ Buffer!IsSuffix(u, t)
        /\ Buffer!White(SubSeq(t, 1, Len(t) - Len(u)))
        /\ Len(u) > 1 => ~ Buffer!White(SubSeq(u, 1, 2))
    BY <1>1, <2>1, LastPart
  <2>4. BlocksSound' /\ Kept /\ Content' = u
    BY <1>2, <2>2, <2>3
  <2>5. Buffer!TrimStart
    BY <1>1, <2>3, <2>4 DEF Buffer!TrimStart
  <2> QED
    BY <2>4, <2>5 DEF Fits, Buffer!Next
<1> QED
  BY <1>3, <1>4

LEMMA UnchangedFits ==
    ASSUME BlocksSound, UNCHANGED blocks
    PROVE  Fits
<1>1. BlocksSound' /\ Kept
  BY DEF BlocksSound, Kept
<1>2. Content' = Content
  BY DEF Content, This, Made, Last
<1> QED
  BY <1>1, <1>2 DEF Fits

LEMMA DeleteFits ==
    ASSUME Delete
    PROVE  Fits
<1>1. blocks' = <<>>
  BY DEF Delete
<1>2. BlocksSound' /\ Kept /\ Content' = <<>>
  BY <1>1 DEF BlocksSound, Kept, Content, Made
<1> QED
  BY <1>2 DEF Fits, Buffer!Next

LEMMA StepFits ==
    ASSUME StrAssumption, MemoryEnds, BlocksSound, [StrNext]_string
    PROVE  Fits
<1>1. ASSUME NEW t \in Inputs, Mk(t) \/ MkFormat(t) \/ Strn(t) \/ MkRoom(Len(t)) PROVE Fits
  <2>1. Len(t) \in Nat
    BY DEF StrAssumption
  <2> QED
    BY <1>1, <2>1, MkFits, MkFormatFits, StrnFits, MkRoomFits
<1>2. ASSUME Made, NEW c \in Chars \cup {NUL}, Add(c) PROVE Fits
  BY <1>2, AddFits
<1>3. ASSUME Made, NEW t \in Inputs, Change(t) PROVE Fits
  BY <1>3, CatfFits, ReplaceByFits DEF Change
<1>4. ASSUME Made, Rtrim \/ Ltrim \/ Delete PROVE Fits
  BY <1>4, TrimFits, DeleteFits
<1>5. ASSUME NEW t \in Sources, Replacing(t) PROVE Fits
  <2>1. UNCHANGED blocks
    BY <1>5 DEF Replacing, ReplaceAtOffset, ReplaceEach, ReplaceExt, ReplaceExtCrash, Returned
  <2> QED
    BY <2>1, UnchangedFits
<1>6. ASSUME Release \/ UNCHANGED string PROVE Fits
  BY <1>6, UnchangedFits DEF Release, string
<1> QED
  BY <1>1, <1>2, <1>3, <1>4, <1>5, <1>6 DEF StrNext

-----------------------------------------------------------------------------
(* No call on a string writes behind its block, for any characters, any    *)
(* texts and any size of CEE_BLOCK, of the header and of its padding: in   *)
(* every block the text and its NUL end within the capacity, or one byte   *)
(* behind it in the padding of the header.                                 *)
THEOREM StringsStayInTheirBlocks ==
    ASSUME StrAssumption, MemoryEnds PROVE StrSpec => []WritesInBlock
<1>1. StrInit => BlocksSound
  BY DEF StrInit, BlocksSound
<1>2. BlocksSound /\ [StrNext]_string => BlocksSound'
  BY StepFits DEF Fits
<1>3. BlocksSound => WritesInBlock
  <2>1. ASSUME NEW b \in Blocks PROVE BlockOK(b)
    BY DEF BlockOK, Blocks, StrAssumption
  <2> QED
    BY <2>1 DEF BlocksSound, WritesInBlock
<1> QED
  BY <1>1, <1>2, <1>3, PTL DEF StrSpec

(* A string is one text that is replaced, grows at its end and is trimmed, *)
(* whatever blocks it lies in; and the pointers to the blocks it has left  *)
(* (CEE_RESIZE_WITH_MALLOC) show the text that was there.                  *)
THEOREM StringsAreTexts ==
    ASSUME StrAssumption, MemoryEnds PROVE StrSpec => KeepsTexts
<1>1. StrInit => BlocksSound /\ Buffer!Init
  BY DEF StrInit, BlocksSound, Buffer!Init, Content, Made
<1>2. BlocksSound /\ [StrNext]_string => BlocksSound' /\ [Buffer!Next]_Content
  BY StepFits DEF Fits
<1>3. BlocksSound /\ [StrNext]_string
         => [\A i \in DOMAIN blocks :
                blocks' # <<>> /\ (i < Len(blocks) \/ Len(blocks') # Len(blocks))
                    => i \in DOMAIN blocks' /\ blocks'[i] = blocks[i]]_blocks
  BY StepFits DEF Fits, Kept
<1> QED
  BY <1>1, <1>2, <1>3, PTL DEF StrSpec, KeepsTexts, Buffer!Spec, OldTextKept
=============================================================================
