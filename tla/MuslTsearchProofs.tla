--------------------------- MODULE MuslTsearchProofs ---------------------------
(***************************************************************************)
(* Proofs about MuslTsearch for any elements, any order and trees of any   *)
(* size: searching, inserting and deleting are those of a set, and the     *)
(* trees stay balanced.                                                    *)
(*                                                                         *)
(* In order: paths; subtrees that move (Moves) and the two rotations that  *)
(* are made of such moves; the keys and the order beneath a rotated link   *)
(* (SingleKeeps, DoubleKeeps), and its height (SingleBalances,             *)
(* DoubleBalances); one round of rebalancing and the way up (BalanceIs,    *)
(* RebalancedIs); the way down (FindIs); insertion and deletion            *)
(* (InsertedIs, DeletedIs); the walk (WalkIs); the theorems.               *)
(***************************************************************************)
EXTENDS MuslTsearch, TLAPS, WellFoundedInduction, FiniteSetTheorems, SequenceTheorems

Bits == {0, 1}
Links == Seq(Bits)

(* The paths below a path, and the steps they are made of. *)
Root == << >>
Kid(p, d) == Append(p, d)
Desc(p, s) == p \o s
Ext(p, q) == \E s \in Links : q = Desc(p, s)

-----------------------------------------------------------------------------
(* What there is of natural numbers has a least. *)
LEMMA LeastIs ==
    ASSUME NEW T \in SUBSET Nat, T # {}
    PROVE  \E m \in T : \A n \in T : m <= n
<1>1. PICK m \in T : \A n \in T : ~ (<<n, m>> \in OpToRel(<, Nat))
  BY NatLessThanWellFounded, WFMin
<1>2. ASSUME NEW n \in T PROVE m <= n
  <2>1. ~ (n < m)
    BY <1>1 DEF OpToRel
  <2> QED
    BY <2>1
<1> QED
  BY <1>1, <1>2

(* Up to n, from one number to the next. *)
LEMMA InductionIs ==
    ASSUME NEW n \in Nat, NEW G, 0 \in G, \A m \in 0..n - 1 : m \in G => m + 1 \in G
    PROVE  \A m \in 0..n : m \in G
<1> DEFINE T == {m \in 0..n : m \notin G}
<1>1. SUFFICES ASSUME T # {} PROVE FALSE
  OBVIOUS
<1>2. T \in SUBSET Nat
  OBVIOUS
<1>3. PICK m \in T : \A k \in T : m <= k
  BY <1>1, <1>2, LeastIs
<1>4. m # 0 /\ m \in 0..n
  BY <1>3
<1>5. m - 1 \in 0..n - 1 /\ ~ (m <= m - 1)
  BY <1>4
<1>6. m - 1 \in G
  BY <1>3, <1>5
<1> QED
  BY <1>3, <1>5, <1>6

(* What a recursive function computes, one step after another, is there. *)
Runs(f, n, x, g) == f[0] = x /\ \A i \in 1..n : f[i] = g[i][f[i - 1]]
LEMMA RecursionIs ==
    ASSUME NEW S, NEW n \in Nat, NEW x \in S, NEW g \in [1..n -> [S -> S]]
    PROVE  \E f \in [0..n -> S] : Runs(f, n, x, g)
<1> DEFINE G == {m \in 0..n : \E f \in [0..m -> S] : f[0] = x /\ \A i \in 1..m : f[i] = g[i][f[i - 1]]}
<1>1. 0 \in G
  <2> DEFINE f == [i \in 0..0 |-> x]
  <2>1. f \in [0..0 -> S] /\ f[0] = x /\ \A i \in 1..0 : f[i] = g[i][f[i - 1]]
    OBVIOUS
  <2> HIDE DEF f
  <2> QED
    BY <2>1
<1>2. ASSUME NEW m \in 0..n - 1, m \in G PROVE m + 1 \in G
  <2>1. PICK f \in [0..m -> S] : f[0] = x /\ \A i \in 1..m : f[i] = g[i][f[i - 1]]
    BY <1>2
  <2> DEFINE k == m + 1
             h == [i \in 0..k |-> IF i = k THEN g[k][f[m]] ELSE f[i]]
  <2>2. k \in 1..n /\ m \in 0..m /\ k - 1 = m
    BY <1>2
  <2>3. h \in [0..k -> S] /\ h[0] = x
    BY <2>1, <2>2
  <2>4. ASSUME NEW i \in 1..k PROVE h[i] = g[i][h[i - 1]]
    <3>1. i - 1 \in 0..m /\ i - 1 # k /\ h[i - 1] = f[i - 1]
      BY <1>2
    <3>2. CASE i = k
      BY <2>2, <3>1, <3>2
    <3>3. CASE i # k
      <4>1. i \in 1..m
        BY <1>2, <3>3
      <4> QED
        BY <2>1, <3>1, <3>3, <4>1
    <3> QED
      BY <3>2, <3>3
  <2> HIDE DEF h
  <2> QED
    BY <2>2, <2>3, <2>4
<1> HIDE DEF G
<1>3. n \in G
  <2>1. \A m \in 0..n : m \in G
    BY ONLY <1>1, <1>2, n \in Nat, InductionIs
  <2> QED
    BY <2>1
<1> QED
  BY <1>3 DEF G, Runs

-----------------------------------------------------------------------------
(* Paths. *)
LEMMA PathTypes ==
    /\ Root \in Links
    /\ \A p \in Links, d \in Bits : Kid(p, d) \in Links /\ Cons(d, p) \in Links
    /\ \A p, s \in Links : Desc(p, s) \in Links
    /\ \A p \in Links : Len(p) \in Nat
<1>1. ASSUME NEW p \in Links, NEW d \in Bits PROVE Kid(p, d) \in Links /\ Cons(d, p) \in Links
  <2>1. <<d>> \in Seq(Bits)
    OBVIOUS
  <2> QED
    BY <2>1, AppendProperties, ConcatProperties DEF Links, Kid, Cons
<1>2. ASSUME NEW p \in Links, NEW s \in Links PROVE Desc(p, s) \in Links
  BY ConcatProperties DEF Links, Desc
<1>3. Root \in Links
  BY EmptySeq DEF Root, Links
<1>4. \A p \in Links : Len(p) \in Nat
  BY LenProperties DEF Links
<1> QED
  BY <1>1, <1>2, <1>3, <1>4

LEMMA PathLengths ==
    /\ Len(Root) = 0
    /\ \A p \in Links : p # Root => Len(p) > 0
    /\ \A p \in Links, d \in Bits : Len(Kid(p, d)) = Len(p) + 1 /\ Len(Cons(d, p)) = Len(p) + 1
    /\ \A p, s \in Links : Len(Desc(p, s)) = Len(p) + Len(s)
<1>1. ASSUME NEW p \in Links, NEW d \in Bits
      PROVE  Len(Kid(p, d)) = Len(p) + 1 /\ Len(Cons(d, p)) = Len(p) + 1
  <2>1. <<d>> \in Seq(Bits) /\ Len(<<d>>) = 1
    OBVIOUS
  <2>2. Len(<<d>> \o p) = 1 + Len(p) /\ Len(p) \in Nat
    BY <2>1, ConcatProperties, LenProperties DEF Links
  <2>3. Len(Append(p, d)) = Len(p) + 1
    BY AppendProperties DEF Links
  <2> QED
    BY <2>2, <2>3 DEF Kid, Cons
<1>2. ASSUME NEW p \in Links, NEW s \in Links PROVE Len(Desc(p, s)) = Len(p) + Len(s)
  BY ConcatProperties DEF Links, Desc
<1>3. Len(Root) = 0 /\ \A p \in Links : p # Root => Len(p) > 0
  BY EmptySeq DEF Root, Links
<1> QED
  BY <1>1, <1>2, <1>3

LEMMA DescLaws ==
    /\ \A p \in Links : Desc(p, Root) = p
    /\ \A p, s, u \in Links : Desc(Desc(p, s), u) = Desc(p, Desc(s, u))
    /\ \A p, s, u \in Links : Desc(p, s) = Desc(p, u) => s = u
    /\ \A p, s \in Links, d \in Bits : /\ Desc(Kid(p, d), s) = Desc(p, Cons(d, s))
                                       /\ Desc(Cons(d, p), s) = Cons(d, Desc(p, s))
                                       /\ Kid(p, d) = Desc(p, Cons(d, Root))
                                       /\ Kid(Desc(p, s), d) = Desc(p, Kid(s, d))
<1>1. \A p \in Links : Desc(p, Root) = p
  BY ConcatEmptySeq DEF Links, Desc, Root
<1>2. \A p, s, u \in Links : Desc(Desc(p, s), u) = Desc(p, Desc(s, u))
  BY ConcatAssociative DEF Links, Desc
<1>3. \A p, s, u \in Links : Desc(p, s) = Desc(p, u) => s = u
  BY ConcatSimplifications DEF Links, Desc
<1>4. ASSUME NEW p \in Links, NEW s \in Links, NEW d \in Bits
      PROVE  /\ Desc(Kid(p, d), s) = Desc(p, Cons(d, s))
             /\ Desc(Cons(d, p), s) = Cons(d, Desc(p, s))
             /\ Kid(p, d) = Desc(p, Cons(d, Root))
             /\ Kid(Desc(p, s), d) = Desc(p, Kid(s, d))
  <2> DEFINE one == <<d>>
  <2>1. one \in Seq(Bits)
    OBVIOUS
  <2>2. \A q \in Links : Kid(q, d) = q \o one
    BY AppendIsConcat DEF Links, Kid
  <2>3. \A q \in Links : Cons(d, q) = one \o q
    BY DEF Cons
  <2>4. p \in Seq(Bits) /\ s \in Seq(Bits) /\ Root \in Links /\ Desc(p, s) \in Links
    BY PathTypes DEF Links
  <2> HIDE DEF one
  <2>5. (p \o one) \o s = p \o (one \o s)
    BY ONLY <2>1, <2>4, ConcatAssociative
  <2>8. (one \o p) \o s = one \o (p \o s)
    BY ONLY <2>1, <2>4, ConcatAssociative
  <2>6. one \o Root = one
    BY <2>1, ConcatEmptySeq DEF Root
  <2>7. (p \o s) \o one = p \o (s \o one)
    BY <2>1, <2>4, ConcatAssociative
  <2> QED
    BY <2>2, <2>3, <2>4, <2>5, <2>6, <2>7, <2>8 DEF Desc
<1> QED
  BY <1>1, <1>2, <1>3, <1>4

LEMMA ConsLaws ==
    /\ \A s \in Links : s # Root => \E d \in Bits, u \in Links : s = Cons(d, u)
    /\ \A s, u \in Links, d, e \in Bits : Cons(d, s) = Cons(e, u) => d = e /\ s = u
    /\ \A s \in Links, d \in Bits : Cons(d, s) # Root
<1>1. ASSUME NEW s \in Links, s # Root PROVE \E d \in Bits, u \in Links : s = Cons(d, u)
  <2>1. s \in Seq(Bits) /\ Len(s) \in Nat \ {0}
    BY <1>1, EmptySeq DEF Links, Root
  <2>2. SubSeq(s, 1, Len(s)) = <<s[1]>> \o SubSeq(s, 2, Len(s))
    BY <2>1, SubSeqRecursiveFirst
  <2>3. SubSeq(s, 1, Len(s)) = s
    BY <2>1, SubSeqFull
  <2>4. s[1] \in Bits
    BY <2>1, ElementOfSeq
  <2>5. SubSeq(s, 2, Len(s)) \in Links
    <3>1. \A i \in 2..Len(s) : s[i] \in Bits
      BY <2>1, ElementOfSeq
    <3> QED
      BY <2>1, <3>1, SubSeqProperties DEF Links
  <2> QED
    BY <2>2, <2>3, <2>4, <2>5 DEF Cons
<1>2. ASSUME NEW s \in Links, NEW u \in Links, NEW d \in Bits, NEW e \in Bits, Cons(d, s) = Cons(e, u)
      PROVE  d = e /\ s = u
  <2>1. \A q \in Links, b \in Bits : Cons(b, q)[1] = b
    <3> TAKE q \in Links, b \in Bits
    <3>1. <<b>> \in Seq(Bits) /\ Len(<<b>>) = 1 /\ <<b>>[1] = b /\ q \in Seq(Bits) /\ Len(q) \in Nat
      BY LenProperties DEF Links
    <3> DEFINE one == <<b>>
    <3> HIDE DEF one
    <3>2. (one \o q)[1] = one[1]
      BY <3>1, ConcatProperties DEF one
    <3> QED
      BY <3>1, <3>2 DEF Cons, one
  <2>2. d = e
    BY <1>2, <2>1
  <2>3. <<d>> \o s = <<d>> \o u
    BY <1>2, <2>2 DEF Cons
  <2>4. <<d>> \in Seq(Bits)
    OBVIOUS
  <2> QED
    BY <2>2, <2>3, <2>4, ConcatSimplifications DEF Links
<1>3. ASSUME NEW s \in Links, NEW d \in Bits PROVE Cons(d, s) # Root
  BY PathLengths, PathTypes
<1> QED
  BY <1>1, <1>2, <1>3

(* One of two paths to a link below both leads to the other. *)
LEMMA Comparable ==
    ASSUME NEW p \in Links, NEW q \in Links, NEW s \in Links, NEW u \in Links, Desc(p, s) = Desc(q, u),
           Len(p) <= Len(q)
    PROVE  Ext(p, q)
<1> DEFINE v == SubSeq(q, Len(p) + 1, Len(q))
<1>1. p \in Seq(Bits) /\ q \in Seq(Bits) /\ s \in Seq(Bits) /\ u \in Seq(Bits)
  BY DEF Links
<1>2. Len(p) \in Nat /\ Len(q) \in Nat /\ Len(s) \in Nat /\ Len(u) \in Nat
  BY PathTypes
<1>3. v \in Seq(Bits) /\ Len(v) = Len(q) - Len(p) /\ \A i \in 1..Len(v) : v[i] = q[Len(p) + i]
  <2>1. \A i \in Len(p) + 1..Len(q) : q[i] \in Bits
    BY <1>1, <1>2, ElementOfSeq
  <2>2. Len(p) + 1 \in Int /\ Len(q) \in Int
    BY <1>2
  <2>3. /\ v \in Seq(Bits)
        /\ Len(v) = IF Len(p) + 1 <= Len(q) THEN Len(q) - (Len(p) + 1) + 1 ELSE 0
        /\ \A i \in 1..Len(q) - (Len(p) + 1) + 1 : v[i] = q[(Len(p) + 1) + i - 1]
    BY <2>1, <2>2, SubSeqProperties
  <2> HIDE DEF v
  <2> QED
    BY <1>2, <2>3
<1> HIDE DEF v
<1>4. p \o v \in Seq(Bits) /\ Len(p \o v) = Len(q)
  BY <1>1, <1>2, <1>3, ConcatProperties
<1>5. ASSUME NEW i \in 1..Len(q) PROVE (p \o v)[i] = q[i]
  <2>1. (p \o v)[i] = IF i <= Len(p) THEN p[i] ELSE v[i - Len(p)]
    BY <1>1, <1>2, <1>3, ConcatProperties
  <2>2. CASE i <= Len(p)
    <3>1. (p \o s)[i] = p[i]
      BY <1>1, <1>2, <2>2, ConcatProperties
    <3>2. (q \o u)[i] = q[i]
      BY <1>1, <1>2, ConcatProperties
    <3> QED
      BY <2>1, <2>2, <3>1, <3>2 DEF Desc
  <2>3. CASE ~ (i <= Len(p))
    <3>1. i - Len(p) \in 1..Len(v) /\ Len(p) + (i - Len(p)) = i
      BY <1>2, <1>3, <2>3
    <3> QED
      BY <1>3, <2>1, <2>3, <3>1
  <2> QED
    BY <2>2, <2>3
<1>6. p \o v = q
  BY <1>1, <1>4, <1>5, SeqEqual
<1> QED
  BY <1>3, <1>6 DEF Ext, Desc, Links

LEMMA PrefixIs ==
    ASSUME NEW p \in Links, NEW q \in Links
    PROVE  /\ IsPrefix(p, q) <=> Ext(p, q)
           /\ \A s \in Links : q = Desc(p, s) => SubSeq(q, Len(p) + 1, Len(q)) = s
<1>1. p \in Seq(Bits) /\ q \in Seq(Bits) /\ Len(p) \in Nat /\ Len(q) \in Nat
  BY PathTypes DEF Links
<1>2. SubSeq(p, 1, Len(p)) = p
  BY <1>1, SubSeqFull
<1>3. ASSUME IsPrefix(p, q) PROVE Ext(p, q)
  <2>1. Len(p) <= Len(q) /\ p = SubSeq(q, 1, Len(p))
    BY <1>2, <1>3 DEF IsPrefix
  <2> DEFINE n == Len(p)
             v == SubSeq(q, n + 1, Len(q))
  <2>2. n \in 0..Len(q) /\ n \in 1 - 1..Len(q) /\ Len(q) \in n..Len(q) /\ 1 \in 1..Len(q) + 1
    BY <1>1, <2>1
  <2>3. SubSeq(q, 1, n) \o v = SubSeq(q, 1, Len(q))
    <3> HIDE DEF n
    <3> QED
      BY <1>1, <2>2, ConcatAdjacentSubSeq
  <2>4. p \o v = q
    BY <1>1, <2>1, <2>3, SubSeqFull
  <2>5. v \in Links
    <3>1. \A i \in n + 1..Len(q) : q[i] \in Bits
      BY <1>1, ElementOfSeq
    <3> QED
      BY <1>1, <3>1, SubSeqProperties DEF Links
  <2> QED
    BY <2>4, <2>5 DEF Ext, Desc
<1>4. ASSUME NEW s \in Links, q = Desc(p, s)
      PROVE  IsPrefix(p, q) /\ SubSeq(q, Len(p) + 1, Len(q)) = s
  <2>1. s \in Seq(Bits) /\ Len(s) \in Nat /\ q = p \o s /\ Len(q) = Len(p) + Len(s)
    BY <1>1, <1>4, PathTypes, ConcatProperties DEF Desc, Links
  <2>2. \A i \in 1..Len(p) : q[i] = p[i]
    BY <1>1, <2>1, ConcatProperties
  <2>3. \A i \in 1..Len(s) : q[Len(p) + i] = s[i]
    <3> TAKE i \in 1..Len(s)
    <3>1. Len(p) + i \in 1..Len(p) + Len(s) /\ ~ (Len(p) + i <= Len(p)) /\ (Len(p) + i) - Len(p) = i
      BY <1>1, <2>1
    <3> QED
      BY <1>1, <2>1, <3>1, ConcatProperties
  <2>4. SubSeq(q, 1, Len(p)) = p
    <3> DEFINE v == SubSeq(q, 1, Len(p))
    <3>1. \A i \in 1..Len(p) : q[i] \in Bits
      BY <1>1, <2>1, ElementOfSeq
    <3>2. /\ v \in Seq(Bits)
          /\ Len(v) = IF 1 <= Len(p) THEN Len(p) - 1 + 1 ELSE 0
          /\ \A i \in 1..Len(p) - 1 + 1 : v[i] = q[1 + i - 1]
      BY <1>1, <3>1, SubSeqProperties
    <3> HIDE DEF v
    <3>3. Len(v) = Len(p) /\ \A i \in 1..Len(p) : v[i] = p[i]
      BY <1>1, <2>2, <3>2
    <3>4. v = p
      BY <1>1, <3>2, <3>3, SeqEqual
    <3> QED
      BY <3>4 DEF v
  <2>5. SubSeq(q, Len(p) + 1, Len(q)) = s
    <3> DEFINE v == SubSeq(q, Len(p) + 1, Len(q))
    <3>1. \A i \in Len(p) + 1..Len(q) : q[i] \in Bits
      BY <1>1, ElementOfSeq
    <3>0. Len(p) + 1 \in Int /\ Len(q) \in Int
      BY <1>1
    <3>2. /\ v \in Seq(Bits)
          /\ Len(v) = IF Len(p) + 1 <= Len(q) THEN Len(q) - (Len(p) + 1) + 1 ELSE 0
          /\ \A i \in 1..Len(q) - (Len(p) + 1) + 1 : v[i] = q[(Len(p) + 1) + i - 1]
      BY <3>0, <3>1, SubSeqProperties
    <3> HIDE DEF v
    <3>3. Len(v) = Len(s) /\ \A i \in 1..Len(s) : v[i] = s[i]
      BY <1>1, <2>1, <2>3, <3>2
    <3>4. v = s
      BY <2>1, <3>2, <3>3, SeqEqual
    <3> QED
      BY <3>4 DEF v
  <2> QED
    BY <1>1, <1>2, <2>1, <2>4, <2>5 DEF IsPrefix
<1> QED
  BY <1>3, <1>4 DEF Ext

(* What is below a path is at it, or below one of its sides. *)
LEMMA ForkLaws ==
    ASSUME NEW p \in Links, NEW d \in Bits
    PROVE  /\ 1 - d \in Bits /\ Kid(p, d) \in Links /\ Kid(p, 1 - d) \in Links
           /\ Ext(p, p)
           /\ \A q \in Links : Ext(p, q) <=> q = p \/ Ext(Kid(p, d), q) \/ Ext(Kid(p, 1 - d), q)
           /\ \A q \in Links : ~ (Ext(Kid(p, d), q) /\ Ext(Kid(p, 1 - d), q))
           /\ ~ Ext(Kid(p, d), p) /\ ~ Ext(Kid(p, 1 - d), p)
<1>1. 1 - d \in Bits /\ 1 - d # d /\ \A e \in Bits : e = d \/ e = 1 - d
  BY DEF Bits
<1>2. Kid(p, d) \in Links /\ Kid(p, 1 - d) \in Links /\ Root \in Links
  BY <1>1, PathTypes
<1>3. Ext(p, p)
  BY <1>2, DescLaws DEF Ext
<1>4. ASSUME NEW q \in Links, NEW e \in Bits
      PROVE  Ext(Kid(p, e), q) <=> \E s \in Links : q = Desc(p, Cons(e, s))
  BY DescLaws DEF Ext
<1>5. ASSUME NEW q \in Links
      PROVE  Ext(p, q) <=> q = p \/ Ext(Kid(p, d), q) \/ Ext(Kid(p, 1 - d), q)
  <2>1. Ext(p, q) <=> \E s \in Links : q = Desc(p, s)
    BY DEF Ext
  <2>2. \A e \in Bits, s \in Links : Cons(e, s) \in Links
    BY PathTypes
  <2>3. q = p => Ext(p, q)
    BY <1>3
  <2>4. \A e \in Bits : Ext(Kid(p, e), q) => Ext(p, q)
    BY <1>4, <2>1, <2>2
  <2>5. Ext(p, q) => q = p \/ \E e \in Bits : Ext(Kid(p, e), q)
    <3> SUFFICES ASSUME NEW s \in Links, q = Desc(p, s) PROVE q = p \/ \E e \in Bits : Ext(Kid(p, e), q)
      BY <2>1
    <3>1. CASE s = Root
      BY <3>1, DescLaws
    <3>2. CASE s # Root
      BY <1>4, <3>2, ConsLaws
    <3> QED
      BY <3>1, <3>2
  <2> QED
    BY <1>1, <2>3, <2>4, <2>5
<1>6. ASSUME NEW q \in Links PROVE ~ (Ext(Kid(p, d), q) /\ Ext(Kid(p, 1 - d), q))
  <2> SUFFICES ASSUME NEW s \in Links, NEW u \in Links,
                      Desc(p, Cons(d, s)) = Desc(p, Cons(1 - d, u))
               PROVE  FALSE
    BY <1>1, <1>4
  <2>1. Cons(d, s) \in Links /\ Cons(1 - d, u) \in Links
    BY <1>1, PathTypes
  <2>2. Cons(d, s) = Cons(1 - d, u)
    BY <2>1, DescLaws
  <2> QED
    BY <1>1, <2>2, ConsLaws
<1>7. ASSUME NEW e \in Bits PROVE ~ Ext(Kid(p, e), p)
  <2> SUFFICES ASSUME NEW s \in Links, p = Desc(p, Cons(e, s)) PROVE FALSE
    BY <1>4
  <2>1. Cons(e, s) \in Links /\ Desc(p, Root) = p
    BY PathTypes, DescLaws
  <2>2. Cons(e, s) = Root
    BY <1>2, <2>1, DescLaws
  <2> QED
    BY <2>2, ConsLaws
<1> QED
  BY <1>1, <1>2, <1>3, <1>5, <1>6, <1>7

LEMMA ExtLaws ==
    /\ \A p, q, r \in Links : Ext(p, q) /\ Ext(q, r) => Ext(p, r)
    /\ \A p, q, r \in Links : Ext(p, r) /\ Ext(q, r) => Ext(p, q) \/ Ext(q, p)
    /\ \A p, s \in Links : Ext(p, Desc(p, s))
    /\ \A p, s, u \in Links : Ext(Desc(p, s), Desc(p, u)) <=> Ext(s, u)
    /\ \A q \in Links : Ext(Root, q)
    /\ \A p, q \in Links, d \in Bits : Ext(p, Kid(q, d)) => Ext(p, q) \/ p = Kid(q, d)
<1>1. \A p, q, r \in Links : Ext(p, q) /\ Ext(q, r) => Ext(p, r)
  BY DescLaws, PathTypes DEF Ext
<1>2. ASSUME NEW p \in Links, NEW q \in Links, NEW r \in Links, Ext(p, r), Ext(q, r)
      PROVE  Ext(p, q) \/ Ext(q, p)
  <2>1. PICK s \in Links, u \in Links : Desc(p, s) = Desc(q, u)
    BY <1>2 DEF Ext
  <2>2. Len(p) \in Nat /\ Len(q) \in Nat
    BY PathTypes
  <2>3. Len(p) <= Len(q) \/ Len(q) <= Len(p)
    BY <2>2
  <2> QED
    BY <2>1, <2>3, Comparable
<1>3. \A p, s \in Links : Ext(p, Desc(p, s))
  BY DEF Ext
<1>4. ASSUME NEW p \in Links, NEW s \in Links, NEW u \in Links
      PROVE  Ext(Desc(p, s), Desc(p, u)) <=> Ext(s, u)
  <2>1. \A v \in Links : Desc(Desc(p, s), v) = Desc(p, Desc(s, v)) /\ Desc(s, v) \in Links
    BY DescLaws, PathTypes
  <2>2. \A v \in Links : Desc(p, u) = Desc(p, Desc(s, v)) <=> u = Desc(s, v)
    <3>1. \A a, b \in Links : Desc(p, a) = Desc(p, b) => a = b
      BY DescLaws
    <3> QED
      BY <2>1, <3>1
  <2> QED
    BY <2>1, <2>2 DEF Ext
<1>5. \A q \in Links : Ext(Root, q)
  BY ConcatEmptySeq DEF Ext, Desc, Root, Links
<1>6. ASSUME NEW p \in Links, NEW q \in Links, NEW d \in Bits, Ext(p, Kid(q, d))
      PROVE  Ext(p, q) \/ p = Kid(q, d)
  <2>1. Ext(q, Kid(q, d)) /\ Kid(q, d) \in Links
    BY ForkLaws
  <2>2. Ext(p, q) \/ Ext(q, p)
    BY <1>2, <1>6, <2>1
  <2>3. ASSUME Ext(q, p), ~ Ext(p, q) PROVE p = Kid(q, d)
    <3>1. p # q
      BY <2>3, ForkLaws
    <3>2. Ext(Kid(q, d), p) \/ Ext(Kid(q, 1 - d), p)
      BY <2>3, <3>1, ForkLaws
    <3>3. ~ Ext(Kid(q, 1 - d), p)
      <4> SUFFICES ASSUME Ext(Kid(q, 1 - d), p) PROVE FALSE
        OBVIOUS
      <4>1. Ext(Kid(q, 1 - d), Kid(q, d))
        BY <1>1, <1>6, <2>1, ForkLaws
      <4>2. Ext(Kid(q, d), Kid(q, d))
        BY <2>1, ForkLaws
      <4> QED
        BY <2>1, <4>1, <4>2, ForkLaws
    <3>4. PICK s \in Links, u \in Links : p = Desc(Kid(q, d), s) /\ Kid(q, d) = Desc(p, u)
      BY <1>6, <3>2, <3>3 DEF Ext
    <3>5. Len(p) = Len(Kid(q, d)) + Len(s) /\ Len(Kid(q, d)) = Len(p) + Len(u)
      BY <2>1, <3>4, PathLengths
    <3>6. Len(s) \in Nat /\ Len(u) \in Nat /\ Len(p) \in Nat /\ Len(Kid(q, d)) \in Nat
      BY <2>1, PathTypes
    <3>7. s = Root
      BY <3>5, <3>6, PathLengths
    <3> QED
      BY <2>1, <3>4, <3>7, DescLaws
  <2> QED
    BY <2>2, <2>3
<1> QED
  BY <1>1, <1>2, <1>3, <1>4, <1>5, <1>6

-----------------------------------------------------------------------------
(* Trees. *)
Formed(t) == /\ Paths(t) \subseteq Links
             /\ t \in [Paths(t) -> [key : Elements, h : Nat]]
             /\ \A p \in Links, d \in Bits : Kid(p, d) \in Paths(t) => p \in Paths(t)
             /\ \E n \in Nat : \A p \in Paths(t) : Len(p) <= n

(* The keys below a link. *)
KeysAt(t, p) == {t[q].key : q \in {r \in Paths(t) : Ext(p, r)}}

(* The keys on the side d of a node go beyond its own. *)
Beyond(d, k, m) == IF d = 0 THEN Rank[k] < Rank[m] ELSE Rank[k] > Rank[m]
OrderedAt(t, p) == \A d \in Bits : \A k \in KeysAt(t, Kid(p, d)) : Beyond(d, k, t[p].key)
Ordered(t) == \A p \in Paths(t) : OrderedAt(t, p)

(* The balance of a node, if the link link counts as of height h. *)
HeightAs(t, q, link, h) == IF q = link THEN h ELSE Height(t, q)
Leans(h0, h1, h) == h0 - h1 \in -1..1 /\ h = (IF h0 < h1 THEN h1 ELSE h0) + 1
LeansAt(t, p, link, h) == Leans(HeightAs(t, Kid(p, 0), link, h), HeightAs(t, Kid(p, 1), link, h), t[p].h)
BalancedAt(t, p) == Leans(Height(t, Kid(p, 0)), Height(t, Kid(p, 1)), t[p].h)

(* The part of u below b is that of t below a, and u is t but below p. *)
Same(t, a, u, b) ==
    \A s \in Links : /\ Desc(a, s) \in Paths(t) <=> Desc(b, s) \in Paths(u)
                     /\ Desc(a, s) \in Paths(t) => u[Desc(b, s)] = t[Desc(a, s)]
Outside(t, u, p) ==
    \A q \in Links : ~ Ext(p, q) => /\ q \in Paths(t) <=> q \in Paths(u)
                                    /\ q \in Paths(t) => u[q] = t[q]

LEMMA NodeIs ==
    ASSUME NEW t, Formed(t), NEW p \in Paths(t)
    PROVE  p \in Links /\ t[p].key \in Elements /\ t[p].h \in Nat /\ t[p] = [key |-> t[p].key, h |-> t[p].h]
BY DEF Formed

LEMMA HeightIs ==
    ASSUME NEW t, Formed(t), NEW p
    PROVE  Height(t, p) \in Nat
BY NodeIs DEF Height

(* With a node, every node on the path to it is in the tree. *)
LEMMA Closed ==
    ASSUME NEW t, Formed(t), NEW p \in Links, NEW q \in Paths(t), Ext(p, q)
    PROVE  p \in Paths(t)
<1> DEFINE T == {n \in Nat : \E s \in Links : Len(s) = n /\ Desc(p, s) \in Paths(t)}
<1>1. T \in SUBSET Nat /\ T # {}
  BY PathTypes DEF Ext
<1>2. PICK n \in T : \A m \in T : n <= m
  <2> HIDE DEF T
  <2> QED
    BY <1>1, LeastIs
<1>3. PICK s \in Links : Len(s) = n /\ Desc(p, s) \in Paths(t)
  OBVIOUS
<1>4. s = Root
  <2> SUFFICES ASSUME s # Root PROVE FALSE
    OBVIOUS
  <2>1. PICK v \in Seq(Bits), d \in Bits : s = Append(v, d)
    BY SequenceEmptyOrAppend DEF Links, Root
  <2>2. v \in Links /\ s = Kid(v, d)
    BY <2>1 DEF Links, Kid
  <2>3. Kid(Desc(p, v), d) \in Paths(t) /\ Desc(p, v) \in Links
    BY <1>3, <2>2, DescLaws, PathTypes
  <2>4. Desc(p, v) \in Paths(t)
    BY <2>3 DEF Formed
  <2>5. Len(v) \in Nat /\ Len(v) < n
    BY <1>3, <2>2, PathTypes, PathLengths
  <2> QED
    BY <1>2, <2>2, <2>4, <2>5
<1> QED
  BY <1>3, <1>4, DescLaws

LEMMA KeysSplit ==
    ASSUME NEW t, Formed(t), NEW p \in Links, NEW d \in Bits
    PROVE  /\ p \in Paths(t) => KeysAt(t, p) = {t[p].key} \cup KeysAt(t, Kid(p, d)) \cup KeysAt(t, Kid(p, 1 - d))
           /\ p \notin Paths(t) => KeysAt(t, p) = {}
           /\ KeysAt(t, Kid(p, d)) \subseteq KeysAt(t, p)
<1>1. Paths(t) \subseteq Links
  BY DEF Formed
<1>2. \A q \in Links : Ext(p, q) <=> q = p \/ Ext(Kid(p, d), q) \/ Ext(Kid(p, 1 - d), q)
  BY ForkLaws
<1>3. p \in Paths(t) => KeysAt(t, p) = {t[p].key} \cup KeysAt(t, Kid(p, d)) \cup KeysAt(t, Kid(p, 1 - d))
  BY <1>1, <1>2 DEF KeysAt
<1>4. p \notin Paths(t) => KeysAt(t, p) = {}
  BY Closed DEF KeysAt
<1>5. KeysAt(t, Kid(p, d)) \subseteq KeysAt(t, p)
  BY <1>1, <1>2 DEF KeysAt
<1> QED
  BY <1>3, <1>4, <1>5

(* What is below a link of one tree goes with what is below the other.    *)
LEMMA SameIs ==
    ASSUME NEW t, Formed(t), NEW u, Paths(u) \subseteq Links, NEW a \in Links, NEW b \in Links, Same(t, a, u, b)
    PROVE  /\ Height(u, b) = Height(t, a)
           /\ KeysAt(u, b) = KeysAt(t, a)
           /\ \A q \in Paths(u) : Ext(b, q) =>
                 \E r \in Paths(t) : /\ Ext(a, r) /\ u[q] = t[r] /\ Len(q) - Len(b) = Len(r) - Len(a)
                                     /\ OrderedAt(t, r) => OrderedAt(u, q)
                                     /\ BalancedAt(t, r) => BalancedAt(u, q)
<1>1. Paths(t) \subseteq Links
  BY DEF Formed
<1>2. ASSUME NEW s \in Links
      PROVE  Same(t, Desc(a, s), u, Desc(b, s)) /\ Desc(a, s) \in Links /\ Desc(b, s) \in Links
  <2>1. \A v \in Links : /\ Desc(Desc(a, s), v) = Desc(a, Desc(s, v)) /\ Desc(s, v) \in Links
                         /\ Desc(Desc(b, s), v) = Desc(b, Desc(s, v))
    BY DescLaws, PathTypes
  <2> QED
    BY <2>1, PathTypes DEF Same
<1>3. ASSUME NEW x \in Links, NEW y \in Links, Same(t, x, u, y)
      PROVE  Height(u, y) = Height(t, x) /\ KeysAt(u, y) = KeysAt(t, x)
  <2>0. Root \in Links /\ Desc(x, Root) = x /\ Desc(y, Root) = y
    BY PathTypes, DescLaws
  <2>1. x \in Paths(t) <=> y \in Paths(u)
    BY <1>3, <2>0 DEF Same
  <2>2. x \in Paths(t) => u[y] = t[x]
    BY <1>3, <2>0 DEF Same
  <2>3. Height(u, y) = Height(t, x)
    BY <2>1, <2>2 DEF Height
  <2>4. KeysAt(t, x) = {t[Desc(x, s)].key : s \in {v \in Links : Desc(x, v) \in Paths(t)}}
    BY <1>1 DEF KeysAt, Ext
  <2>5. KeysAt(u, y) = {u[Desc(y, s)].key : s \in {v \in Links : Desc(y, v) \in Paths(u)}}
    BY DEF KeysAt, Ext
  <2> QED
    BY <1>3, <2>3, <2>4, <2>5 DEF Same
<1>4. ASSUME NEW q \in Paths(u), Ext(b, q)
      PROVE  \E r \in Paths(t) : /\ Ext(a, r) /\ u[q] = t[r] /\ Len(q) - Len(b) = Len(r) - Len(a)
                                 /\ OrderedAt(t, r) => OrderedAt(u, q)
                                 /\ BalancedAt(t, r) => BalancedAt(u, q)
  <2>1. PICK s \in Links : q = Desc(b, s)
    BY <1>4 DEF Ext
  <2> DEFINE r == Desc(a, s)
  <2>2. r \in Paths(t) /\ u[q] = t[r] /\ Ext(a, r)
    <3>1. Ext(a, r)
      BY DEF Ext
    <3>2. Desc(b, s) \in Paths(u)
      BY <2>1
    <3>3. r \in Paths(t) /\ u[Desc(b, s)] = t[r]
      BY <3>2 DEF Same
    <3> QED
      BY <2>1, <3>1, <3>3
  <2>3. Len(q) - Len(b) = Len(r) - Len(a)
    <3>1. Len(q) = Len(b) + Len(s) /\ Len(r) = Len(a) + Len(s)
      BY <2>1, PathLengths
    <3>2. Len(a) \in Nat /\ Len(b) \in Nat /\ Len(s) \in Nat
      BY PathTypes
    <3> QED
      BY <3>1, <3>2
  <2>4. ASSUME NEW d \in Bits
        PROVE  /\ Height(u, Kid(q, d)) = Height(t, Kid(r, d))
               /\ KeysAt(u, Kid(q, d)) = KeysAt(t, Kid(r, d))
    <3>1. Kid(q, d) = Desc(b, Kid(s, d)) /\ Kid(r, d) = Desc(a, Kid(s, d)) /\ Kid(s, d) \in Links
      BY <2>1, DescLaws, PathTypes
    <3> QED
      BY <1>2, <1>3, <3>1
  <2> HIDE DEF r
  <2>5. OrderedAt(t, r) => OrderedAt(u, q)
    BY <2>2, <2>4 DEF OrderedAt
  <2>6. BalancedAt(t, r) => BalancedAt(u, q)
    BY <2>2, <2>4 DEF BalancedAt, Bits
  <2> QED
    BY <2>2, <2>3, <2>5, <2>6
<1>5. Same(t, a, u, b) /\ a \in Links /\ b \in Links
  OBVIOUS
<1> QED
  BY <1>3, <1>4, <1>5

(* Where a node of the tree goes. *)
Placed(nodes, subtrees, q) ==
    IF q \in DOMAIN nodes THEN nodes[q]
    ELSE IF {m \in subtrees : IsPrefix(m[1], q)} = {} THEN q
    ELSE LET m == CHOOSE x \in {m \in subtrees : IsPrefix(m[1], q)} : TRUE
         IN  m[2] \o SubSeq(q, Len(m[1]) + 1, Len(q))

LEMMA PlacedIs ==
    ASSUME NEW nodes, NEW M \in SUBSET (Links \X Links), NEW q \in Links, q \notin DOMAIN nodes
    PROVE  /\ (\A m \in M : ~ Ext(m[1], q)) => Placed(nodes, M, q) = q
           /\ \A m \in M, s \in Links :
                 q = Desc(m[1], s) /\ (\A n \in M : Ext(n[1], q) => n = m) => Placed(nodes, M, q) = Desc(m[2], s)
<1>1. \A m \in M : m[1] \in Links /\ m[2] \in Links
  OBVIOUS
<1> DEFINE U == {m \in M : IsPrefix(m[1], q)}
<1>2. U = {m \in M : Ext(m[1], q)}
  BY <1>1, PrefixIs
<1>3. U = {} => Placed(nodes, M, q) = q
  BY DEF Placed
<1>4. ASSUME NEW m \in M, NEW s \in Links, q = Desc(m[1], s), \A n \in M : Ext(n[1], q) => n = m
      PROVE  Placed(nodes, M, q) = Desc(m[2], s)
  <2>1. U = {m}
    BY <1>2, <1>4 DEF Ext
  <2>2. (CHOOSE x \in U : TRUE) = m
    BY <2>1
  <2>3. Placed(nodes, M, q) = m[2] \o SubSeq(q, Len(m[1]) + 1, Len(q))
    BY <2>1, <2>2 DEF Placed
  <2>4. SubSeq(q, Len(m[1]) + 1, Len(q)) = s
    BY <1>1, <1>4, PrefixIs
  <2> QED
    BY <2>3, <2>4 DEF Desc
<1> QED
  BY <1>2, <1>3, <1>4

(* The nodes at nodes and below the links in M move to places of their     *)
(* own, apart from the nodes in S, which stay, and so everything is where  *)
(* it has moved to.                                                        *)
Movable(t, nodes, M, S) ==
    /\ Paths(t) \subseteq Links
    /\ DOMAIN nodes \subseteq Paths(t) /\ \A a \in DOMAIN nodes : nodes[a] \in Links
    /\ \A a, b \in DOMAIN nodes : nodes[a] = nodes[b] => a = b
    /\ M \in SUBSET (Links \X Links)
    /\ \A m \in M, a \in DOMAIN nodes : ~ Ext(m[1], a) /\ ~ Ext(m[2], nodes[a])
    /\ \A m, n \in M, q \in Links : /\ Ext(m[1], q) /\ Ext(n[1], q) => m = n
                                    /\ Ext(m[2], q) /\ Ext(n[2], q) => m = n
    /\ S = {q \in Paths(t) : q \notin DOMAIN nodes /\ \A m \in M : ~ Ext(m[1], q)}
    /\ \A q \in S : (\A a \in DOMAIN nodes : q # nodes[a]) /\ (\A m \in M : ~ Ext(m[2], q))

MovedTo(t, nodes, M, S, u) ==
    /\ Paths(u) \subseteq Links /\ u = [q \in Paths(u) |-> u[q]]
    /\ \A a \in DOMAIN nodes : nodes[a] \in Paths(u) /\ u[nodes[a]] = t[a]
    /\ \A m \in M : Same(t, m[1], u, m[2])
    /\ \A q \in S : q \in Paths(u) /\ u[q] = t[q]
    /\ \A q \in Paths(u) : \/ \E a \in DOMAIN nodes : q = nodes[a]
                           \/ \E m \in M : Ext(m[2], q)
                           \/ q \in S

LEMMA Moves ==
    ASSUME NEW t, NEW nodes, NEW M, NEW S, Movable(t, nodes, M, S), NEW u, u = Relinked(t, nodes, M)
    PROVE  MovedTo(t, nodes, M, S, u)
<1> USE DEF Movable
<1> DEFINE Place(q) == Placed(nodes, M, q)
           A == DOMAIN nodes
<1>1. \A m \in M : m[1] \in Links /\ m[2] \in Links
  OBVIOUS
<1>2. \A a \in A : Place(a) = nodes[a]
  BY DEF Placed
<1> DEFINE Apart(k) == \A m, n \in M, q \in Links : Ext(m[k], q) /\ Ext(n[k], q) => m = n
<1>a. Apart(2) /\ \A m \in M, a \in A : ~ Ext(m[2], nodes[a])
  OBVIOUS
<1>b. \A q \in S, m \in M : ~ Ext(m[2], q)
  OBVIOUS
<1>3. ASSUME NEW m \in M, NEW s \in Links
      PROVE  /\ Desc(m[1], s) \in Links /\ Desc(m[2], s) \in Links
             /\ Ext(m[1], Desc(m[1], s)) /\ Ext(m[2], Desc(m[2], s))
             /\ Desc(m[1], s) \notin A /\ Place(Desc(m[1], s)) = Desc(m[2], s)
  <2>1. Desc(m[1], s) \in Links /\ Desc(m[2], s) \in Links
    BY <1>1, PathTypes
  <2>2. Ext(m[1], Desc(m[1], s)) /\ Ext(m[2], Desc(m[2], s))
    BY DEF Ext
  <2>3. Desc(m[1], s) \notin A
    BY <2>2
  <2>4. \A n \in M : Ext(n[1], Desc(m[1], s)) => n = m
    BY <2>1, <2>2
  <2> QED
    BY <2>1, <2>2, <2>3, <2>4, PlacedIs
<1>4. ASSUME NEW q \in S PROVE Place(q) = q /\ q \in Links
  BY PlacedIs
<1>5. ASSUME NEW q \in Paths(t)
      PROVE  \/ q \in A
             \/ \E m \in M, s \in Links : q = Desc(m[1], s)
             \/ q \in S
  BY DEF Ext
<1> HIDE DEF Place
<1>6. ASSUME NEW q \in Paths(t), NEW r \in Paths(t), Place(q) = Place(r)
      PROVE  q = r
  <2>1. CASE q \in A
    <3>1. r \in A
      BY <1>2, <1>3, <1>4, <1>5, <1>6, <2>1
    <3> QED
      BY <1>2, <1>6, <2>1, <3>1
  <2>2. CASE q \in S
    <3>1. r \in S
      BY <1>2, <1>3, <1>4, <1>5, <1>6, <2>2
    <3> QED
      BY <1>4, <1>6, <2>2, <3>1
  <2>3. ASSUME NEW m \in M, NEW s \in Links, q = Desc(m[1], s) PROVE q = r
    <3>1. Place(q) = Desc(m[2], s) /\ Ext(m[2], Place(q)) /\ Place(q) \in Links
      BY <1>3, <2>3
    <3>a. Ext(m[2], Place(r))
      BY <1>6, <3>1
    <3>b. r \notin A
      BY <1>2, <1>a, <3>a
    <3>2. r \notin A /\ r \notin S
      BY <1>4, <1>b, <3>a, <3>b
    <3>3. PICK n \in M, v \in Links : r = Desc(n[1], v)
      BY <1>5, <3>2
    <3>4. Place(r) = Desc(n[2], v) /\ Ext(n[2], Place(r))
      BY <1>3, <3>3
    <3>5. n = m
      BY <1>6, <1>a, <3>1, <3>4
    <3>6. s = v
      <4>1. Desc(m[2], s) = Desc(m[2], v) /\ m[2] \in Links
        BY <1>1, <1>6, <3>1, <3>4, <3>5
      <4> QED
        BY <4>1, DescLaws
    <3> QED
      BY <2>3, <3>3, <3>5, <3>6
  <2> QED
    BY <1>5, <2>1, <2>2, <2>3
<1>7. u = [r \in {Place(q) : q \in Paths(t)} |-> t[CHOOSE q \in Paths(t) : Place(q) = r]]
  BY DEF Relinked, Place, Placed
<1>8. Paths(u) = {Place(q) : q \in Paths(t)} /\ u = [q \in Paths(u) |-> u[q]]
  BY <1>7 DEF Paths
<1>9. ASSUME NEW q \in Paths(t) PROVE u[Place(q)] = t[q]
  <2>1. (CHOOSE r \in Paths(t) : Place(r) = Place(q)) = q
    BY <1>6
  <2> QED
    BY <1>7, <2>1
<1>10. \A a \in A : nodes[a] \in Paths(u) /\ u[nodes[a]] = t[a]
  BY <1>2, <1>8, <1>9
<1>11. \A q \in S : q \in Paths(u) /\ u[q] = t[q]
  BY <1>4, <1>8, <1>9
<1>12. ASSUME NEW m \in M PROVE Same(t, m[1], u, m[2])
  <2> SUFFICES ASSUME NEW s \in Links
               PROVE  /\ Desc(m[1], s) \in Paths(t) <=> Desc(m[2], s) \in Paths(u)
                      /\ Desc(m[1], s) \in Paths(t) => u[Desc(m[2], s)] = t[Desc(m[1], s)]
    BY DEF Same
  <2>1. Desc(m[1], s) \in Paths(t) => Desc(m[2], s) \in Paths(u) /\ u[Desc(m[2], s)] = t[Desc(m[1], s)]
    BY <1>3, <1>8, <1>9
  <2>2. ASSUME Desc(m[2], s) \in Paths(u) PROVE Desc(m[1], s) \in Paths(t)
    <3>1. PICK q \in Paths(t) : Place(q) = Desc(m[2], s)
      BY <1>8, <2>2
    <3>2. Ext(m[2], Place(q)) /\ Place(q) \in Links
      BY <1>3, <3>1
    <3>3. q \notin A /\ q \notin S
      BY <1>2, <1>4, <1>a, <1>b, <3>2
    <3>4. PICK n \in M, v \in Links : q = Desc(n[1], v)
      BY <1>5, <3>3
    <3>5. Place(q) = Desc(n[2], v) /\ Ext(n[2], Place(q))
      BY <1>3, <3>4
    <3>6. n = m
      BY <1>a, <3>2, <3>5
    <3>7. s = v
      <4>1. Desc(m[2], s) = Desc(m[2], v) /\ m[2] \in Links
        BY <1>1, <3>1, <3>5, <3>6
      <4> QED
        BY <4>1, DescLaws
    <3> QED
      BY <3>4, <3>6, <3>7
  <2> QED
    BY <2>1, <2>2
<1>13. ASSUME NEW q \in Paths(u)
       PROVE  /\ q \in Links
              /\ \/ \E a \in A : q = nodes[a]
                 \/ \E m \in M : Ext(m[2], q)
                 \/ q \in S
  <2>1. PICK r \in Paths(t) : q = Place(r)
    BY <1>8
  <2> QED
    BY <1>2, <1>3, <1>4, <1>5, <2>1
<1> QED
  BY <1>8, <1>10, <1>11, <1>12, <1>13 DEF MovedTo

(* u is t but for the height at p. *)
Raised(t, u, p, k, h) ==
    /\ Paths(u) = Paths(t) /\ u = [q \in Paths(u) |-> u[q]]
    /\ u[p] = [key |-> k, h |-> h]
    /\ \A q \in Paths(t) : q # p => u[q] = t[q]

LEMMA SetHeight ==
    ASSUME NEW t, t = [q \in Paths(t) |-> t[q]], NEW p \in Paths(t), NEW k, NEW h0, t[p] = [key |-> k, h |-> h0],
           NEW h1, NEW u, u = [t EXCEPT ![p].h = h1]
    PROVE  Raised(t, u, p, k, h1)
<1>1. [t[p] EXCEPT !.h = h1] = [key |-> k, h |-> h1]
  OBVIOUS
<1>2. u = [q \in Paths(t) |-> IF q = p THEN [key |-> k, h |-> h1] ELSE t[q]]
  BY <1>1 DEF Paths
<1> QED
  BY <1>2 DEF Raised, Paths

(* A part of the tree stays as it is where no node of it changes. *)
LEMMA SameKept ==
    ASSUME NEW t, NEW a, NEW u, NEW v, NEW b \in Links, Same(t, a, u, b), Paths(v) = Paths(u),
           \A q \in Paths(u) : Ext(b, q) => v[q] = u[q]
    PROVE  Same(t, a, v, b)
BY DEF Same, Ext

LEMMA SameClosed ==
    ASSUME NEW t, Formed(t), NEW u, NEW a \in Links, NEW b \in Links, Same(t, a, u, b),
           NEW q \in Links, Ext(b, q), NEW d \in Bits, Kid(q, d) \in Paths(u)
    PROVE  q \in Paths(u)
<1>1. PICK s \in Links : q = Desc(b, s)
  BY DEF Ext
<1>2. Kid(q, d) = Desc(b, Kid(s, d)) /\ Kid(Desc(a, s), d) = Desc(a, Kid(s, d)) /\ Kid(s, d) \in Links
  BY <1>1, DescLaws, PathTypes
<1>3. Kid(Desc(a, s), d) \in Paths(t) /\ Desc(a, s) \in Links
  BY <1>2, PathTypes DEF Same
<1>4. Desc(a, s) \in Paths(t)
  BY <1>3 DEF Formed
<1> QED
  BY <1>1, <1>4 DEF Same

LEMMA OutsideKeys ==
    ASSUME NEW t, NEW u, Paths(t) \subseteq Links, Paths(u) \subseteq Links,
           NEW p \in Links, Outside(t, u, p), NEW l \in Links
    PROVE  /\ KeysAt(u, l) \subseteq KeysAt(t, l) \cup KeysAt(u, p)
           /\ KeysAt(t, l) \subseteq KeysAt(u, l) \cup KeysAt(t, p)
           /\ Ext(l, p) => KeysAt(u, p) \subseteq KeysAt(u, l) /\ KeysAt(t, p) \subseteq KeysAt(t, l)
           /\ ~ Ext(l, p) /\ ~ Ext(p, l) => KeysAt(u, l) = KeysAt(t, l)
<1>1. \A q \in Links : ~ Ext(p, q) => /\ q \in Paths(t) <=> q \in Paths(u)
                                      /\ q \in Paths(t) => u[q] = t[q]
  BY DEF Outside
<1>2. ASSUME NEW q \in Links, Ext(l, q), Ext(p, q) PROVE Ext(l, p) \/ Ext(p, l)
  BY <1>2, ExtLaws
<1>3. \A q \in Links : Ext(l, p) /\ Ext(p, q) => Ext(l, q)
  BY ExtLaws
<1>4. KeysAt(u, l) \subseteq KeysAt(t, l) \cup KeysAt(u, p)
  BY <1>1 DEF KeysAt
<1>5. KeysAt(t, l) \subseteq KeysAt(u, l) \cup KeysAt(t, p)
  BY <1>1 DEF KeysAt
<1>6. Ext(l, p) => KeysAt(u, p) \subseteq KeysAt(u, l) /\ KeysAt(t, p) \subseteq KeysAt(t, l)
  BY <1>3 DEF KeysAt
<1>7. ~ Ext(l, p) /\ ~ Ext(p, l) => KeysAt(u, l) = KeysAt(t, l)
  BY <1>1, <1>2 DEF KeysAt
<1> QED
  BY <1>4, <1>5, <1>6, <1>7

-----------------------------------------------------------------------------
(* Rotations. *)
SingleOf(t, u, p, d) ==
    LET x == Kid(p, 1 - d)
        y == Kid(p, d)
    IN  /\ Paths(u) \subseteq Links /\ u = [q \in Paths(u) |-> u[q]] /\ Outside(t, u, p)
        /\ p \in Paths(u) /\ u[p] = [key |-> t[y].key, h |-> Height(t, Kid(y, 1 - d)) + 2]
        /\ x \in Paths(u) /\ u[x] = [key |-> t[p].key, h |-> Height(t, Kid(y, 1 - d)) + 1]
        /\ Same(t, x, u, Kid(x, 1 - d)) /\ Same(t, Kid(y, 1 - d), u, Kid(x, d)) /\ Same(t, Kid(y, d), u, y)

DoubleOf(t, u, p, d) ==
    LET x == Kid(p, 1 - d)
        y == Kid(p, d)
        z == Kid(y, 1 - d)
    IN  /\ Paths(u) \subseteq Links /\ u = [q \in Paths(u) |-> u[q]] /\ Outside(t, u, p)
        /\ p \in Paths(u) /\ u[p] = [key |-> t[z].key, h |-> Height(t, z) + 1]
        /\ x \in Paths(u) /\ u[x] = [key |-> t[p].key, h |-> Height(t, z)]
        /\ y \in Paths(u) /\ u[y] = [key |-> t[y].key, h |-> Height(t, z)]
        /\ Same(t, x, u, Kid(x, 1 - d)) /\ Same(t, Kid(z, 1 - d), u, Kid(x, d))
        /\ Same(t, Kid(z, d), u, z) /\ Same(t, Kid(y, d), u, Kid(y, d))

LEMMA SingleIs ==
    ASSUME NEW t, Formed(t), NEW p \in Paths(t), NEW d \in Bits, Kid(p, d) \in Paths(t),
           Height(t, Kid(Kid(p, d), 1 - d)) <= Height(t, Kid(Kid(p, d), d))
    PROVE  SingleOf(t, Rot(t, p, d), p, d)
<1> DEFINE o == 1 - d
           x == Kid(p, o)
           y == Kid(p, d)
           z == Kid(y, o)
           w == Kid(y, d)
           xo == Kid(x, o)
           xd == Kid(x, d)
           nodes == [q \in {p, y} |-> IF q = p THEN x ELSE p]
           M == {<<x, xo>>, <<z, xd>>, <<w, y>>}
           moved == Relinked(t, nodes, M)
           hz == Height(t, z)
           u1 == [moved EXCEPT ![x].h = hz + 1]
           u == [u1 EXCEPT ![p].h = hz + 2]
<1>1. p \in Links /\ o \in Bits /\ x \in Links /\ y \in Links /\ z \in Links /\ w \in Links /\ xo \in Links /\ xd \in Links
  BY NodeIs, ForkLaws
<1>2. /\ Ext(p, p) /\ ~ Ext(x, p) /\ ~ Ext(y, p)
      /\ \A q \in Links : Ext(p, q) <=> q = p \/ Ext(y, q) \/ Ext(x, q)
      /\ \A q \in Links : ~ (Ext(y, q) /\ Ext(x, q))
  BY <1>1, ForkLaws
<1>3. /\ Ext(y, y) /\ ~ Ext(z, y) /\ ~ Ext(w, y)
      /\ \A q \in Links : Ext(y, q) <=> q = y \/ Ext(w, q) \/ Ext(z, q)
      /\ \A q \in Links : ~ (Ext(w, q) /\ Ext(z, q))
  BY <1>1, ForkLaws
<1>4. /\ Ext(x, x) /\ ~ Ext(xo, x) /\ ~ Ext(xd, x)
      /\ \A q \in Links : Ext(x, q) <=> q = x \/ Ext(xd, q) \/ Ext(xo, q)
      /\ \A q \in Links : ~ (Ext(xd, q) /\ Ext(xo, q))
  BY <1>1, ForkLaws
<1>5. t[p] = [key |-> t[p].key, h |-> t[p].h] /\ t[y] = [key |-> t[y].key, h |-> t[y].h]
  BY NodeIs
<1>6. Rot(t, p, d) = [moved EXCEPT ![x].h = hz + 1, ![p].h = hz + 2]
  <2>1. ~ (Height(t, z) > Height(t, w))
    <3>1. Height(t, z) \in Nat /\ Height(t, w) \in Nat /\ Height(t, z) <= Height(t, w)
      BY HeightIs
    <3> QED
      BY <3>1
  <2> QED
    BY <2>1 DEF Rot, Kid
<1> HIDE DEF o, x, y, z, w, xo, xd, hz
<1>7. DOMAIN nodes = {p, y} /\ nodes[p] = x /\ nodes[y] = p
  BY <1>2, <1>3
<1> HIDE DEF nodes
<1> DEFINE S == {q \in Paths(t) : ~ Ext(p, q)}
<1>8. Paths(t) \subseteq Links /\ y \in Paths(t)
  BY DEF Formed, y
<1>9. /\ DOMAIN nodes \subseteq Paths(t)
      /\ \A a \in DOMAIN nodes : nodes[a] \in Links
      /\ \A a, b \in DOMAIN nodes : nodes[a] = nodes[b] => a = b
  BY <1>1, <1>2, <1>4, <1>7, <1>8
<1>10. M \in SUBSET (Links \X Links)
  BY <1>1
<1>11. \A m \in M, a \in DOMAIN nodes : ~ Ext(m[1], a) /\ ~ Ext(m[2], nodes[a])
  BY <1>1, <1>2, <1>3, <1>4, <1>7
<1>12. \A m, n \in M, q \in Links : /\ Ext(m[1], q) /\ Ext(n[1], q) => m = n
                                    /\ Ext(m[2], q) /\ Ext(n[2], q) => m = n
  BY <1>1, <1>2, <1>3, <1>4
<1>13. S = {q \in Paths(t) : q \notin DOMAIN nodes /\ \A m \in M : ~ Ext(m[1], q)}
  BY <1>1, <1>2, <1>3, <1>7, <1>8
<1>14. \A q \in S : (\A a \in DOMAIN nodes : q # nodes[a]) /\ (\A m \in M : ~ Ext(m[2], q))
  BY <1>1, <1>2, <1>3, <1>4, <1>7, <1>8
<1> HIDE DEF M, S, moved
<1>a. moved = Relinked(t, nodes, M)
  BY DEF moved
<1>b. Movable(t, nodes, M, S)
  BY <1>8, <1>9, <1>10, <1>11, <1>12, <1>13, <1>14 DEF Movable
<1>c. MovedTo(t, nodes, M, S, moved)
  BY <1>a, <1>b, Moves
<1>15. /\ Paths(moved) \subseteq Links /\ moved = [q \in Paths(moved) |-> moved[q]]
       /\ \A a \in DOMAIN nodes : nodes[a] \in Paths(moved) /\ moved[nodes[a]] = t[a]
       /\ \A m \in M : Same(t, m[1], moved, m[2])
       /\ \A q \in S : q \in Paths(moved) /\ moved[q] = t[q]
       /\ \A q \in Paths(moved) : \/ \E a \in DOMAIN nodes : q = nodes[a]
                                  \/ \E m \in M : Ext(m[2], q)
                                  \/ q \in S
  BY <1>c DEF MovedTo
<1>16. p # x /\ p \in Paths(moved) /\ x \in Paths(moved) /\ moved[x] = t[p] /\ moved[p] = t[y]
  BY <1>2, <1>4, <1>7, <1>15
<1>17. /\ Paths(u) = Paths(moved) /\ u = [q \in Paths(u) |-> u[q]]
       /\ u[x] = [key |-> t[p].key, h |-> hz + 1] /\ u[p] = [key |-> t[y].key, h |-> hz + 2]
       /\ \A q \in Paths(moved) : q # x /\ q # p => u[q] = moved[q]
  <2>a. u1 = [moved EXCEPT ![x].h = hz + 1] /\ u = [u1 EXCEPT ![p].h = hz + 2]
    OBVIOUS
  <2> HIDE DEF u1, u
  <2>1. Raised(moved, u1, x, t[p].key, hz + 1)
    BY <1>5, <1>15, <1>16, <2>a, SetHeight
  <2>2. u1[p] = [key |-> t[y].key, h |-> t[y].h] /\ p \in Paths(u1) /\ u1 = [q \in Paths(u1) |-> u1[q]]
    BY <1>5, <1>16, <2>1 DEF Raised
  <2>3. Raised(u1, u, p, t[y].key, hz + 2)
    BY <2>2, <2>a, SetHeight
  <2> QED
    BY <1>16, <2>1, <2>3 DEF Raised
<1>18. Rot(t, p, d) = u
  BY <1>6
<1> HIDE DEF u
<1>19. /\ Same(t, x, u, xo) /\ Same(t, z, u, xd) /\ Same(t, w, u, y)
  <2>1. Same(t, x, moved, xo) /\ Same(t, z, moved, xd) /\ Same(t, w, moved, y)
    BY <1>15 DEF M
  <2>2. \A q \in Paths(moved) : Ext(xo, q) \/ Ext(xd, q) \/ Ext(y, q) => u[q] = moved[q]
    BY <1>1, <1>2, <1>4, <1>15, <1>17
  <2> QED
    BY <1>1, <1>17, <2>1, <2>2, SameKept
<1>20. Outside(t, u, p)
  <2> SUFFICES ASSUME NEW q \in Links, ~ Ext(p, q)
               PROVE  /\ q \in Paths(t) <=> q \in Paths(u)
                      /\ q \in Paths(t) => u[q] = t[q]
    BY DEF Outside
  <2>1. q \in Paths(t) => q \in Paths(u) /\ u[q] = t[q]
    BY <1>1, <1>2, <1>4, <1>15, <1>17 DEF S
  <2>2. q \in Paths(u) => q \in Paths(t)
    <3>1. \A a \in DOMAIN nodes : q # nodes[a]
      BY <1>1, <1>2, <1>4, <1>7
    <3>2. \A m \in M : ~ Ext(m[2], q)
      BY <1>1, <1>2, <1>4 DEF M
    <3> QED
      BY <1>15, <1>17, <3>1, <3>2 DEF S
  <2> QED
    BY <2>1, <2>2
<1> QED
  BY <1>15, <1>16, <1>17, <1>18, <1>19, <1>20 DEF SingleOf, o, x, y, z, w, xo, xd, hz

LEMMA DoubleIs ==
    ASSUME NEW t, Formed(t), NEW p \in Paths(t), NEW d \in Bits, Kid(p, d) \in Paths(t),
           Height(t, Kid(Kid(p, d), 1 - d)) > Height(t, Kid(Kid(p, d), d))
    PROVE  DoubleOf(t, Rot(t, p, d), p, d)
<1> DEFINE o == 1 - d
           x == Kid(p, o)
           y == Kid(p, d)
           z == Kid(y, o)
           w == Kid(y, d)
           zo == Kid(z, o)
           zd == Kid(z, d)
           xo == Kid(x, o)
           xd == Kid(x, d)
           nodes == [q \in {p, z} |-> IF q = p THEN x ELSE p]
           M == {<<x, xo>>, <<zo, xd>>, <<zd, z>>}
           moved == Relinked(t, nodes, M)
           hz == Height(t, z)
           u1 == [moved EXCEPT ![x].h = hz]
           u2 == [u1 EXCEPT ![y].h = hz]
           u == [u2 EXCEPT ![p].h = hz + 1]
<1>1. /\ p \in Links /\ o \in Bits /\ x \in Links /\ y \in Links /\ z \in Links /\ w \in Links
      /\ xo \in Links /\ xd \in Links /\ zo \in Links /\ zd \in Links
  BY NodeIs, ForkLaws
<1>2. /\ Ext(p, p) /\ ~ Ext(x, p) /\ ~ Ext(y, p)
      /\ \A q \in Links : Ext(p, q) <=> q = p \/ Ext(y, q) \/ Ext(x, q)
      /\ \A q \in Links : ~ (Ext(y, q) /\ Ext(x, q))
  BY <1>1, ForkLaws
<1>3. /\ Ext(y, y) /\ ~ Ext(z, y) /\ ~ Ext(w, y)
      /\ \A q \in Links : Ext(y, q) <=> q = y \/ Ext(w, q) \/ Ext(z, q)
      /\ \A q \in Links : ~ (Ext(w, q) /\ Ext(z, q))
  BY <1>1, ForkLaws
<1>4. /\ Ext(x, x) /\ ~ Ext(xo, x) /\ ~ Ext(xd, x)
      /\ \A q \in Links : Ext(x, q) <=> q = x \/ Ext(xd, q) \/ Ext(xo, q)
      /\ \A q \in Links : ~ (Ext(xd, q) /\ Ext(xo, q))
  BY <1>1, ForkLaws
<1>5. /\ Ext(z, z) /\ ~ Ext(zo, z) /\ ~ Ext(zd, z)
      /\ \A q \in Links : Ext(z, q) <=> q = z \/ Ext(zd, q) \/ Ext(zo, q)
      /\ \A q \in Links : ~ (Ext(zd, q) /\ Ext(zo, q))
  BY <1>1, ForkLaws
<1>6. z \in Paths(t)
  <2>1. Height(t, z) > 0
    <3>1. Height(t, z) \in Nat /\ Height(t, w) \in Nat /\ Height(t, z) > Height(t, w)
      BY HeightIs
    <3> QED
      BY <3>1
  <2> QED
    BY <2>1 DEF Height
<1>7. /\ t[p] = [key |-> t[p].key, h |-> t[p].h] /\ t[y] = [key |-> t[y].key, h |-> t[y].h]
      /\ t[z] = [key |-> t[z].key, h |-> t[z].h]
  BY <1>6, NodeIs
<1>8. Rot(t, p, d) = [moved EXCEPT ![x].h = hz, ![y].h = hz, ![p].h = hz + 1]
  <2>1. Height(t, z) > Height(t, w)
    OBVIOUS
  <2> QED
    BY <2>1 DEF Rot, Kid
<1>9. Paths(t) \subseteq Links /\ y \in Paths(t)
  BY DEF Formed
<1> HIDE DEF o, x, y, z, w, xo, xd, zo, zd, hz
<1>10. p # x /\ p # y /\ p # z /\ x # y /\ x # z /\ y # z
  BY <1>1, <1>2, <1>3, <1>4, <1>5
<1>11. DOMAIN nodes = {p, z} /\ nodes[p] = x /\ nodes[z] = p
  BY <1>10
<1> HIDE DEF nodes
<1> DEFINE S == {q \in Paths(t) : ~ Ext(p, q) \/ q = y \/ Ext(w, q)}
<1>12. M \in SUBSET (Links \X Links)
  BY <1>1
<1>13. \A m \in M, a \in DOMAIN nodes : ~ Ext(m[1], a) /\ ~ Ext(m[2], nodes[a])
  BY <1>1, <1>2, <1>3, <1>4, <1>5, <1>11
<1>14. \A m, n \in M, q \in Links : /\ Ext(m[1], q) /\ Ext(n[1], q) => m = n
                                    /\ Ext(m[2], q) /\ Ext(n[2], q) => m = n
  BY <1>1, <1>2, <1>3, <1>4, <1>5
<1>15. S = {q \in Paths(t) : q \notin DOMAIN nodes /\ \A m \in M : ~ Ext(m[1], q)}
  BY <1>1, <1>2, <1>3, <1>5, <1>9, <1>10, <1>11
<1>16. \A q \in S : (\A a \in DOMAIN nodes : q # nodes[a]) /\ (\A m \in M : ~ Ext(m[2], q))
  BY <1>1, <1>2, <1>3, <1>4, <1>5, <1>9, <1>10, <1>11
<1> HIDE DEF M, S, moved
<1>17. moved = Relinked(t, nodes, M)
  BY DEF moved
<1>18. Movable(t, nodes, M, S)
  <2>1. \A a, b \in DOMAIN nodes : nodes[a] = nodes[b] => a = b
    BY <1>10, <1>11
  <2>2. DOMAIN nodes \subseteq Paths(t) /\ \A a \in DOMAIN nodes : nodes[a] \in Links
    BY <1>1, <1>6, <1>11
  <2> QED
    BY <1>9, <1>12, <1>13, <1>14, <1>15, <1>16, <2>1, <2>2 DEF Movable
<1>19. MovedTo(t, nodes, M, S, moved)
  BY <1>17, <1>18, Moves
<1>20. /\ Paths(moved) \subseteq Links /\ moved = [q \in Paths(moved) |-> moved[q]]
       /\ \A m \in M : Same(t, m[1], moved, m[2])
       /\ \A q \in S : q \in Paths(moved) /\ moved[q] = t[q]
       /\ \A q \in Paths(moved) : q = x \/ q = p \/ (\E m \in M : Ext(m[2], q)) \/ q \in S
       /\ p \in Paths(moved) /\ x \in Paths(moved) /\ moved[x] = t[p] /\ moved[p] = t[z]
  BY <1>10, <1>11, <1>19 DEF MovedTo
<1>21. y \in Paths(moved) /\ moved[y] = t[y]
  BY <1>9, <1>20 DEF S
<1>22. /\ Paths(u) = Paths(moved) /\ u = [q \in Paths(u) |-> u[q]]
       /\ u[x] = [key |-> t[p].key, h |-> hz] /\ u[p] = [key |-> t[z].key, h |-> hz + 1]
       /\ u[y] = [key |-> t[y].key, h |-> hz]
       /\ \A q \in Paths(moved) : q # x /\ q # p /\ q # y => u[q] = moved[q]
  <2>1. u1 = [moved EXCEPT ![x].h = hz] /\ u2 = [u1 EXCEPT ![y].h = hz] /\ u = [u2 EXCEPT ![p].h = hz + 1]
    OBVIOUS
  <2> HIDE DEF u1, u2, u
  <2>2. Raised(moved, u1, x, t[p].key, hz)
    BY <1>7, <1>20, <2>1, SetHeight
  <2>3. u1[y] = [key |-> t[y].key, h |-> t[y].h] /\ y \in Paths(u1) /\ u1 = [q \in Paths(u1) |-> u1[q]]
    BY <1>7, <1>10, <1>21, <2>2 DEF Raised
  <2>4. Raised(u1, u2, y, t[y].key, hz)
    BY <2>1, <2>3, SetHeight
  <2>5. u2[p] = [key |-> t[z].key, h |-> t[z].h] /\ p \in Paths(u2) /\ u2 = [q \in Paths(u2) |-> u2[q]]
    BY <1>7, <1>10, <1>20, <2>2, <2>4 DEF Raised
  <2>6. Raised(u2, u, p, t[z].key, hz + 1)
    <3>1. u = [u2 EXCEPT ![p].h = hz + 1]
      BY <2>1
    <3> QED
      BY ONLY <2>5, <3>1, SetHeight
  <2> QED
    BY <1>10, <1>20, <1>21, <2>2, <2>4, <2>6 DEF Raised
<1>23. Rot(t, p, d) = u
  BY <1>8
<1> HIDE DEF u
<1>24. Same(t, w, u, w)
  <2> SUFFICES ASSUME NEW s \in Links
               PROVE  /\ Desc(w, s) \in Paths(t) <=> Desc(w, s) \in Paths(u)
                      /\ Desc(w, s) \in Paths(t) => u[Desc(w, s)] = t[Desc(w, s)]
    BY DEF Same
  <2>1. Desc(w, s) \in Links /\ Ext(w, Desc(w, s))
    BY <1>1, PathTypes DEF Ext
  <2>2. Desc(w, s) # x /\ Desc(w, s) # p /\ Desc(w, s) # y /\ \A m \in M : ~ Ext(m[2], Desc(w, s))
    BY <1>1, <1>2, <1>3, <1>4, <1>5, <2>1 DEF M
  <2>3. Desc(w, s) \in Paths(u) => Desc(w, s) \in Paths(t)
    BY <1>20, <1>22, <2>2 DEF S
  <2>4. Desc(w, s) \in Paths(t) => Desc(w, s) \in S
    BY <2>1 DEF S
  <2> QED
    BY <1>20, <1>22, <2>2, <2>3, <2>4
<1>25. Same(t, x, u, xo) /\ Same(t, zo, u, xd) /\ Same(t, zd, u, z)
  <2>1. Same(t, x, moved, xo) /\ Same(t, zo, moved, xd) /\ Same(t, zd, moved, z)
    BY <1>20 DEF M
  <2>2. \A q \in Paths(moved) : Ext(xo, q) \/ Ext(xd, q) \/ Ext(z, q) => u[q] = moved[q]
    BY <1>1, <1>2, <1>3, <1>4, <1>20, <1>22
  <2> QED
    BY <1>1, <1>22, <2>1, <2>2, SameKept
<1>26. Outside(t, u, p)
  <2> SUFFICES ASSUME NEW q \in Links, ~ Ext(p, q)
               PROVE  /\ q \in Paths(t) <=> q \in Paths(u)
                      /\ q \in Paths(t) => u[q] = t[q]
    BY DEF Outside
  <2>1. q # x /\ q # p /\ q # y /\ \A m \in M : ~ Ext(m[2], q)
    BY <1>1, <1>2, <1>3, <1>4 DEF M
  <2>2. q \in Paths(t) => q \in Paths(u) /\ u[q] = t[q]
    BY <1>20, <1>22, <2>1 DEF S
  <2>3. q \in Paths(u) => q \in Paths(t)
    BY <1>20, <1>22, <2>1 DEF S
  <2> QED
    BY <2>2, <2>3
<1> QED
  BY <1>20, <1>21, <1>22, <1>23, <1>24, <1>25, <1>26 DEF DoubleOf, o, x, y, z, w, xo, xd, zo, zd, hz

LEMMA KidIs ==
    ASSUME NEW p \in Links, NEW q \in Links, NEW d \in Bits, NEW e \in Bits, Kid(p, d) = Kid(q, e)
    PROVE  p = q /\ d = e
<1>1. p \in Seq(Bits) /\ q \in Seq(Bits)
  BY DEF Links
<1> QED
  BY <1>1, AppendInjective DEF Kid

LEMMA BeyondLaws ==
    ASSUME NEW k \in Elements, NEW m \in Elements, NEW n \in Elements, NEW d \in Bits
    PROVE  /\ Beyond(d, k, m) => Beyond(1 - d, m, k)
           /\ Beyond(d, k, m) /\ Beyond(d, m, n) => Beyond(d, k, n)
           /\ Beyond(d, k, m) => k # m /\ Rank[k] # Rank[m]
<1>1. Rank[k] \in Nat /\ Rank[m] \in Nat /\ Rank[n] \in Nat
  BY TreeAssumption
<1>2. d = 0 \/ d = 1
  BY DEF Bits
<1> QED
  BY <1>1, <1>2 DEF Beyond

LEMMA KeysTyped ==
    ASSUME NEW t, Formed(t), NEW p
    PROVE  KeysAt(t, p) \subseteq Elements
BY DEF KeysAt, Formed

(* Below p, u has the nodes N and what t has below the first of a pair of  *)
(* M, below the second.                                                    *)
Turned(t, u, p, N, M) ==
    /\ p \in Paths(t) /\ Outside(t, u, p)
    /\ Paths(u) \subseteq Links /\ u = [q \in Paths(u) |-> u[q]]
    /\ N \subseteq Paths(u)
    /\ \A n \in N : /\ Ext(p, n) /\ u[n] \in [key : Elements, h : Nat] /\ Len(n) <= Len(p) + 1
                    /\ n = p \/ \E q \in N, e \in Bits : n = Kid(q, e)
    /\ M \subseteq Links \X Links
    /\ \A m \in M : /\ Same(t, m[1], u, m[2]) /\ Ext(p, m[2]) /\ Len(m[2]) <= Len(m[1]) + 1
                    /\ m[2] = p \/ \E q \in N, e \in Bits : m[2] = Kid(q, e)
    /\ \A q \in Paths(u) : Ext(p, q) => q \in N \/ \E m \in M : Ext(m[2], q)

LEMMA TurnedFormed ==
    ASSUME NEW t, Formed(t), NEW u, NEW p, NEW N, NEW M, Turned(t, u, p, N, M)
    PROVE  Formed(u)
<1> USE DEF Turned
<1>1. p \in Links /\ p \in Paths(t) /\ N \subseteq Links /\ \A m \in M : m[1] \in Links /\ m[2] \in Links
  BY NodeIs
<1>2. \A q \in Links : ~ Ext(p, q) => /\ q \in Paths(t) <=> q \in Paths(u)
                                      /\ q \in Paths(t) => u[q] = t[q]
  BY DEF Outside
<1>3. ASSUME NEW q \in Links, NEW d \in Bits, p = Kid(q, d) PROVE q \in Paths(u)
  <2>1. q \in Paths(t)
    BY <1>1, <1>3 DEF Formed
  <2>2. ~ Ext(p, q)
    BY <1>3, ForkLaws
  <2> QED
    BY <1>2, <2>1, <2>2
<1>4. ASSUME NEW q \in Links, NEW d \in Bits, Kid(q, d) \in Paths(u) PROVE q \in Paths(u)
  <2>1. Kid(q, d) \in Links
    BY PathTypes
  <2>2. CASE ~ Ext(p, Kid(q, d))
    <3>1. Kid(q, d) \in Paths(t)
      BY <1>2, <1>4, <2>1, <2>2
    <3>2. q \in Paths(t)
      BY <3>1 DEF Formed
    <3>3. Ext(q, Kid(q, d))
      BY ForkLaws
    <3>4. ~ Ext(p, q)
      BY <1>1, <2>1, <2>2, <3>3, ExtLaws
    <3> QED
      BY <1>2, <3>2, <3>4
  <2>3. CASE Kid(q, d) \in N
    <3>1. Kid(q, d) = p \/ \E r \in N, e \in Bits : Kid(q, d) = Kid(r, e)
      BY <2>3
    <3>2. \A r \in N, e \in Bits : Kid(q, d) = Kid(r, e) => q \in Paths(u)
      BY <1>1, KidIs
    <3> QED
      BY <1>3, <3>1, <3>2
  <2>4. ASSUME NEW m \in M, Ext(m[2], Kid(q, d)) PROVE q \in Paths(u)
    <3>1. Ext(m[2], q) \/ m[2] = Kid(q, d)
      BY <1>1, <2>4, ExtLaws
    <3>2. Ext(m[2], q) => q \in Paths(u)
      <4>1. Same(t, m[1], u, m[2]) /\ m[1] \in Links /\ m[2] \in Links
        BY <1>1
      <4> QED
        BY <1>4, <4>1, SameClosed
    <3>3. m[2] = p \/ \E r \in N, e \in Bits : m[2] = Kid(r, e)
      OBVIOUS
    <3>4. \A r \in N, e \in Bits : Kid(q, d) = Kid(r, e) => q \in Paths(u)
      BY <1>1, KidIs
    <3> QED
      BY <1>3, <3>1, <3>2, <3>3, <3>4
  <2> QED
    BY <1>4, <2>2, <2>3, <2>4
<1>5. PICK n \in Nat : \A q \in Paths(t) : Len(q) <= n
  BY DEF Formed
<1>6. ASSUME NEW q \in Paths(u), NEW m \in M, Ext(m[2], q)
      PROVE  u[q] \in [key : Elements, h : Nat] /\ Len(q) <= n + 1
  <2>1. Same(t, m[1], u, m[2]) /\ m[1] \in Links /\ m[2] \in Links /\ Len(m[2]) <= Len(m[1]) + 1
    BY <1>1
  <2>2. PICK r \in Paths(t) : u[q] = t[r] /\ Len(q) - Len(m[2]) = Len(r) - Len(m[1])
    <3>1. Formed(t) /\ Paths(u) \subseteq Links /\ q \in Paths(u)
      OBVIOUS
    <3> QED
      BY ONLY <1>6, <2>1, <3>1, SameIs
  <2>3. q \in Links /\ r \in Links
    BY DEF Formed
  <2>4. Len(q) \in Nat /\ Len(r) \in Nat /\ Len(m[1]) \in Nat /\ Len(m[2]) \in Nat
    BY <2>1, <2>3, PathTypes
  <2>5. Len(q) <= n + 1
    BY <1>5, <2>1, <2>2, <2>4
  <2> QED
    BY <2>2, <2>5 DEF Formed
<1>7. ASSUME NEW q \in Paths(u), ~ Ext(p, q)
      PROVE  u[q] \in [key : Elements, h : Nat] /\ Len(q) <= n + 1
  <2>1. q \in Paths(t) /\ u[q] = t[q]
    BY <1>2, <1>7
  <2>2. Len(q) \in Nat /\ Len(q) <= n
    BY <1>5, <2>1, PathTypes
  <2> QED
    BY <2>1, <2>2 DEF Formed
<1>8. ASSUME NEW q \in N
      PROVE  u[q] \in [key : Elements, h : Nat] /\ Len(q) <= n + 1
  <2>1. Len(p) \in Nat /\ Len(q) \in Nat /\ Len(p) <= n /\ Len(q) <= Len(p) + 1
    BY <1>1, <1>5, PathTypes
  <2> QED
    BY <2>1
<1>9. \A q \in Paths(u) : u[q] \in [key : Elements, h : Nat] /\ Len(q) <= n + 1
  BY <1>6, <1>7, <1>8
<1>10. n + 1 \in Nat /\ u \in [Paths(u) -> [key : Elements, h : Nat]]
  BY <1>9
<1> QED
  BY <1>4, <1>9, <1>10 DEF Formed

LEMMA TurnedElsewhere ==
    ASSUME NEW t, Formed(t), NEW u, NEW p, NEW N, NEW M, Turned(t, u, p, N, M),
           KeysAt(u, p) \subseteq KeysAt(t, p), NEW q \in Paths(u), q \notin N
    PROVE  /\ ~ Ext(p, q) => q \in Paths(t) /\ (OrderedAt(t, q) => OrderedAt(u, q))
           /\ Ext(p, q) => \E m \in M, r \in Paths(t) : /\ Ext(m[1], r) /\ Ext(m[2], q)
                                                        /\ OrderedAt(t, r) => OrderedAt(u, q)
                                                        /\ BalancedAt(t, r) => BalancedAt(u, q)
<1>1. /\ p \in Links /\ p \in Paths(t) /\ q \in Links /\ Outside(t, u, p)
      /\ Paths(t) \subseteq Links /\ Paths(u) \subseteq Links
  BY NodeIs DEF Turned, Formed
<1>2. ASSUME ~ Ext(p, q) PROVE q \in Paths(t) /\ (OrderedAt(t, q) => OrderedAt(u, q))
  <2>1. q \in Paths(t) /\ u[q] = t[q]
    BY <1>1, <1>2 DEF Outside
  <2>2. ASSUME NEW d \in Bits PROVE KeysAt(u, Kid(q, d)) \subseteq KeysAt(t, Kid(q, d))
    <3> DEFINE l == Kid(q, d)
    <3>1. l \in Links
      BY <1>1, PathTypes
    <3>2. Ext(p, l) => l = p
      BY <1>1, <1>2, ExtLaws
    <3>3. Ext(p, p)
      BY <1>1, ForkLaws
    <3> HIDE DEF l
    <3>4. /\ KeysAt(u, l) \subseteq KeysAt(t, l) \cup KeysAt(u, p)
          /\ Ext(l, p) => KeysAt(t, p) \subseteq KeysAt(t, l)
          /\ ~ Ext(l, p) /\ ~ Ext(p, l) => KeysAt(u, l) = KeysAt(t, l)
      BY <1>1, <3>1, OutsideKeys
    <3>5. KeysAt(u, l) \subseteq KeysAt(t, l)
      BY <3>2, <3>3, <3>4
    <3> QED
      BY <3>5 DEF l
  <2> QED
    BY <2>1, <2>2 DEF OrderedAt
<1>3. ASSUME Ext(p, q)
      PROVE  \E m \in M, r \in Paths(t) : /\ Ext(m[1], r) /\ Ext(m[2], q)
                                          /\ OrderedAt(t, r) => OrderedAt(u, q)
                                          /\ BalancedAt(t, r) => BalancedAt(u, q)
  <2>1. PICK m \in M : Ext(m[2], q)
    BY <1>3 DEF Turned
  <2>2. Same(t, m[1], u, m[2]) /\ m[1] \in Links /\ m[2] \in Links
    BY DEF Turned
  <2>3. \E r \in Paths(t) : /\ Ext(m[1], r)
                            /\ OrderedAt(t, r) => OrderedAt(u, q)
                            /\ BalancedAt(t, r) => BalancedAt(u, q)
    <3>1. Formed(t) /\ q \in Paths(u)
      OBVIOUS
    <3> QED
      BY ONLY <1>1, <2>1, <2>2, <3>1, SameIs
  <2> QED
    BY <2>1, <2>3
<1> QED
  BY <1>2, <1>3

LEMMA SingleTurned ==
    ASSUME NEW t, Formed(t), NEW p \in Paths(t), NEW d \in Bits, Kid(p, d) \in Paths(t),
           NEW u, SingleOf(t, u, p, d),
           NEW x, x = Kid(p, 1 - d), NEW y, y = Kid(p, d)
    PROVE  /\ Turned(t, u, p, {p, x}, {<<x, Kid(x, 1 - d)>>, <<Kid(y, 1 - d), Kid(x, d)>>, <<Kid(y, d), y>>})
           /\ Formed(u)
<1> DEFINE o == 1 - d
           z == Kid(y, o)
           w == Kid(y, d)
           xo == Kid(x, o)
           xd == Kid(x, d)
           N == {p, x}
           M == {<<x, xo>>, <<z, xd>>, <<w, y>>}
<1>1. /\ p \in Links /\ o \in Bits /\ x \in Links /\ y \in Links /\ z \in Links /\ w \in Links
      /\ xo \in Links /\ xd \in Links
  BY NodeIs, ForkLaws
<1>2. Ext(p, p) /\ \A q \in Links : Ext(p, q) <=> q = p \/ Ext(y, q) \/ Ext(x, q)
  BY <1>1, ForkLaws
<1>3. Ext(y, y) /\ Ext(x, x) /\ \A q \in Links : Ext(x, q) <=> q = x \/ Ext(xd, q) \/ Ext(xo, q)
  BY <1>1, ForkLaws
<1>4. Ext(xo, xo) /\ Ext(xd, xd)
  BY <1>1, ForkLaws
<1>5. /\ Paths(u) \subseteq Links /\ u = [q \in Paths(u) |-> u[q]] /\ Outside(t, u, p)
      /\ p \in Paths(u) /\ u[p] = [key |-> t[y].key, h |-> Height(t, z) + 2]
      /\ x \in Paths(u) /\ u[x] = [key |-> t[p].key, h |-> Height(t, z) + 1]
      /\ Same(t, x, u, xo) /\ Same(t, z, u, xd) /\ Same(t, w, u, y)
  BY DEF SingleOf
<1>6. Height(t, z) \in Nat /\ t[y].key \in Elements /\ t[p].key \in Elements
  BY HeightIs, NodeIs
<1>7. /\ Len(x) = Len(p) + 1 /\ Len(y) = Len(p) + 1 /\ Len(z) = Len(y) + 1 /\ Len(w) = Len(y) + 1
      /\ Len(xo) = Len(x) + 1 /\ Len(xd) = Len(x) + 1 /\ Len(p) \in Nat
  BY <1>1, PathLengths, PathTypes
<1>8. /\ x = Kid(p, o) /\ y = Kid(p, d) /\ xo = Kid(x, o) /\ xd = Kid(x, d)
  OBVIOUS
<1> HIDE DEF o, z, w, xo, xd
<1>9. \A n \in N : /\ Ext(p, n) /\ u[n] \in [key : Elements, h : Nat] /\ Len(n) <= Len(p) + 1
                   /\ n = p \/ \E q \in N, e \in Bits : n = Kid(q, e)
  <2>1. u[p] \in [key : Elements, h : Nat] /\ u[x] \in [key : Elements, h : Nat]
    BY <1>5, <1>6
  <2>2. Len(p) <= Len(p) + 1 /\ Len(x) <= Len(p) + 1
    BY <1>7
  <2>3. Ext(p, x) /\ x = Kid(p, o) /\ o \in Bits
    BY <1>1, <1>2, <1>3, <1>8
  <2> QED
    BY <1>2, <2>1, <2>2, <2>3
<1>10. \A m \in M : /\ Same(t, m[1], u, m[2]) /\ Ext(p, m[2]) /\ Len(m[2]) <= Len(m[1]) + 1
                    /\ m[2] = p \/ \E q \in N, e \in Bits : m[2] = Kid(q, e)
  <2>1. Len(xo) <= Len(x) + 1 /\ Len(xd) <= Len(z) + 1 /\ Len(y) <= Len(w) + 1
    BY <1>7
  <2>2. Ext(p, xo) /\ Ext(p, xd) /\ Ext(p, y)
    BY <1>1, <1>2, <1>3, <1>4
  <2>3. \A l \in {xo, xd, y} : \E q \in N, e \in Bits : l = Kid(q, e)
    BY <1>1, <1>8
  <2> QED
    BY <1>5, <2>1, <2>2, <2>3
<1>11. \A q \in Paths(u) : Ext(p, q) => q \in N \/ \E m \in M : Ext(m[2], q)
  BY <1>2, <1>3, <1>5
<1>12. M \subseteq Links \X Links /\ N \subseteq Paths(u)
  BY <1>1, <1>5
<1> HIDE DEF M, N
<1>13. Turned(t, u, p, N, M)
  BY <1>5, <1>9, <1>10, <1>11, <1>12 DEF Turned
<1>14. Formed(u)
  BY <1>13, TurnedFormed
<1> QED
  BY <1>13, <1>14 DEF N, M, o, z, w, xo, xd

LEMMA DoubleTurned ==
    ASSUME NEW t, Formed(t), NEW p \in Paths(t), NEW d \in Bits, Kid(p, d) \in Paths(t),
           NEW x, x = Kid(p, 1 - d), NEW y, y = Kid(p, d), NEW z, z = Kid(y, 1 - d), z \in Paths(t),
           NEW u, DoubleOf(t, u, p, d)
    PROVE  /\ Turned(t, u, p, {p, x, y}, {<<x, Kid(x, 1 - d)>>, <<Kid(z, 1 - d), Kid(x, d)>>,
                                          <<Kid(z, d), z>>, <<Kid(y, d), Kid(y, d)>>})
           /\ Formed(u)
<1> DEFINE o == 1 - d
           w == Kid(y, d)
           zo == Kid(z, o)
           zd == Kid(z, d)
           xo == Kid(x, o)
           xd == Kid(x, d)
           N == {p, x, y}
           M == {<<x, xo>>, <<zo, xd>>, <<zd, z>>, <<w, w>>}
<1>1. /\ p \in Links /\ o \in Bits /\ x \in Links /\ y \in Links /\ z \in Links /\ w \in Links
      /\ xo \in Links /\ xd \in Links /\ zo \in Links /\ zd \in Links
  BY NodeIs, ForkLaws
<1>2. Ext(p, p) /\ \A q \in Links : Ext(p, q) <=> q = p \/ Ext(y, q) \/ Ext(x, q)
  BY <1>1, ForkLaws
<1>3. /\ Ext(y, y) /\ \A q \in Links : Ext(y, q) <=> q = y \/ Ext(w, q) \/ Ext(z, q)
      /\ Ext(x, x) /\ \A q \in Links : Ext(x, q) <=> q = x \/ Ext(xd, q) \/ Ext(xo, q)
  BY <1>1, ForkLaws
<1>4. Ext(xo, xo) /\ Ext(xd, xd) /\ Ext(z, z) /\ Ext(w, w)
  BY <1>1, ForkLaws
<1>5. /\ Paths(u) \subseteq Links /\ u = [q \in Paths(u) |-> u[q]] /\ Outside(t, u, p)
      /\ p \in Paths(u) /\ u[p] = [key |-> t[z].key, h |-> Height(t, z) + 1]
      /\ x \in Paths(u) /\ u[x] = [key |-> t[p].key, h |-> Height(t, z)]
      /\ y \in Paths(u) /\ u[y] = [key |-> t[y].key, h |-> Height(t, z)]
      /\ Same(t, x, u, xo) /\ Same(t, zo, u, xd) /\ Same(t, zd, u, z) /\ Same(t, w, u, w)
  BY DEF DoubleOf
<1>6. Height(t, z) \in Nat /\ t[z].key \in Elements /\ t[y].key \in Elements /\ t[p].key \in Elements
  BY HeightIs, NodeIs
<1>7. /\ Len(x) = Len(p) + 1 /\ Len(y) = Len(p) + 1 /\ Len(z) = Len(y) + 1 /\ Len(w) = Len(y) + 1
      /\ Len(xo) = Len(x) + 1 /\ Len(xd) = Len(x) + 1 /\ Len(p) \in Nat
      /\ Len(zo) = Len(z) + 1 /\ Len(zd) = Len(z) + 1
  BY <1>1, PathLengths, PathTypes
<1>8. /\ x = Kid(p, o) /\ y = Kid(p, d) /\ z = Kid(y, o) /\ w = Kid(y, d) /\ xo = Kid(x, o) /\ xd = Kid(x, d)
  OBVIOUS
<1> HIDE DEF o, w, xo, xd, zo, zd
<1>9. \A n \in N : /\ Ext(p, n) /\ u[n] \in [key : Elements, h : Nat] /\ Len(n) <= Len(p) + 1
                   /\ n = p \/ \E q \in N, e \in Bits : n = Kid(q, e)
  <2>1. \A n \in N : u[n] \in [key : Elements, h : Nat]
    BY <1>5, <1>6
  <2>2. Len(p) <= Len(p) + 1 /\ Len(x) <= Len(p) + 1 /\ Len(y) <= Len(p) + 1
    BY <1>7
  <2>3. Ext(p, x) /\ x = Kid(p, o) /\ o \in Bits /\ Ext(p, y) /\ y = Kid(p, d)
    BY <1>1, <1>2, <1>3, <1>8
  <2> QED
    BY <1>2, <2>1, <2>2, <2>3
<1>10. \A m \in M : /\ Same(t, m[1], u, m[2]) /\ Ext(p, m[2]) /\ Len(m[2]) <= Len(m[1]) + 1
                    /\ m[2] = p \/ \E q \in N, e \in Bits : m[2] = Kid(q, e)
  <2>1. Len(xo) <= Len(x) + 1 /\ Len(xd) <= Len(zo) + 1 /\ Len(z) <= Len(zd) + 1 /\ Len(w) <= Len(w) + 1
    BY <1>7
  <2>2. Ext(p, xo) /\ Ext(p, xd) /\ Ext(p, z) /\ Ext(p, w)
    BY <1>1, <1>2, <1>3, <1>4
  <2>3. \A l \in {xo, xd, z, w} : \E q \in N, e \in Bits : l = Kid(q, e)
    BY <1>1, <1>8
  <2> QED
    BY <1>5, <2>1, <2>2, <2>3
<1>11. \A q \in Paths(u) : Ext(p, q) => q \in N \/ \E m \in M : Ext(m[2], q)
  BY <1>2, <1>3, <1>5
<1>12. M \subseteq Links \X Links /\ N \subseteq Paths(u)
  BY <1>1, <1>5
<1> HIDE DEF M, N
<1>13. Turned(t, u, p, N, M)
  BY <1>5, <1>9, <1>10, <1>11, <1>12 DEF Turned
<1>14. Formed(u)
  BY <1>13, TurnedFormed
<1> QED
  BY <1>13, <1>14 DEF N, M, o, w, xo, xd, zo, zd

(* A rotation keeps the order and the keys of a tree. *)
Kept(t, u, p) == /\ Formed(u) /\ Ordered(u) /\ p \in Paths(u) /\ Outside(t, u, p)
                 /\ KeysAt(u, p) = KeysAt(t, p)

LEMMA SingleKeeps ==
    ASSUME NEW t, Formed(t), Ordered(t), NEW p \in Paths(t), NEW d \in Bits, Kid(p, d) \in Paths(t),
           NEW u, SingleOf(t, u, p, d)
    PROVE  Kept(t, u, p)
<1> DEFINE o == 1 - d
           x == Kid(p, o)
           y == Kid(p, d)
           z == Kid(y, o)
           w == Kid(y, d)
           xo == Kid(x, o)
           xd == Kid(x, d)
           N == {p, x}
           M == {<<x, xo>>, <<z, xd>>, <<w, y>>}
<1>a. o \in Bits /\ 1 - o = d
  BY DEF Bits
<1>1. /\ p \in Links /\ o \in Bits /\ 1 - o = d /\ x \in Links /\ y \in Links /\ z \in Links /\ w \in Links
      /\ xo \in Links /\ xd \in Links /\ y \in Paths(t)
  BY <1>a, NodeIs, ForkLaws
<1>2. Turned(t, u, p, N, M) /\ Formed(u)
  BY SingleTurned
<1>3. /\ p \in Paths(u) /\ x \in Paths(u) /\ Outside(t, u, p) /\ Paths(u) \subseteq Links
      /\ u[p].key = t[y].key /\ u[x].key = t[p].key
      /\ Same(t, x, u, xo) /\ Same(t, z, u, xd) /\ Same(t, w, u, y)
  BY DEF SingleOf
<1>4. /\ x = Kid(p, o) /\ y = Kid(p, d) /\ z = Kid(y, o) /\ w = Kid(y, d) /\ xo = Kid(x, o) /\ xd = Kid(x, d)
  OBVIOUS
<1> HIDE DEF o, x, y, z, w, xo, xd, N, M
<1>5. KeysAt(u, xo) = KeysAt(t, x) /\ KeysAt(u, xd) = KeysAt(t, z) /\ KeysAt(u, y) = KeysAt(t, w)
  BY <1>1, <1>3, SameIs
<1>6. /\ KeysAt(t, p) = {t[p].key} \cup KeysAt(t, y) \cup KeysAt(t, x)
      /\ KeysAt(t, y) = {t[y].key} \cup KeysAt(t, w) \cup KeysAt(t, z)
      /\ KeysAt(u, p) = {u[p].key} \cup KeysAt(u, y) \cup KeysAt(u, x)
      /\ KeysAt(u, x) = {u[x].key} \cup KeysAt(u, xd) \cup KeysAt(u, xo)
  BY <1>1, <1>2, <1>3, <1>4, KeysSplit DEF o
<1>7. KeysAt(u, p) = KeysAt(t, p)
  BY <1>3, <1>5, <1>6
<1>8. /\ \A k \in KeysAt(t, y) : Beyond(d, k, t[p].key)
      /\ \A k \in KeysAt(t, x) : Beyond(o, k, t[p].key)
      /\ \A k \in KeysAt(t, z) : Beyond(o, k, t[y].key)
      /\ \A k \in KeysAt(t, w) : Beyond(d, k, t[y].key)
  BY <1>1, <1>4 DEF Ordered, OrderedAt
<1>9. \A e \in Bits : e = d \/ e = o
  BY <1>1 DEF Bits, o
<1>10. OrderedAt(u, x)
  <2>1. \A k \in KeysAt(u, xd) : Beyond(d, k, u[x].key)
    BY <1>3, <1>5, <1>6, <1>8
  <2>2. \A k \in KeysAt(u, xo) : Beyond(o, k, u[x].key)
    BY <1>3, <1>5, <1>8
  <2> QED
    BY <1>4, <1>9, <2>1, <2>2 DEF OrderedAt
<1>11. OrderedAt(u, p)
  <2>1. \A k \in KeysAt(u, y) : Beyond(d, k, u[p].key)
    BY <1>3, <1>5, <1>8
  <2>2. t[p].key \in Elements /\ t[y].key \in Elements /\ KeysAt(t, x) \subseteq Elements
    BY <1>1, NodeIs, KeysTyped
  <2>3. Beyond(o, t[p].key, t[y].key)
    <3>1. Beyond(d, t[y].key, t[p].key)
      BY <1>6, <1>8
    <3> QED
      BY <2>2, <3>1, BeyondLaws DEF o
  <2>4. \A k \in KeysAt(t, x) : Beyond(o, k, t[y].key)
    BY <1>1, <1>8, <2>2, <2>3, BeyondLaws
  <2>5. \A k \in KeysAt(u, x) : Beyond(o, k, u[p].key)
    BY <1>3, <1>5, <1>6, <1>8, <2>3, <2>4
  <2> QED
    BY <1>4, <1>9, <2>1, <2>5 DEF OrderedAt
<1>12. ASSUME NEW q \in Paths(u), q # p, q # x PROVE OrderedAt(u, q)
  <2>1. q \notin N
    BY <1>12 DEF N
  <2>2. \A r \in Paths(t) : OrderedAt(t, r)
    BY DEF Ordered
  <2> QED
    BY <1>2, <1>7, <2>1, <2>2, TurnedElsewhere
<1> QED
  BY <1>2, <1>3, <1>7, <1>10, <1>11, <1>12 DEF Kept, Ordered

LEMMA DoubleKeeps ==
    ASSUME NEW t, Formed(t), Ordered(t), NEW p \in Paths(t), NEW d \in Bits, Kid(p, d) \in Paths(t),
           Kid(Kid(p, d), 1 - d) \in Paths(t), NEW u, DoubleOf(t, u, p, d)
    PROVE  Kept(t, u, p)
<1> DEFINE o == 1 - d
           x == Kid(p, o)
           y == Kid(p, d)
           z == Kid(y, o)
           w == Kid(y, d)
           zo == Kid(z, o)
           zd == Kid(z, d)
           xo == Kid(x, o)
           xd == Kid(x, d)
           N == {p, x, y}
           M == {<<x, xo>>, <<zo, xd>>, <<zd, z>>, <<w, w>>}
<1>a. o \in Bits /\ 1 - o = d
  BY DEF Bits
<1>1. /\ p \in Links /\ o \in Bits /\ 1 - o = d /\ x \in Links /\ y \in Links /\ z \in Links /\ w \in Links
      /\ xo \in Links /\ xd \in Links /\ zo \in Links /\ zd \in Links /\ y \in Paths(t) /\ z \in Paths(t)
  BY <1>a, NodeIs, ForkLaws
<1>2. Turned(t, u, p, N, M) /\ Formed(u)
  BY DoubleTurned
<1>3. /\ p \in Paths(u) /\ x \in Paths(u) /\ y \in Paths(u) /\ Outside(t, u, p) /\ Paths(u) \subseteq Links
      /\ u[p].key = t[z].key /\ u[x].key = t[p].key /\ u[y].key = t[y].key
      /\ Same(t, x, u, xo) /\ Same(t, zo, u, xd) /\ Same(t, zd, u, z) /\ Same(t, w, u, w)
  BY DEF DoubleOf
<1>4. /\ x = Kid(p, o) /\ y = Kid(p, d) /\ z = Kid(y, o) /\ w = Kid(y, d) /\ xo = Kid(x, o) /\ xd = Kid(x, d)
      /\ zo = Kid(z, o) /\ zd = Kid(z, d)
  OBVIOUS
<1> HIDE DEF o, x, y, z, w, xo, xd, zo, zd, N, M
<1>5. /\ KeysAt(u, xo) = KeysAt(t, x) /\ KeysAt(u, xd) = KeysAt(t, zo)
      /\ KeysAt(u, z) = KeysAt(t, zd) /\ KeysAt(u, w) = KeysAt(t, w)
  BY <1>1, <1>3, SameIs
<1>6. /\ KeysAt(t, p) = {t[p].key} \cup KeysAt(t, y) \cup KeysAt(t, x)
      /\ KeysAt(t, y) = {t[y].key} \cup KeysAt(t, w) \cup KeysAt(t, z)
      /\ KeysAt(t, z) = {t[z].key} \cup KeysAt(t, zd) \cup KeysAt(t, zo)
      /\ KeysAt(u, p) = {u[p].key} \cup KeysAt(u, y) \cup KeysAt(u, x)
      /\ KeysAt(u, x) = {u[x].key} \cup KeysAt(u, xd) \cup KeysAt(u, xo)
      /\ KeysAt(u, y) = {u[y].key} \cup KeysAt(u, w) \cup KeysAt(u, z)
  BY <1>1, <1>2, <1>3, <1>4, KeysSplit DEF o
<1>7. KeysAt(u, p) = KeysAt(t, p)
  BY <1>3, <1>5, <1>6
<1>8. /\ \A k \in KeysAt(t, y) : Beyond(d, k, t[p].key)
      /\ \A k \in KeysAt(t, x) : Beyond(o, k, t[p].key)
      /\ \A k \in KeysAt(t, z) : Beyond(o, k, t[y].key)
      /\ \A k \in KeysAt(t, w) : Beyond(d, k, t[y].key)
      /\ \A k \in KeysAt(t, zo) : Beyond(o, k, t[z].key)
      /\ \A k \in KeysAt(t, zd) : Beyond(d, k, t[z].key)
  BY <1>1, <1>4 DEF Ordered, OrderedAt
<1>9. \A e \in Bits : e = d \/ e = o
  BY <1>1 DEF Bits, o
<1>10. OrderedAt(u, x)
  <2>1. \A k \in KeysAt(u, xd) : Beyond(d, k, u[x].key)
    BY <1>3, <1>5, <1>6, <1>8
  <2>2. \A k \in KeysAt(u, xo) : Beyond(o, k, u[x].key)
    BY <1>3, <1>5, <1>8
  <2> QED
    BY <1>4, <1>9, <2>1, <2>2 DEF OrderedAt
<1>11. OrderedAt(u, y)
  <2>1. \A k \in KeysAt(u, w) : Beyond(d, k, u[y].key)
    BY <1>3, <1>5, <1>8
  <2>2. \A k \in KeysAt(u, z) : Beyond(o, k, u[y].key)
    BY <1>3, <1>5, <1>6, <1>8
  <2> QED
    BY <1>4, <1>9, <2>1, <2>2 DEF OrderedAt
<1>12. OrderedAt(u, p)
  <2>1. /\ t[p].key \in Elements /\ t[y].key \in Elements /\ t[z].key \in Elements
        /\ KeysAt(t, x) \subseteq Elements /\ KeysAt(t, w) \subseteq Elements
    BY <1>1, NodeIs, KeysTyped
  <2>2. Beyond(o, t[p].key, t[z].key)
    <3>1. Beyond(d, t[z].key, t[p].key)
      BY <1>6, <1>8
    <3> QED
      BY <2>1, <3>1, BeyondLaws DEF o
  <2>3. Beyond(d, t[y].key, t[z].key)
    <3>1. Beyond(o, t[z].key, t[y].key)
      BY <1>6, <1>8
    <3> QED
      BY <1>1, <2>1, <3>1, BeyondLaws
  <2>4. \A k \in KeysAt(t, x) : Beyond(o, k, t[z].key)
    BY <1>1, <1>8, <2>1, <2>2, BeyondLaws
  <2>5. \A k \in KeysAt(t, w) : Beyond(d, k, t[z].key)
    BY <1>1, <1>8, <2>1, <2>3, BeyondLaws
  <2>6. \A k \in KeysAt(u, x) : Beyond(o, k, u[p].key)
    BY <1>3, <1>5, <1>6, <1>8, <2>2, <2>4
  <2>7. \A k \in KeysAt(u, y) : Beyond(d, k, u[p].key)
    BY <1>3, <1>5, <1>6, <1>8, <2>3, <2>5
  <2> QED
    BY <1>4, <1>9, <2>6, <2>7 DEF OrderedAt
<1>13. ASSUME NEW q \in Paths(u), q # p, q # x, q # y PROVE OrderedAt(u, q)
  <2>1. q \notin N
    BY <1>13 DEF N
  <2>2. \A r \in Paths(t) : OrderedAt(t, r)
    BY DEF Ordered
  <2> QED
    BY <1>2, <1>7, <2>1, <2>2, TurnedElsewhere
<1> QED
  BY <1>2, <1>3, <1>7, <1>10, <1>11, <1>12, <1>13 DEF Kept, Ordered

LEMMA LeansEither ==
    /\ \A a, b \in Nat : \A h : Leans(a, b, h) <=> Leans(b, a, h)
    /\ \A t, p : Formed(t) => \A d \in Bits :
          BalancedAt(t, p) <=> Leans(Height(t, Kid(p, d)), Height(t, Kid(p, 1 - d)), t[p].h)
<1>1. \A a, b \in Nat : \A h : Leans(a, b, h) <=> Leans(b, a, h)
  BY DEF Leans
<1>2. ASSUME NEW t, NEW p, Formed(t), NEW d \in Bits
      PROVE  BalancedAt(t, p) <=> Leans(Height(t, Kid(p, d)), Height(t, Kid(p, 1 - d)), t[p].h)
  <2>1. \A q : Height(t, q) \in Nat
    BY <1>2, HeightIs
  <2>2. CASE d = 0
    BY <2>2 DEF BalancedAt
  <2>3. CASE d = 1
    <3>1. 1 - d = 0
      BY <2>3
    <3> QED
      BY <1>1, <2>1, <2>3, <3>1 DEF BalancedAt
  <2> QED
    BY <2>2, <2>3 DEF Bits
<1> QED
  BY <1>1, <1>2

(* A rotation at a node that leans by two sets it upright. *)
LEMMA SingleBalances ==
    ASSUME NEW t, Formed(t), Ordered(t), NEW p \in Paths(t), NEW d \in Bits, Kid(p, d) \in Paths(t),
           NEW u, SingleOf(t, u, p, d),
           Height(t, Kid(p, d)) = Height(t, Kid(p, 1 - d)) + 2,
           Height(t, Kid(Kid(p, d), 1 - d)) <= Height(t, Kid(Kid(p, d), d)),
           \A q \in Paths(t) : Ext(p, q) /\ q # p => BalancedAt(t, q)
    PROVE  /\ \A q \in Paths(u) : Ext(p, q) => BalancedAt(u, q)
           /\ u[p].h = Height(t, Kid(p, d)) \/ u[p].h = Height(t, Kid(p, d)) + 1
<1> DEFINE o == 1 - d
           x == Kid(p, o)
           y == Kid(p, d)
           z == Kid(y, o)
           w == Kid(y, d)
           xo == Kid(x, o)
           xd == Kid(x, d)
           N == {p, x}
           M == {<<x, xo>>, <<z, xd>>, <<w, y>>}
           hx == Height(t, x)
           hy == Height(t, y)
           hz == Height(t, z)
           hw == Height(t, w)
<1>a. o \in Bits /\ 1 - o = d
  BY DEF Bits
<1>1. /\ p \in Links /\ o \in Bits /\ 1 - o = d /\ x \in Links /\ y \in Links /\ z \in Links /\ w \in Links
      /\ xo \in Links /\ xd \in Links /\ y \in Paths(t)
  BY <1>a, NodeIs, ForkLaws
<1>2. Turned(t, u, p, N, M) /\ Formed(u) /\ KeysAt(u, p) \subseteq KeysAt(t, p)
  BY SingleTurned, SingleKeeps DEF Kept
<1>3. /\ p \in Paths(u) /\ x \in Paths(u) /\ Outside(t, u, p) /\ Paths(u) \subseteq Links
      /\ u[p].h = hz + 2 /\ u[x].h = hz + 1
      /\ Same(t, x, u, xo) /\ Same(t, z, u, xd) /\ Same(t, w, u, y)
  BY DEF SingleOf
<1>4. /\ x = Kid(p, o) /\ y = Kid(p, d) /\ z = Kid(y, o) /\ w = Kid(y, d) /\ xo = Kid(x, o) /\ xd = Kid(x, d)
  OBVIOUS
<1>5. hx \in Nat /\ hy \in Nat /\ hz \in Nat /\ hw \in Nat /\ hy = hx + 2 /\ hz <= hw
  BY HeightIs
<1>6. Height(u, xo) = hx /\ Height(u, xd) = hz /\ Height(u, y) = hw
  BY <1>1, <1>3, SameIs
<1>7. Height(u, x) = hz + 1 /\ Height(u, p) = hz + 2 /\ t[y].h = hy
  BY <1>1, <1>3 DEF Height
<1>8. Ext(p, y) /\ y # p /\ Ext(p, x)
  BY <1>1, <1>4, ForkLaws
<1>9. Leans(hw, hz, hy)
  <2>1. BalancedAt(t, y)
    BY <1>1, <1>8
  <2> QED
    BY <1>4, <1>7, <2>1, LeansEither DEF o
<1> HIDE DEF o, x, y, z, w, xo, xd, N, M, hx, hy, hz, hw
<1>10. hy = hw + 1 /\ (hz = hw \/ hz = hw - 1) /\ hx = hw - 1
  BY <1>5, <1>9 DEF Leans
<1>11. BalancedAt(u, x)
  <2>1. Leans(hz, hx, hz + 1)
    BY <1>5, <1>10 DEF Leans
  <2> QED
    BY <1>2, <1>3, <1>4, <1>6, <2>1, LeansEither DEF o
<1>12. BalancedAt(u, p)
  <2>1. Leans(hw, hz + 1, hz + 2)
    BY <1>5, <1>10 DEF Leans
  <2> QED
    BY <1>2, <1>3, <1>4, <1>6, <1>7, <2>1, LeansEither DEF o
<1>13. \A m \in M : /\ m[1] \in Links /\ m[2] \in Links
                    /\ \A r \in Links : Ext(m[1], r) => Ext(p, r) /\ r # p
  <2>1. \A l \in {x, y}, r \in Links : Ext(l, r) => Ext(p, r) /\ r # p
    <3>1. \A r \in Links : Ext(x, r) \/ Ext(y, r) => Ext(p, r)
      BY <1>1, <1>4, ForkLaws DEF o
    <3>2. ~ Ext(x, p) /\ ~ Ext(y, p)
      BY <1>1, <1>4, ForkLaws DEF o
    <3> QED
      BY <3>1, <3>2
  <2>2. \A r \in Links : Ext(z, r) \/ Ext(w, r) => Ext(y, r)
    BY <1>1, <1>4, ForkLaws DEF o
  <2> QED
    BY <1>1, <2>1, <2>2 DEF M
<1>14. ASSUME NEW q \in Paths(u), Ext(p, q), q # p, q # x PROVE BalancedAt(u, q)
  <2>1. q \notin N
    BY <1>14 DEF N
  <2>2. PICK m \in M, r \in Paths(t) : Ext(m[1], r) /\ (BalancedAt(t, r) => BalancedAt(u, q))
    BY <1>2, <1>14, <2>1, TurnedElsewhere
  <2>3. r \in Links
    BY NodeIs
  <2> QED
    BY <1>13, <2>2, <2>3
<1>15. u[p].h = hy \/ u[p].h = hy + 1
  BY <1>3, <1>5, <1>10
<1> QED
  BY <1>11, <1>12, <1>14, <1>15 DEF hy, y

LEMMA DoubleBalances ==
    ASSUME NEW t, Formed(t), Ordered(t), NEW p \in Paths(t), NEW d \in Bits, Kid(p, d) \in Paths(t),
           Kid(Kid(p, d), 1 - d) \in Paths(t), NEW u, DoubleOf(t, u, p, d),
           Height(t, Kid(p, d)) = Height(t, Kid(p, 1 - d)) + 2,
           Height(t, Kid(Kid(p, d), 1 - d)) > Height(t, Kid(Kid(p, d), d)),
           \A q \in Paths(t) : Ext(p, q) /\ q # p => BalancedAt(t, q)
    PROVE  /\ \A q \in Paths(u) : Ext(p, q) => BalancedAt(u, q)
           /\ u[p].h = Height(t, Kid(p, d)) \/ u[p].h = Height(t, Kid(p, d)) + 1
<1> DEFINE o == 1 - d
           x == Kid(p, o)
           y == Kid(p, d)
           z == Kid(y, o)
           w == Kid(y, d)
           zo == Kid(z, o)
           zd == Kid(z, d)
           xo == Kid(x, o)
           xd == Kid(x, d)
           N == {p, x, y}
           M == {<<x, xo>>, <<zo, xd>>, <<zd, z>>, <<w, w>>}
           hx == Height(t, x)
           hy == Height(t, y)
           hz == Height(t, z)
           hw == Height(t, w)
           ho == Height(t, zo)
           hd == Height(t, zd)
<1>a. o \in Bits /\ 1 - o = d
  BY DEF Bits
<1>1. /\ p \in Links /\ o \in Bits /\ 1 - o = d /\ x \in Links /\ y \in Links /\ z \in Links /\ w \in Links
      /\ xo \in Links /\ xd \in Links /\ zo \in Links /\ zd \in Links /\ y \in Paths(t) /\ z \in Paths(t)
  BY <1>a, NodeIs, ForkLaws
<1>2. Turned(t, u, p, N, M) /\ Formed(u) /\ KeysAt(u, p) \subseteq KeysAt(t, p)
  BY DoubleTurned, DoubleKeeps DEF Kept
<1>3. /\ p \in Paths(u) /\ x \in Paths(u) /\ y \in Paths(u) /\ Outside(t, u, p) /\ Paths(u) \subseteq Links
      /\ u[p].h = hz + 1 /\ u[x].h = hz /\ u[y].h = hz
      /\ Same(t, x, u, xo) /\ Same(t, zo, u, xd) /\ Same(t, zd, u, z) /\ Same(t, w, u, w)
  BY DEF DoubleOf
<1>4. /\ x = Kid(p, o) /\ y = Kid(p, d) /\ z = Kid(y, o) /\ w = Kid(y, d) /\ xo = Kid(x, o) /\ xd = Kid(x, d)
      /\ zo = Kid(z, o) /\ zd = Kid(z, d)
  OBVIOUS
<1>5. /\ hx \in Nat /\ hy \in Nat /\ hz \in Nat /\ hw \in Nat /\ ho \in Nat /\ hd \in Nat
      /\ hy = hx + 2 /\ hz > hw
  BY HeightIs
<1>6. Height(u, xo) = hx /\ Height(u, xd) = ho /\ Height(u, z) = hd /\ Height(u, w) = hw
  BY <1>1, <1>3, SameIs
<1>7. Height(u, x) = hz /\ Height(u, y) = hz /\ Height(u, p) = hz + 1 /\ t[y].h = hy /\ t[z].h = hz
  BY <1>1, <1>3 DEF Height
<1>8. Ext(p, y) /\ y # p /\ Ext(p, x) /\ Ext(p, z) /\ z # p
  <2>1. Ext(p, y) /\ y # p /\ Ext(p, x) /\ Ext(y, z) /\ ~ Ext(y, p)
    BY <1>1, <1>4, ForkLaws
  <2> QED
    BY <1>1, <2>1, ExtLaws
<1>9. Leans(hw, hz, hy) /\ Leans(hd, ho, hz)
  <2>1. BalancedAt(t, y) /\ BalancedAt(t, z)
    BY <1>1, <1>8
  <2> QED
    BY <1>4, <1>7, <2>1, LeansEither DEF o
<1> HIDE DEF o, x, y, z, w, xo, xd, zo, zd, N, M, hx, hy, hz, hw, ho, hd
<1>10. /\ hy = hz + 1 /\ hw = hz - 1 /\ hx = hz - 1
       /\ \/ hd = hz - 1 /\ ho = hz - 1
          \/ hd = hz - 1 /\ ho = hz - 2
          \/ hd = hz - 2 /\ ho = hz - 1
  BY <1>5, <1>9 DEF Leans
<1>11. BalancedAt(u, x) /\ BalancedAt(u, y) /\ BalancedAt(u, p)
  <2>1. Leans(ho, hx, hz) /\ Leans(hw, hd, hz) /\ Leans(hz, hz, hz + 1)
    BY <1>5, <1>10 DEF Leans
  <2> QED
    BY <1>2, <1>3, <1>4, <1>6, <1>7, <2>1, LeansEither DEF o
<1>12. \A m \in M : /\ m[1] \in Links /\ m[2] \in Links
                    /\ \A r \in Links : Ext(m[1], r) => Ext(p, r) /\ r # p
  <2>1. \A l \in {x, y}, r \in Links : Ext(l, r) => Ext(p, r) /\ r # p
    <3>1. \A r \in Links : Ext(x, r) \/ Ext(y, r) => Ext(p, r)
      BY <1>1, <1>4, ForkLaws DEF o
    <3>2. ~ Ext(x, p) /\ ~ Ext(y, p)
      BY <1>1, <1>4, ForkLaws DEF o
    <3> QED
      BY <3>1, <3>2
  <2>2. \A r \in Links : Ext(z, r) \/ Ext(w, r) => Ext(y, r)
    BY <1>1, <1>4, ForkLaws DEF o
  <2>3. \A r \in Links : Ext(zo, r) \/ Ext(zd, r) => Ext(z, r)
    BY <1>1, <1>4, ForkLaws DEF o
  <2> QED
    BY <1>1, <2>1, <2>2, <2>3 DEF M
<1>13. ASSUME NEW q \in Paths(u), Ext(p, q), q # p, q # x, q # y PROVE BalancedAt(u, q)
  <2>1. q \notin N
    BY <1>13 DEF N
  <2>2. PICK m \in M, r \in Paths(t) : Ext(m[1], r) /\ (BalancedAt(t, r) => BalancedAt(u, q))
    BY <1>2, <1>13, <2>1, TurnedElsewhere
  <2>3. r \in Links
    BY NodeIs
  <2> QED
    BY <1>12, <2>2, <2>3
<1>14. u[p].h = hy \/ u[p].h = hy + 1
  BY <1>3, <1>5, <1>10
<1> QED
  BY <1>11, <1>13, <1>14 DEF hy, y

-----------------------------------------------------------------------------
(* __tsearch_balance.  Every node is balanced if the link l counts as of   *)
(* height h, the height it had before the tree changed below it.           *)
Leaning(t, l, h) ==
    /\ h \in Nat /\ Height(t, l) - h \in -1..1
    /\ \A q \in Paths(t) : LeansAt(t, q, l, h)

WithHeight(t, p, h) == [t EXCEPT ![p].h = h]

LEMMA RaisedKeeps ==
    ASSUME NEW t, Formed(t), Ordered(t), NEW p \in Paths(t), NEW h \in Nat, NEW u, u = WithHeight(t, p, h)
    PROVE  Kept(t, u, p) /\ u[p].h = h /\ \A q \in Paths(t) : q # p => u[q] = t[q]
<1>1. /\ t = [q \in Paths(t) |-> t[q]] /\ t[p] = [key |-> t[p].key, h |-> t[p].h]
      /\ t[p].key \in Elements /\ p \in Links
  BY NodeIs DEF Formed
<1>2. Raised(t, u, p, t[p].key, h)
  <2>1. u = [t EXCEPT ![p].h = h]
    BY DEF WithHeight
  <2> QED
    BY <1>1, <2>1, SetHeight
<1>3. /\ Paths(u) = Paths(t) /\ u = [q \in Paths(u) |-> u[q]] /\ u[p] = [key |-> t[p].key, h |-> h]
      /\ \A q \in Paths(t) : q # p => u[q] = t[q]
  BY <1>2 DEF Raised
<1>4. \A q \in Paths(t) : u[q].key = t[q].key /\ u[q] \in [key : Elements, h : Nat]
  BY <1>1, <1>3 DEF Formed
<1>5. u \in [Paths(u) -> [key : Elements, h : Nat]]
  BY <1>3, <1>4
<1>6. Formed(u)
  BY <1>3, <1>5 DEF Formed
<1>7. \A l : KeysAt(u, l) = KeysAt(t, l)
  BY <1>3, <1>4 DEF KeysAt
<1>8. Ordered(u)
  BY <1>3, <1>4, <1>7 DEF Ordered, OrderedAt
<1>9. Outside(t, u, p)
  <2>1. Ext(p, p)
    BY <1>1, ForkLaws DEF Bits
  <2> QED
    BY <1>3, <2>1 DEF Outside
<1> QED
  BY <1>3, <1>6, <1>7, <1>8, <1>9 DEF Kept

LEMMA BalanceIs ==
    ASSUME NEW t, Formed(t), Ordered(t), NEW p \in Paths(t), NEW d \in Bits, NEW h, Leaning(t, Kid(p, d), h),
           NEW u, u = Balance(t, p)
    PROVE  /\ Kept(t, u, p) /\ Leaning(u, p, t[p].h)
           /\ u[p].h = t[p].h => \A q \in Paths(u) : BalancedAt(u, q)
<1>1. p \in Links /\ Paths(t) \subseteq Links /\ t[p].h \in Nat /\ \A q : Height(t, q) \in Nat
  BY NodeIs, HeightIs DEF Formed
<1>2. \A q \in Links, e \in Bits : Kid(q, e) \in Links
  BY PathTypes
<1>3. ASSUME NEW q \in Paths(t), q # p PROVE BalancedAt(t, q)
  <2>1. LeansAt(t, q, Kid(p, d), h)
    BY DEF Leaning
  <2>2. \A e \in Bits : Kid(q, e) # Kid(p, d)
    BY <1>1, <1>3, KidIs
  <2> QED
    BY <2>1, <2>2 DEF LeansAt, BalancedAt, HeightAs, Bits
<1>4. ASSUME Kept(t, u, p), NEW q \in Paths(u), ~ Ext(p, q) PROVE LeansAt(u, q, p, t[p].h)
  <2>1. q \in Links /\ q \in Paths(t) /\ u[q] = t[q] /\ q # p
    <3>1. q \in Links
      BY <1>4, NodeIs DEF Kept
    <3>2. Ext(p, p)
      BY <1>1, ForkLaws DEF Bits
    <3> QED
      BY <1>4, <3>1, <3>2 DEF Kept, Outside
  <2>2. ASSUME NEW e \in Bits PROVE HeightAs(u, Kid(q, e), p, t[p].h) = Height(t, Kid(q, e))
    <3>1. CASE Kid(q, e) = p
      BY <3>1 DEF HeightAs, Height
    <3>2. CASE Kid(q, e) # p
      <4>1. ~ Ext(p, Kid(q, e))
        BY <1>1, <1>4, <2>1, <3>2, ExtLaws
      <4> QED
        BY <1>2, <1>4, <2>1, <3>2, <4>1 DEF HeightAs, Height, Kept, Outside
    <3> QED
      BY <3>1, <3>2
  <2>3. BalancedAt(t, q)
    BY <1>3, <2>1
  <2> QED
    BY <2>1, <2>2, <2>3 DEF LeansAt, BalancedAt, Bits
<1>5. ASSUME Kept(t, u, p), NEW q \in Paths(u), Ext(p, q), BalancedAt(u, q) PROVE LeansAt(u, q, p, t[p].h)
  <2>1. q \in Links
    BY <1>5, NodeIs DEF Kept
  <2>2. \A e \in Bits : Kid(q, e) # p
    BY <1>5, <2>1, ForkLaws
  <2> QED
    BY <1>5, <2>2 DEF LeansAt, BalancedAt, HeightAs, Bits
<1>6. ASSUME Kept(t, u, p), \A q \in Paths(u) : Ext(p, q) => BalancedAt(u, q), u[p].h - t[p].h \in -1..1
      PROVE  /\ Leaning(u, p, t[p].h)
             /\ u[p].h = t[p].h => \A q \in Paths(u) : BalancedAt(u, q)
  <2>1. \A q \in Paths(u) : LeansAt(u, q, p, t[p].h)
    BY <1>4, <1>5, <1>6
  <2>2. Height(u, p) = u[p].h
    BY <1>6 DEF Kept, Height
  <2>3. u[p].h = t[p].h => \A q \in Paths(u) : BalancedAt(u, q)
    <3> SUFFICES ASSUME u[p].h = t[p].h, NEW q \in Paths(u) PROVE BalancedAt(u, q)
      OBVIOUS
    <3>1. \A l : HeightAs(u, l, p, t[p].h) = Height(u, l)
      BY <2>2 DEF HeightAs
    <3> QED
      BY <2>1, <3>1 DEF LeansAt, BalancedAt
  <2> QED
    BY <1>1, <1>6, <2>1, <2>2, <2>3 DEF Leaning
<1> DEFINE h0 == Height(t, Kid(p, 0))
           h1 == Height(t, Kid(p, 1))
           hd == Height(t, Kid(p, d))
           ho == Height(t, Kid(p, 1 - d))
<1>7. h0 \in Nat /\ h1 \in Nat /\ hd \in Nat /\ ho \in Nat
  BY <1>1
<1>8. (h0 = hd /\ h1 = ho) \/ (h0 = ho /\ h1 = hd)
  <2>1. (d = 0 /\ 1 - d = 1) \/ (d = 1 /\ 1 - d = 0)
    BY DEF Bits
  <2> QED
    BY <2>1
<1>9. h \in Nat /\ hd - h \in -1..1 /\ Leans(h, ho, t[p].h)
  <2>1. h \in Nat /\ hd - h \in -1..1 /\ LeansAt(t, p, Kid(p, d), h)
    BY DEF Leaning
  <2>2. Kid(p, 1 - d) # Kid(p, d)
    <3>1. 1 - d \in Bits /\ 1 - d # d
      BY DEF Bits
    <3> QED
      BY <1>1, <3>1, KidIs
  <2>3. CASE d = 0
    <3>1. 1 - d = 1
      BY <2>3
    <3> QED
      BY <2>1, <2>2, <2>3, <3>1 DEF LeansAt, HeightAs
  <2>4. CASE d = 1
    <3>1. 1 - d = 0
      BY <2>4
    <3>2. Leans(ho, h, t[p].h)
      BY <2>1, <2>2, <2>4, <3>1 DEF LeansAt, HeightAs
    <3> QED
      BY <1>7, <2>1, <3>2, LeansEither
  <2> QED
    BY <2>1, <2>3, <2>4 DEF Bits
<1>10. u = IF h0 - h1 \in -1..1
           THEN [t EXCEPT ![p].h = IF h0 < h1 THEN h1 + 1 ELSE h0 + 1]
           ELSE Rot(t, p, IF h0 < h1 THEN 1 ELSE 0)
  BY DEF Balance, Kid
<1> HIDE DEF h0, h1, hd, ho
<1>11. CASE h0 - h1 \in -1..1
  <2> DEFINE m == IF h0 < h1 THEN h1 + 1 ELSE h0 + 1
  <2>1. m \in Nat /\ Leans(h0, h1, m) /\ m - t[p].h \in -1..1
    BY <1>1, <1>7, <1>8, <1>9, <1>11 DEF Leans
  <2>2. u = [t EXCEPT ![p].h = m]
    BY <1>10, <1>11
  <2> HIDE DEF m
  <2>3. Kept(t, u, p) /\ u[p].h = m /\ \A q \in Paths(t) : q # p => u[q] = t[q]
    <3>1. u = WithHeight(t, p, m)
      BY <2>2 DEF WithHeight
    <3> QED
      BY <2>1, <3>1, RaisedKeeps
  <2>4. Paths(u) = Paths(t)
    BY <2>2 DEF Paths
  <2>5. ASSUME NEW q \in Paths(u), Ext(p, q) PROVE BalancedAt(u, q)
    <3>1. \A e \in Bits : Kid(q, e) # p
      BY <1>1, <2>4, <2>5, ForkLaws
    <3>2. \A e \in Bits : Height(u, Kid(q, e)) = Height(t, Kid(q, e))
      BY <2>3, <2>4, <3>1 DEF Height
    <3>3. CASE q = p
      BY <2>1, <2>3, <3>2, <3>3 DEF BalancedAt, Bits, h0, h1
    <3>4. CASE q # p
      BY <1>3, <2>3, <2>4, <3>2, <3>4 DEF BalancedAt, Bits
    <3> QED
      BY <3>3, <3>4
  <2> QED
    BY <1>6, <2>1, <2>3, <2>5
<1>12. CASE ~ (h0 - h1 \in -1..1)
  <2> DEFINE e == IF h0 < h1 THEN 1 ELSE 0
             y == Kid(p, e)
             hy == Height(t, y)
  <2>1. e \in Bits
    BY DEF Bits
  <2>2. u = Rot(t, p, e)
    BY <1>10, <1>12
  <2>3. hy = Height(t, Kid(p, 1 - e)) + 2 /\ (hy = t[p].h \/ hy + 1 = t[p].h)
    <3>1. CASE h0 < h1
      <4>1. hy = h1 /\ Height(t, Kid(p, 1 - e)) = h0
        BY <3>1 DEF h0, h1
      <4>2. h1 = h0 + 2 /\ (h1 = t[p].h \/ h1 + 1 = t[p].h)
        BY <1>1, <1>7, <1>8, <1>9, <1>12, <3>1 DEF Leans
      <4> QED
        BY <4>1, <4>2
    <3>2. CASE ~ (h0 < h1)
      <4>1. hy = h0 /\ Height(t, Kid(p, 1 - e)) = h1
        BY <3>2 DEF h0, h1
      <4>2. h0 = h1 + 2 /\ (h0 = t[p].h \/ h0 + 1 = t[p].h)
        BY <1>1, <1>7, <1>8, <1>9, <1>12, <3>2 DEF Leans
      <4> QED
        BY <4>1, <4>2
    <3> QED
      BY <3>1, <3>2
  <2> HIDE DEF e
  <2>4. y \in Paths(t)
    BY <1>1, <2>3 DEF Height
  <2>5. ASSUME NEW q \in Paths(t), Ext(p, q), q # p PROVE BalancedAt(t, q)
    BY <1>3, <2>5
  <2>6. /\ Kept(t, u, p)
        /\ \A q \in Paths(u) : Ext(p, q) => BalancedAt(u, q)
        /\ u[p].h = hy \/ u[p].h = hy + 1
    <3>1. CASE Height(t, Kid(y, 1 - e)) <= Height(t, Kid(y, e))
      <4>1. SingleOf(t, u, p, e)
        BY <2>1, <2>2, <2>4, <3>1, SingleIs
      <4>2. Kept(t, u, p)
        BY <2>1, <2>4, <4>1, SingleKeeps
      <4> QED
        BY <2>1, <2>3, <2>4, <2>5, <3>1, <4>1, <4>2, SingleBalances
    <3>2. CASE Height(t, Kid(y, 1 - e)) > Height(t, Kid(y, e))
      <4>1. Kid(y, 1 - e) \in Paths(t)
        <5>1. Height(t, Kid(y, 1 - e)) # 0
          BY <1>1, <3>2
        <5> QED
          BY <5>1 DEF Height
      <4>2. DoubleOf(t, u, p, e)
        BY <2>1, <2>2, <2>4, <3>2, DoubleIs
      <4>3. Kept(t, u, p)
        BY <2>1, <2>4, <4>1, <4>2, DoubleKeeps
      <4> QED
        BY <2>1, <2>3, <2>4, <2>5, <3>2, <4>1, <4>2, <4>3, DoubleBalances
    <3>3. Height(t, Kid(y, 1 - e)) \in Nat /\ Height(t, Kid(y, e)) \in Nat
      BY <1>1
    <3> QED
      BY <3>1, <3>2, <3>3
  <2>7. u[p].h - t[p].h \in -1..1
    BY <1>1, <2>3, <2>6
  <2> QED
    BY <1>6, <2>6, <2>7
<1> QED
  BY <1>11, <1>12

-----------------------------------------------------------------------------
(* Rebalanced: the walk from the link path up to the root. *)
After(r, p) ==
    IF r.go THEN [tree |-> Balance(r.tree, p), go |-> Balance(r.tree, p)[p].h # r.tree[p].h] ELSE r
Upward(t, path, f, n) ==
    IF n = Len(path) THEN [tree |-> t, go |-> TRUE] ELSE After(f[n + 1], SubSeq(path, 1, n))

LEMMA UpwardIs ==
    ASSUME NEW t, NEW path \in Links
    PROVE  \E f : /\ f = [n \in 0..Len(path) |-> Upward(t, path, f, n)]
                  /\ Rebalanced(t, path) = f[0].tree
<1> DEFINE L == Len(path)
           Partly(k, f) == f = [n \in k..L |-> Upward(t, path, f, n)]
           T == {j \in 0..L : ~ \E f : Partly(L - j, f)}
<1>0. L \in Nat
  BY PathTypes
<1>1. T = {}
  <2> SUFFICES ASSUME T # {} PROVE FALSE
    OBVIOUS
  <2>1. T \in SUBSET Nat
    BY <1>0
  <2> HIDE DEF T, L
  <2>2. PICK j \in T : \A i \in T : j <= i
    BY <2>1, LeastIs
  <2>3. j \in 0..L /\ ~ \E f : Partly(L - j, f)
    BY <2>2 DEF T
  <2>4. CASE j = 0
    <3> DEFINE f == [n \in L..L |-> [tree |-> t, go |-> TRUE]]
    <3>1. f = [n \in L..L |-> Upward(t, path, f, n)]
      <4>1. \A n \in L..L : Upward(t, path, f, n) = [tree |-> t, go |-> TRUE]
        BY <1>0 DEF Upward, L
      <4> QED
        BY <4>1
    <3>2. Partly(L - j, f)
      <4>1. L - j = L
        BY <1>0, <2>4
      <4> HIDE DEF f
      <4> QED
        BY <3>1, <4>1
    <3> QED
      BY <2>3, <3>2
  <2>5. CASE j # 0
    <3>1. j - 1 \in 0..L /\ ~ (j <= j - 1) /\ L - (j - 1) = L - j + 1 /\ L - j \in 0..L /\ L - j # L
      BY <1>0, <2>3, <2>5
    <3>2. j - 1 \notin T
      BY <2>2, <3>1
    <3>3. PICK g : Partly(L - (j - 1), g)
      BY <3>1, <3>2 DEF T
    <3> DEFINE k == L - j
    <3>4. k \in 0..L /\ k # L /\ L - (j - 1) = k + 1
      BY <3>1
    <3> HIDE DEF k
    <3>5. g = [n \in k + 1..L |-> Upward(t, path, g, n)]
      BY <3>3, <3>4
    <3> DEFINE f == [n \in k..L |-> IF n = k THEN Upward(t, path, g, k) ELSE g[n]]
    <3>6. ASSUME NEW n \in k..L PROVE f[n] = Upward(t, path, f, n)
      <4>1. n = L \/ (n + 1 \in k..L /\ n + 1 # k /\ f[n + 1] = g[n + 1])
        BY <1>0, <3>4
      <4>2. Upward(t, path, f, n) = Upward(t, path, g, n)
        BY <4>1 DEF Upward, L
      <4>3. n # k => n \in k + 1..L
        BY <1>0, <3>4
      <4>4. n # k => g[n] = Upward(t, path, g, n)
        BY <3>5, <4>3
      <4> QED
        BY <4>2, <4>4
    <3>7. f = [n \in k..L |-> f[n]]
      OBVIOUS
    <3> HIDE DEF f
    <3>8. f = [n \in k..L |-> Upward(t, path, f, n)]
      BY <3>6, <3>7
    <3> QED
      BY <2>3, <3>8 DEF k
  <2> QED
    BY <2>4, <2>5
<1>2. \E f : f = [n \in 0..L |-> Upward(t, path, f, n)]
  <2>1. L \in 0..L /\ L - L = 0
    BY <1>0
  <2> HIDE DEF L
  <2>2. \E f : Partly(L - L, f)
    BY <1>1, <2>1
  <2> QED
    BY <2>1, <2>2
<1> DEFINE F == CHOOSE f : f = [n \in 0..L |-> Upward(t, path, f, n)]
<1>3. F = [n \in 0..L |-> Upward(t, path, F, n)]
  <2> HIDE DEF L
  <2> QED
    BY <1>2
<1>4. Rebalanced(t, path) = F[0].tree
  BY DEF Rebalanced, Upward, After
<1> HIDE DEF F
<1> QED
  BY <1>3, <1>4

LEMMA PrefixLaws ==
    ASSUME NEW path \in Links
    PROVE  /\ \A n \in 0..Len(path) : SubSeq(path, 1, n) \in Links /\ Ext(SubSeq(path, 1, n), path)
           /\ \A n \in 0..Len(path) : n # Len(path) =>
                 path[n + 1] \in Bits /\ SubSeq(path, 1, n + 1) = Kid(SubSeq(path, 1, n), path[n + 1])
           /\ SubSeq(path, 1, 0) = Root /\ SubSeq(path, 1, Len(path)) = path
<1>1. path \in Seq(Bits) /\ Len(path) \in Nat
  BY PathTypes DEF Links
<1>2. ASSUME NEW n \in 0..Len(path)
      PROVE  /\ SubSeq(path, 1, n) \in Seq(Bits) /\ Len(SubSeq(path, 1, n)) = n
             /\ \A i \in 1..n : SubSeq(path, 1, n)[i] = path[i]
  <2>1. \A i \in 1..n : path[i] \in Bits
    BY <1>1, ElementOfSeq
  <2>2. n \in Int /\ 1 \in Int
    BY <1>1
  <2>3. /\ SubSeq(path, 1, n) \in Seq(Bits)
        /\ Len(SubSeq(path, 1, n)) = IF 1 <= n THEN n - 1 + 1 ELSE 0
        /\ \A i \in 1..n - 1 + 1 : SubSeq(path, 1, n)[i] = path[1 + i - 1]
    BY <2>1, <2>2, SubSeqProperties
  <2>4. Len(SubSeq(path, 1, n)) = n
    BY <1>1, <2>3
  <2>5. \A i \in 1..n : SubSeq(path, 1, n)[i] = path[i]
    BY <1>1, <2>3
  <2> QED
    BY <2>3, <2>4, <2>5
<1>3. SubSeq(path, 1, 0) = Root
  BY <1>1, <1>2, EmptySeq DEF Root
<1>4. SubSeq(path, 1, Len(path)) = path
  BY <1>1, SubSeqFull
<1>5. ASSUME NEW n \in 0..Len(path), n # Len(path)
      PROVE  path[n + 1] \in Bits /\ SubSeq(path, 1, n + 1) = Kid(SubSeq(path, 1, n), path[n + 1])
  <2> DEFINE p == SubSeq(path, 1, n)
             q == SubSeq(path, 1, n + 1)
             e == path[n + 1]
  <2>1. n + 1 \in 0..Len(path) /\ n + 1 \in 1..Len(path) /\ n \in Nat
    BY <1>1, <1>5
  <2>2. e \in Bits
    BY <1>1, <2>1, ElementOfSeq
  <2>3. /\ p \in Seq(Bits) /\ Len(p) = n /\ \A i \in 1..n : p[i] = path[i]
        /\ q \in Seq(Bits) /\ Len(q) = n + 1 /\ \A i \in 1..n + 1 : q[i] = path[i]
    BY <1>2, <2>1
  <2> HIDE DEF p, q
  <2>4. /\ Append(p, e) \in Seq(Bits) /\ Len(Append(p, e)) = n + 1
        /\ \A i \in 1..n : Append(p, e)[i] = p[i]
        /\ Append(p, e)[n + 1] = e
    BY <2>2, <2>3, AppendProperties
  <2>5. \A i \in 1..n + 1 : q[i] = Append(p, e)[i]
    <3> TAKE i \in 1..n + 1
    <3>1. i \in 1..n \/ i = n + 1
      BY <2>1
    <3> QED
      BY <2>3, <2>4, <3>1
  <2>6. q = Append(p, e)
    BY <2>3, <2>4, <2>5, SeqEqual
  <2> QED
    BY <2>2, <2>6 DEF Kid, p, q
<1>6. ASSUME NEW n \in 0..Len(path) PROVE Ext(SubSeq(path, 1, n), path)
  <2>1. SubSeq(path, 1, n) \in Links
    BY <1>2 DEF Links
  <2>2. IsPrefix(SubSeq(path, 1, n), path)
    <3> DEFINE p == SubSeq(path, 1, n)
    <3>1. p \in Seq(Bits) /\ Len(p) = n /\ n <= Len(path)
      BY <1>1, <1>2
    <3>2. SubSeq(p, 1, Len(p)) = p
      BY <3>1, SubSeqFull
    <3>3. SubSeq(path, 1, Len(p)) = p
      BY <3>1
    <3> HIDE DEF p
    <3>4. IsPrefix(p, path)
      BY <3>1, <3>2, <3>3 DEF IsPrefix
    <3> QED
      BY <3>4 DEF p
  <2> QED
    BY <2>1, <2>2, PrefixIs
<1> QED
  BY <1>2, <1>3, <1>4, <1>5, <1>6 DEF Links

LEMMA RebalancedIs ==
    ASSUME NEW t, Formed(t), Ordered(t), NEW path \in Links, NEW h, Leaning(t, path, h),
           \A q \in Links, d \in Bits : path = Kid(q, d) => q \in Paths(t),
           NEW u, u = Rebalanced(t, path)
    PROVE  /\ Formed(u) /\ Ordered(u) /\ KeysAt(u, Root) = KeysAt(t, Root)
           /\ \A q \in Paths(u) : BalancedAt(u, q)
<1> DEFINE L == Len(path)
           P(n) == SubSeq(path, 1, n)
<1>0. L \in Nat /\ Root \in Links
  BY PathTypes
<1>1. /\ \A n \in 0..L : P(n) \in Links /\ Ext(P(n), path)
      /\ \A n \in 0..L : n # L => path[n + 1] \in Bits /\ P(n + 1) = Kid(P(n), path[n + 1])
      /\ P(0) = Root /\ P(L) = path
  BY PrefixLaws
<1>2. PICK f : /\ f = [n \in 0..L |-> Upward(t, path, f, n)]
               /\ u = f[0].tree
  BY UpwardIs
<1> DEFINE Good(n) == LET r == f[n] IN
               /\ Formed(r.tree) /\ Ordered(r.tree) /\ KeysAt(r.tree, Root) = KeysAt(t, Root)
               /\ n # 0 => P(n - 1) \in Paths(r.tree)
               /\ r.go \in BOOLEAN
               /\ r.go => \E g : Leaning(r.tree, P(n), g)
               /\ ~ r.go => \A q \in Paths(r.tree) : BalancedAt(r.tree, q)
           T == {j \in 0..L : ~ Good(L - j)}
<1>3. \A n \in 0..L : f[n] = Upward(t, path, f, n)
  BY <1>2
<1> HIDE DEF P
<1>4. Good(L)
  <2>1. f[L] = [tree |-> t, go |-> TRUE]
    <3>1. L \in 0..L
      BY <1>0
    <3>2. f[L] = Upward(t, path, f, L)
      BY <1>3, <3>1
    <3> QED
      BY <3>2 DEF Upward
  <2>2. L # 0 => P(L - 1) \in Paths(t)
    <3> SUFFICES ASSUME L # 0 PROVE P(L - 1) \in Paths(t)
      OBVIOUS
    <3>1. L - 1 \in 0..L /\ L - 1 # L /\ (L - 1) + 1 = L
      BY <1>0
    <3>2. P(L) = Kid(P(L - 1), path[L]) /\ path[L] \in Bits /\ P(L - 1) \in Links
      <4> HIDE DEF L
      <4> QED
        BY <1>1, <3>1
    <3> QED
      BY <1>1, <3>2
  <2> HIDE DEF L
  <2> QED
    BY <1>1, <2>1, <2>2
<1> HIDE DEF L
<1>5. ASSUME NEW n \in 0..L, n # L, Good(n + 1) PROVE Good(n)
  <2> DEFINE r == f[n + 1]
             p == P(n)
             d == path[n + 1]
             b == Balance(r.tree, p)
  <2>1. p \in Links /\ d \in Bits /\ P(n + 1) = Kid(p, d) /\ n \in Nat /\ n + 1 # 0 /\ (n + 1) - 1 = n
    BY <1>0, <1>1, <1>5
  <2>2. /\ Formed(r.tree) /\ Ordered(r.tree) /\ KeysAt(r.tree, Root) = KeysAt(t, Root)
        /\ p \in Paths(r.tree) /\ r.go \in BOOLEAN
        /\ r.go => \E g : Leaning(r.tree, Kid(p, d), g)
        /\ ~ r.go => \A q \in Paths(r.tree) : BalancedAt(r.tree, q)
    BY <1>5, <2>1
  <2>3. f[n] = After(r, p)
    BY <1>3, <1>5 DEF Upward, L, P
  <2>4. \A v : Formed(v) /\ p \in Paths(v) => (n # 0 => P(n - 1) \in Paths(v))
    <3> SUFFICES ASSUME NEW v, Formed(v), p \in Paths(v), n # 0 PROVE P(n - 1) \in Paths(v)
      OBVIOUS
    <3>1. n - 1 \in 0..L /\ n - 1 # L /\ (n - 1) + 1 = n
      BY <1>0, <1>5
    <3>2. P(n) = Kid(P(n - 1), path[n]) /\ path[n] \in Bits /\ P(n - 1) \in Links
      BY <1>1, <3>1
    <3> QED
      BY <3>2 DEF Formed
  <2>5. CASE r.go
    <3>1. PICK g : Leaning(r.tree, Kid(p, d), g)
      BY <2>2, <2>5
    <3>2. f[n] = [tree |-> b, go |-> b[p].h # r.tree[p].h]
      BY <2>3, <2>5 DEF After
    <3> HIDE DEF b
    <3>3. /\ Kept(r.tree, b, p) /\ Leaning(b, p, r.tree[p].h)
          /\ b[p].h = r.tree[p].h => \A q \in Paths(b) : BalancedAt(b, q)
      BY <2>1, <2>2, <3>1, BalanceIs DEF b
    <3>4. KeysAt(b, Root) = KeysAt(t, Root)
      <4>1. /\ Formed(b) /\ Paths(b) \subseteq Links /\ Outside(r.tree, b, p) /\ KeysAt(b, p) = KeysAt(r.tree, p)
            /\ Paths(r.tree) \subseteq Links
        BY <2>2, <3>3 DEF Kept, Formed
      <4>2. Ext(Root, p)
        BY <2>1, ExtLaws
      <4>3. /\ KeysAt(b, Root) \subseteq KeysAt(r.tree, Root) \cup KeysAt(b, p)
            /\ KeysAt(r.tree, Root) \subseteq KeysAt(b, Root) \cup KeysAt(r.tree, p)
            /\ KeysAt(b, p) \subseteq KeysAt(b, Root) /\ KeysAt(r.tree, p) \subseteq KeysAt(r.tree, Root)
        BY <1>0, <2>1, <4>1, <4>2, OutsideKeys
      <4> QED
        BY <2>2, <4>1, <4>3
    <3> HIDE DEF p
    <3>5. /\ f[n].tree = b /\ f[n].go \in BOOLEAN /\ (f[n].go <=> b[p].h # r.tree[p].h)
      <4> DEFINE c == b[p].h # r.tree[p].h
      <4>1. c \in BOOLEAN /\ f[n] = [tree |-> b, go |-> c]
        BY <3>2
      <4> HIDE DEF c
      <4>2. f[n].tree = b /\ f[n].go = c /\ c \in BOOLEAN
        BY <4>1
      <4>3. f[n].tree = b /\ f[n].go \in BOOLEAN /\ (f[n].go <=> c)
        BY <4>2
      <4> QED
        BY <4>3 DEF c
    <3> QED
      BY <2>4, <3>3, <3>4, <3>5 DEF Kept, p
  <2>6. CASE ~ r.go
    <3>1. f[n] = r
      BY <2>3, <2>6 DEF After
    <3> QED
      BY <2>2, <2>4, <2>6, <3>1
  <2> QED
    BY <2>5, <2>6
<1>6. T = {}
  <2> SUFFICES ASSUME T # {} PROVE FALSE
    OBVIOUS
  <2>1. T \in SUBSET Nat
    BY <1>0
  <2> HIDE DEF T, Good
  <2>2. PICK j \in T : \A i \in T : j <= i
    BY <2>1, LeastIs
  <2>3. j \in 0..L /\ ~ Good(L - j)
    BY <2>2 DEF T
  <2>4. j # 0
    <3>1. L - 0 = L
      BY <1>0
    <3> QED
      BY <1>4, <2>3, <3>1
  <2>5. j - 1 \in 0..L /\ ~ (j <= j - 1) /\ L - (j - 1) = (L - j) + 1 /\ L - j \in 0..L /\ L - j # L
    BY <1>0, <2>3, <2>4
  <2>6. Good((L - j) + 1)
    BY <2>2, <2>5 DEF T
  <2> QED
    BY <1>5, <2>3, <2>5, <2>6
<1>7. Good(0)
  <2>1. L \in 0..L /\ L - L = 0 /\ 0 \in 0..L
    BY <1>0
  <2> HIDE DEF Good
  <2>2. Good(L - L)
    BY <1>6, <2>1
  <2> QED
    BY <2>1, <2>2
<1>8. \A q \in Paths(u) : BalancedAt(u, q)
  <2>1. CASE ~ f[0].go
    BY <1>2, <1>7, <2>1
  <2>2. CASE f[0].go
    <3>1. PICK g : Leaning(u, Root, g)
      BY <1>1, <1>2, <1>7, <2>2
    <3>2. \A q \in Paths(u), e \in Bits : Kid(q, e) # Root
      <4>1. \A q \in Links, e \in Bits : Len(Kid(q, e)) = Len(q) + 1 /\ Len(q) \in Nat /\ Len(Root) = 0
        BY PathLengths, PathTypes
      <4>2. \A q \in Links, e \in Bits : Kid(q, e) # Root
        BY <4>1
      <4>3. Paths(u) \subseteq Links
        BY <1>2, <1>7 DEF Formed
      <4> QED
        BY <4>2, <4>3
    <3> QED
      BY <3>1, <3>2 DEF Leaning, LeansAt, BalancedAt, HeightAs, Bits
  <2> QED
    BY <1>7, <2>1, <2>2
<1> QED
  BY <1>2, <1>7, <1>8

-----------------------------------------------------------------------------
(* Descend. *)
Turns(t, turn, p) == p \in Paths(t) /\ turn[p] \in Bits
Downward(t, turn, f, p) == IF Turns(t, turn, p) THEN f[Kid(p, turn[p])] ELSE p

LEMMA DownwardIs ==
    ASSUME NEW t, Formed(t), NEW turn, NEW from \in Links
    PROVE  \E f : /\ f = [p \in Links |-> Downward(t, turn, f, p)]
                  /\ Descend(t, from, turn) = f[from]
<1>1. PICK n \in Nat : \A p \in Paths(t) : Len(p) <= n
  BY DEF Formed
<1> DEFINE Deep(k) == {p \in Links : Len(p) >= k}
           Partly(k, f) == f = [p \in Deep(k) |-> Downward(t, turn, f, p)]
           T == {j \in 0..n + 1 : ~ \E f : Partly(n + 1 - j, f)}
<1>2. \A p \in Links : Len(p) \in Nat
  BY PathTypes
<1>3. \A p \in Links : Turns(t, turn, p) => Kid(p, turn[p]) \in Links /\ Len(Kid(p, turn[p])) = Len(p) + 1
  BY PathTypes, PathLengths DEF Turns
<1>4. T = {}
  <2> SUFFICES ASSUME T # {} PROVE FALSE
    OBVIOUS
  <2>1. T \in SUBSET Nat
    OBVIOUS
  <2> HIDE DEF T
  <2>2. PICK j \in T : \A i \in T : j <= i
    BY <2>1, LeastIs
  <2>3. j \in 0..n + 1 /\ ~ \E f : Partly(n + 1 - j, f)
    BY <2>2 DEF T
  <2>4. CASE j = 0
    <3> DEFINE f == [p \in Deep(n + 1) |-> p]
    <3>1. ASSUME NEW p \in Deep(n + 1) PROVE Downward(t, turn, f, p) = p
      <4>1. Len(p) \in Nat /\ Len(p) >= n + 1
        BY <1>2
      <4>2. ~ (Len(p) <= n)
        BY <4>1
      <4>3. p \notin Paths(t)
        BY <1>1, <4>2
      <4> QED
        BY <4>3 DEF Downward, Turns
    <3>2. f = [p \in Deep(n + 1) |-> Downward(t, turn, f, p)]
      BY <3>1
    <3>3. n + 1 - j = n + 1
      BY <2>4
    <3> HIDE DEF f
    <3>4. Partly(n + 1 - j, f)
      BY <3>2, <3>3
    <3> QED
      BY <2>3, <3>4
  <2>5. CASE j # 0
    <3> DEFINE k == n + 1 - j
    <3>1. j - 1 \in 0..n + 1 /\ ~ (j <= j - 1) /\ n + 1 - (j - 1) = k + 1 /\ k \in Nat
      BY <2>3, <2>5
    <3>2. PICK g : Partly(n + 1 - (j - 1), g)
      BY <2>2, <3>1 DEF T
    <3> HIDE DEF k
    <3>3. g = [p \in Deep(k + 1) |-> Downward(t, turn, g, p)]
      BY <3>1, <3>2
    <3> DEFINE f == [p \in Deep(k) |-> IF Len(p) = k THEN Downward(t, turn, g, p) ELSE g[p]]
    <3>4. ASSUME NEW p \in Deep(k) PROVE f[p] = Downward(t, turn, f, p)
      <4> DEFINE q == Kid(p, turn[p])
      <4>1. Turns(t, turn, p) => f[q] = g[q]
        <5> SUFFICES ASSUME Turns(t, turn, p) PROVE f[q] = g[q]
          OBVIOUS
        <5>1. q \in Links /\ Len(q) = Len(p) + 1 /\ Len(p) \in Nat /\ Len(p) >= k
          BY <1>2, <1>3
        <5> HIDE DEF q
        <5>2. q \in Deep(k) /\ Len(q) # k
          BY <3>1, <5>1
        <5> QED
          BY <5>2
      <4>2. Downward(t, turn, f, p) = Downward(t, turn, g, p)
        BY <4>1 DEF Downward
      <4>3. Len(p) # k => p \in Deep(k + 1)
        BY <1>2, <3>1
      <4>4. Len(p) # k => g[p] = Downward(t, turn, g, p)
        BY <3>3, <4>3
      <4> QED
        BY <4>2, <4>4
    <3>5. f = [p \in Deep(k) |-> f[p]]
      OBVIOUS
    <3> HIDE DEF f
    <3>6. f = [p \in Deep(k) |-> Downward(t, turn, f, p)]
      BY <3>4, <3>5
    <3> QED
      BY <2>3, <3>6 DEF k
  <2> QED
    BY <2>4, <2>5
<1>5. \E f : f = [p \in Links |-> Downward(t, turn, f, p)]
  <2>1. n + 1 \in 0..n + 1 /\ n + 1 - (n + 1) = 0
    OBVIOUS
  <2>2. Deep(0) = Links
    BY <1>2
  <2>3. PICK f : Partly(n + 1 - (n + 1), f)
    BY <1>4, <2>1
  <2>4. f = [p \in Links |-> Downward(t, turn, f, p)]
    BY <2>1, <2>2, <2>3
  <2> QED
    BY <2>4
<1> DEFINE F == CHOOSE f : f = [p \in Links |-> Downward(t, turn, f, p)]
<1>6. F = [p \in Links |-> Downward(t, turn, F, p)]
  BY <1>5
<1>7. Descend(t, from, turn) = F[from]
  BY DEF Descend, Downward, Turns, Links, Bits, Kid
<1> HIDE DEF F
<1> QED
  BY <1>6, <1>7

(* A descent stays among links that its turns do not leave, and ends where *)
(* there is no turn to take.                                               *)
LEMMA DescendIs ==
    ASSUME NEW t, Formed(t), NEW turn, NEW S \in SUBSET Links, NEW from \in S,
           \A p \in S : Turns(t, turn, p) => Kid(p, turn[p]) \in S
    PROVE  Descend(t, from, turn) \in S /\ ~ Turns(t, turn, Descend(t, from, turn))
<1>1. PICK n \in Nat : \A p \in Paths(t) : Len(p) <= n
  BY DEF Formed
<1>2. PICK f : /\ f = [p \in Links |-> Downward(t, turn, f, p)]
               /\ Descend(t, from, turn) = f[from]
  BY DownwardIs
<1> DEFINE Good(p) == f[p] \in S /\ ~ Turns(t, turn, f[p])
           T == {j \in Nat : \E p \in S : ~ Good(p) /\ j = n - Len(p)}
<1>3. ASSUME NEW p \in S, ~ Good(p)
      PROVE  n - Len(p) \in T /\ \E q \in S : ~ Good(q) /\ n - Len(q) < n - Len(p)
  <2>1. p \in Links /\ f[p] = Downward(t, turn, f, p)
    BY <1>2
  <2>2. Turns(t, turn, p) /\ f[p] = f[Kid(p, turn[p])]
    BY <1>3, <2>1 DEF Downward
  <2>3. Len(p) \in Nat /\ Len(p) <= n /\ Len(Kid(p, turn[p])) = Len(p) + 1
    BY <1>1, <2>1, <2>2, PathTypes, PathLengths DEF Turns
  <2>4. Kid(p, turn[p]) \in S /\ ~ Good(Kid(p, turn[p]))
    BY <1>3, <2>2
  <2>5. n - Len(p) \in Nat /\ n - Len(Kid(p, turn[p])) < n - Len(p)
    BY <2>3
  <2> HIDE DEF Good
  <2> QED
    BY <1>3, <2>4, <2>5
<1>4. T = {}
  <2> SUFFICES ASSUME T # {} PROVE FALSE
    OBVIOUS
  <2>1. T \in SUBSET Nat
    OBVIOUS
  <2> HIDE DEF Good
  <2>2. PICK j \in T : \A i \in T : j <= i
    <3> HIDE DEF T
    <3> QED
      BY <2>1, LeastIs
  <2>3. PICK p \in S : ~ Good(p) /\ j = n - Len(p)
    OBVIOUS
  <2>4. PICK q \in S : ~ Good(q) /\ n - Len(q) < n - Len(p)
    BY <1>3, <2>3
  <2>5. n - Len(q) \in T
    BY <1>3, <2>4
  <2>6. j \in Nat /\ n - Len(q) \in Nat
    BY <2>1, <2>5
  <2>7. j <= n - Len(q)
    BY <2>2, <2>5
  <2> QED
    BY <2>3, <2>4, <2>6, <2>7
<1>5. Good(from)
  BY <1>3, <1>4
<1> QED
  BY <1>2, <1>5

-----------------------------------------------------------------------------
(* Searching and inserting. *)
LEMMA FindIs ==
    ASSUME NEW t, Formed(t), Ordered(t), NEW e \in Elements, NEW p, p = Find(t, e)
    PROVE  /\ p \in Links
           /\ p \in Paths(t) => Rank[t[p].key] = Rank[e]
           /\ p \notin Paths(t) => \A k \in KeysAt(t, Root) : Rank[k] # Rank[e]
           /\ \A q \in Paths(t), d \in Bits : Ext(Kid(q, d), p) => Beyond(d, e, t[q].key)
           /\ \A q \in Links, d \in Bits : p = Kid(q, d) => q \in Paths(t)
<1> DEFINE turn == [q \in Paths(t) |-> CASE Rank[e] = Rank[t[q].key] -> 2
                                         [] Rank[e] > Rank[t[q].key] -> 1
                                         [] OTHER -> 0]
           Within(l) == \A k \in KeysAt(t, Root) : Rank[k] = Rank[e] => k \in KeysAt(t, l)
           Side(l) == \A q \in Paths(t), d \in Bits : Ext(Kid(q, d), l) => Beyond(d, e, t[q].key)
           Hangs(l) == \A q \in Links, d \in Bits : l = Kid(q, d) => q \in Paths(t)
           S == {l \in Links : Within(l) /\ Side(l) /\ Hangs(l)}
<1>1. p = Descend(t, Root, turn)
  BY DEF Find, Root
<1>2. /\ Paths(t) \subseteq Links /\ Root \in Links /\ Rank[e] \in Nat
      /\ \A q \in Paths(t) : t[q].key \in Elements /\ Rank[t[q].key] \in Nat
  BY NodeIs, PathTypes, TreeAssumption DEF Formed
<1>3. ASSUME NEW q \in Paths(t), turn[q] \in Bits
      PROVE  Beyond(turn[q], e, t[q].key)
  <2>1. \/ Rank[e] = Rank[t[q].key] /\ turn[q] = 2
        \/ Rank[e] > Rank[t[q].key] /\ turn[q] = 1
        \/ Rank[e] < Rank[t[q].key] /\ turn[q] = 0
    BY <1>2
  <2>2. turn[q] # 2
    BY <1>3 DEF Bits
  <2> HIDE DEF turn
  <2> QED
    BY <2>1, <2>2 DEF Beyond
<1>4. ASSUME NEW q \in Paths(t), turn[q] \notin Bits PROVE Rank[t[q].key] = Rank[e]
  BY <1>2, <1>4 DEF Bits
<1> HIDE DEF turn
<1>5. Root \in S
  <2>1. \A q \in Links, d \in Bits : Root # Kid(q, d) /\ ~ Ext(Kid(q, d), Root)
    <3> TAKE q \in Links, d \in Bits
    <3>1. Kid(q, d) \in Links /\ Len(Kid(q, d)) = Len(q) + 1 /\ Len(q) \in Nat /\ Len(Root) = 0
      BY PathTypes, PathLengths
    <3>2. ASSUME NEW s \in Links PROVE Len(Desc(Kid(q, d), s)) # Len(Root)
      <4>1. Len(Desc(Kid(q, d), s)) = Len(Kid(q, d)) + Len(s) /\ Len(s) \in Nat
        BY <3>1, PathTypes, PathLengths
      <4> QED
        BY ONLY <3>1, <4>1
    <3>3. \A s \in Links : Root # Desc(Kid(q, d), s)
      BY ONLY <3>2
    <3> QED
      BY <3>1, <3>3 DEF Ext
  <2> QED
    BY <1>2, <2>1
<1>6. ASSUME NEW l \in S, Turns(t, turn, l) PROVE Kid(l, turn[l]) \in S
  <2> DEFINE d == turn[l]
             m == Kid(l, d)
  <2>1. l \in Paths(t) /\ d \in Bits /\ m \in Links /\ l \in Links
    BY <1>6, PathTypes DEF Turns
  <2>2. Beyond(d, e, t[l].key)
    BY <1>3, <2>1
  <2> HIDE DEF d, m
  <2>3. Within(m)
    <3> SUFFICES ASSUME NEW k \in KeysAt(t, Root), Rank[k] = Rank[e] PROVE k \in KeysAt(t, m)
      OBVIOUS
    <3>1. k \in KeysAt(t, l) /\ k \in Elements
      BY KeysTyped
    <3>2. k = t[l].key \/ k \in KeysAt(t, Kid(l, d)) \/ k \in KeysAt(t, Kid(l, 1 - d))
      BY <2>1, <3>1, KeysSplit
    <3>3. k # t[l].key
      BY <1>2, <2>1, <2>2, BeyondLaws
    <3>4. Beyond(d, k, t[l].key)
      BY <2>2 DEF Beyond
    <3>5. k \notin KeysAt(t, Kid(l, 1 - d))
      <4> SUFFICES ASSUME k \in KeysAt(t, Kid(l, 1 - d)) PROVE FALSE
        OBVIOUS
      <4>1. 1 - d \in Bits
        BY <2>1, ForkLaws
      <4>2. Beyond(1 - d, k, t[l].key)
        BY <2>1, <4>1 DEF Ordered, OrderedAt
      <4>3. (d = 0 /\ 1 - d = 1) \/ (d = 1 /\ 1 - d = 0)
        BY <2>1 DEF Bits
      <4>4. Rank[k] \in Nat /\ Rank[t[l].key] \in Nat
        BY <1>2, <2>1
      <4> QED
        BY <3>4, <4>2, <4>3, <4>4 DEF Beyond
    <3> QED
      BY <3>2, <3>3, <3>5 DEF m, d
  <2>4. Side(m)
    <3> SUFFICES ASSUME NEW q \in Paths(t), NEW b \in Bits, Ext(Kid(q, b), m) PROVE Beyond(b, e, t[q].key)
      OBVIOUS
    <3>1. Kid(q, b) \in Links /\ q \in Links
      BY <1>2, PathTypes
    <3>2. Ext(Kid(q, b), l) \/ Kid(q, b) = Kid(l, d)
      BY <2>1, <3>1, ExtLaws DEF m
    <3>3. CASE Ext(Kid(q, b), l)
      BY <3>3
    <3>4. CASE Kid(q, b) = Kid(l, d)
      <4>1. q = l /\ b = d
        BY <2>1, <3>1, <3>4, KidIs
      <4> QED
        BY <2>2, <4>1
    <3> QED
      BY <3>2, <3>3, <3>4
  <2>5. Hangs(m)
    <3> SUFFICES ASSUME NEW q \in Links, NEW b \in Bits, Kid(l, d) = Kid(q, b) PROVE q \in Paths(t)
      BY DEF m
    <3>1. q = l
      BY <2>1, KidIs
    <3> QED
      BY <2>1, <3>1
  <2>6. m \in S
    BY <2>1, <2>3, <2>4, <2>5
  <2> QED
    BY <2>6 DEF m, d
<1>7. p \in S /\ ~ Turns(t, turn, p)
  <2> HIDE DEF S
  <2>1. S \in SUBSET Links
    BY DEF S
  <2> QED
    BY <1>1, <1>5, <1>6, <2>1, DescendIs
<1>8. p \in Paths(t) => Rank[t[p].key] = Rank[e]
  BY <1>4, <1>7 DEF Turns
<1>9. p \notin Paths(t) => \A k \in KeysAt(t, Root) : Rank[k] # Rank[e]
  <2>1. p \notin Paths(t) => KeysAt(t, p) = {}
    BY <1>7, KeysSplit DEF Bits
  <2> QED
    BY <1>7, <2>1
<1> QED
  BY <1>7, <1>8, <1>9

(* The trees of the specification. *)
Upright(t) == Formed(t) /\ Ordered(t) /\ \A q \in Paths(t) : BalancedAt(t, q)

LEMMA InsertedIs ==
    ASSUME NEW t, Upright(t), NEW e \in Elements
    PROVE  /\ Upright(Inserted(t, e))
           /\ KeysAt(Inserted(t, e), Root) =
                 IF \E k \in KeysAt(t, Root) : Rank[k] = Rank[e] THEN KeysAt(t, Root)
                 ELSE KeysAt(t, Root) \cup {e}
<1> DEFINE p == Find(t, e)
           u == [q \in Paths(t) \cup {p} |-> IF q = p THEN [key |-> e, h |-> 1] ELSE t[q]]
<1>1. /\ Formed(t) /\ Ordered(t) /\ Paths(t) \subseteq Links /\ Root \in Links
      /\ \A q \in Paths(t) : BalancedAt(t, q)
  BY PathTypes DEF Upright, Formed
<1>2. /\ p \in Links
      /\ p \in Paths(t) => Rank[t[p].key] = Rank[e]
      /\ p \notin Paths(t) => \A k \in KeysAt(t, Root) : Rank[k] # Rank[e]
      /\ \A q \in Paths(t), d \in Bits : Ext(Kid(q, d), p) => Beyond(d, e, t[q].key)
      /\ \A q \in Links, d \in Bits : p = Kid(q, d) => q \in Paths(t)
  BY <1>1, FindIs
<1>3. Inserted(t, e) = IF p \in Paths(t) THEN t ELSE Rebalanced(u, p)
  BY DEF Inserted
<1> HIDE DEF p
<1>4. CASE p \in Paths(t)
  <2>1. t[p].key \in KeysAt(t, Root)
    BY <1>1, <1>2, <1>4, ExtLaws DEF KeysAt
  <2> QED
    BY <1>2, <1>3, <1>4, <2>1
<1>5. CASE p \notin Paths(t)
  <2>1. /\ Paths(u) = Paths(t) \cup {p} /\ u[p] = [key |-> e, h |-> 1]
        /\ \A q \in Paths(t) : u[q] = t[q]
        /\ u = [q \in Paths(u) |-> u[q]]
    BY <1>5 DEF Paths
  <2> HIDE DEF u
  <2>2. Formed(u)
    <3>1. PICK n \in Nat : \A q \in Paths(t) : Len(q) <= n
      BY <1>1 DEF Formed
    <3>2. \A q \in Links : Len(q) \in Nat
      BY PathTypes
    <3>3. n + Len(p) \in Nat /\ \A q \in Paths(u) : Len(q) <= n + Len(p)
      BY <1>1, <1>2, <2>1, <3>1, <3>2
    <3>4. \A q \in Links, d \in Bits : Kid(q, d) \in Paths(u) => q \in Paths(u)
      BY <1>1, <1>2, <2>1 DEF Formed
    <3>5. \A q \in Paths(u) : u[q] \in [key : Elements, h : Nat]
      BY <1>1, <2>1 DEF Formed
    <3>6. u \in [Paths(u) -> [key : Elements, h : Nat]]
      BY <2>1, <3>5
    <3> QED
      BY <1>1, <1>2, <2>1, <3>3, <3>4, <3>6 DEF Formed
  <2>3. ASSUME NEW l \in Links
        PROVE  KeysAt(u, l) = IF Ext(l, p) THEN KeysAt(t, l) \cup {e} ELSE KeysAt(t, l)
    BY <1>5, <2>1 DEF KeysAt
  <2>4. \A d \in Bits : Kid(p, d) \in Links /\ ~ Ext(Kid(p, d), p) /\ Kid(p, d) \notin Paths(u)
    BY <1>1, <1>2, <1>5, <2>1, ForkLaws DEF Formed
  <2>5. Ordered(u)
    <3> SUFFICES ASSUME NEW q \in Paths(u), NEW d \in Bits, NEW k \in KeysAt(u, Kid(q, d))
                 PROVE  Beyond(d, k, u[q].key)
      BY DEF Ordered, OrderedAt
    <3>1. CASE q = p
      <4>1. KeysAt(u, Kid(p, d)) = {}
        BY <2>2, <2>4, KeysSplit
      <4> QED
        BY <3>1, <4>1
    <3>2. CASE q # p
      <4>1. q \in Paths(t) /\ u[q] = t[q] /\ Kid(q, d) \in Links
        BY <1>1, <2>1, <3>2, PathTypes
      <4>2. k \in KeysAt(t, Kid(q, d)) \/ (k = e /\ Ext(Kid(q, d), p))
        BY <2>3, <4>1
      <4> QED
        BY <1>1, <1>2, <4>1, <4>2 DEF Ordered, OrderedAt
    <3> QED
      BY <3>1, <3>2
  <2>6. Leaning(u, p, 0)
    <3>1. Height(u, p) = 1 /\ Height(t, p) = 0
      BY <1>5, <2>1 DEF Height
    <3>2. ASSUME NEW q \in Paths(u) PROVE LeansAt(u, q, p, 0)
      <4>1. CASE q = p
        <5>1. \A d \in Bits : HeightAs(u, Kid(p, d), p, 0) = 0
          BY <2>1, <2>4 DEF HeightAs, Height
        <5>2. Leans(0, 0, 1)
          BY DEF Leans
        <5> QED
          BY <2>1, <4>1, <5>1, <5>2 DEF LeansAt, Bits
      <4>2. CASE q # p
        <5>1. \A l : HeightAs(u, l, p, 0) = Height(t, l)
          BY <2>1, <3>1 DEF HeightAs, Height
        <5>2. q \in Paths(t) /\ u[q] = t[q]
          BY <2>1, <4>2
        <5> QED
          BY <1>1, <5>1, <5>2 DEF LeansAt, BalancedAt
      <4> QED
        BY <4>1, <4>2
    <3> QED
      BY <3>1, <3>2 DEF Leaning
  <2>7. \A q \in Links, d \in Bits : p = Kid(q, d) => q \in Paths(u)
    BY <1>2, <2>1
  <2> DEFINE v == Rebalanced(u, p)
  <2>8. Inserted(t, e) = v
    BY <1>3, <1>5
  <2> HIDE DEF v
  <2>9. Upright(v) /\ KeysAt(v, Root) = KeysAt(u, Root)
    BY <1>2, <2>2, <2>5, <2>6, <2>7, RebalancedIs DEF v, Upright
  <2>10. KeysAt(u, Root) = KeysAt(t, Root) \cup {e}
    BY <1>1, <1>2, <2>3, ExtLaws
  <2> QED
    BY <1>2, <1>5, <2>8, <2>9, <2>10
<1> QED
  BY <1>4, <1>5

-----------------------------------------------------------------------------
(* Deleting. *)

(* Two paths, neither of which leads to the other, fork at a link.         *)
LEMMA ForkIs ==
    ASSUME NEW q \in Links, NEW r \in Links, q # r
    PROVE  \E l \in Links : \/ l = q /\ \E d \in Bits : Ext(Kid(l, d), r)
                            \/ l = r /\ \E d \in Bits : Ext(Kid(l, d), q)
                            \/ \E d \in Bits : Ext(Kid(l, d), q) /\ Ext(Kid(l, 1 - d), r)
<1> DEFINE C == {l \in Links : Ext(l, q) /\ Ext(l, r)}
           T == {n \in Nat : \E l \in C : n = Len(q) - Len(l)}
<1>0. Len(q) \in Nat /\ Root \in Links
  BY PathTypes
<1>1. ASSUME NEW l \in C PROVE Len(l) \in Nat /\ Len(q) - Len(l) \in Nat
  <2>1. PICK s \in Links : q = Desc(l, s)
    BY DEF Ext
  <2>2. Len(q) = Len(l) + Len(s) /\ Len(l) \in Nat /\ Len(s) \in Nat
    BY <2>1, PathLengths, PathTypes
  <2> QED
    BY <2>2
<1>2. Root \in C
  BY <1>0, ExtLaws
<1>3. T \in SUBSET Nat /\ T # {}
  BY <1>1, <1>2
<1>4. PICK n \in T : \A m \in T : n <= m
  <2> HIDE DEF T
  <2> QED
    BY <1>3, LeastIs
<1>5. PICK l \in C : n = Len(q) - Len(l)
  BY <1>4
<1>6. ASSUME NEW d \in Bits PROVE ~ (Ext(Kid(l, d), q) /\ Ext(Kid(l, d), r))
  <2> SUFFICES ASSUME Ext(Kid(l, d), q), Ext(Kid(l, d), r) PROVE FALSE
    OBVIOUS
  <2>1. Kid(l, d) \in C /\ Len(Kid(l, d)) = Len(l) + 1
    BY PathTypes, PathLengths
  <2>2. Len(q) - Len(Kid(l, d)) \in T /\ Len(l) \in Nat
    BY <1>1, <2>1
  <2>3. n <= Len(q) - Len(Kid(l, d))
    BY <1>4, <2>2
  <2> QED
    BY <1>0, <1>5, <2>1, <2>2, <2>3
<1>7. /\ q = l \/ Ext(Kid(l, 0), q) \/ Ext(Kid(l, 1), q)
      /\ r = l \/ Ext(Kid(l, 0), r) \/ Ext(Kid(l, 1), r)
  <2>1. 0 \in Bits /\ 1 - 0 = 1 /\ l \in Links /\ Ext(l, q) /\ Ext(l, r)
    BY DEF Bits
  <2>2. \A m \in Links : Ext(l, m) => m = l \/ Ext(Kid(l, 0), m) \/ Ext(Kid(l, 1 - 0), m)
    BY <2>1, ForkLaws
  <2> QED
    BY <2>1, <2>2
<1>8. 0 \in Bits /\ 1 \in Bits /\ 1 - 0 = 1 /\ 1 - 1 = 0
  BY DEF Bits
<1> QED
  BY <1>6, <1>7, <1>8

LEMMA UniqueIs ==
    ASSUME NEW t, Formed(t), Ordered(t), NEW q \in Paths(t), NEW r \in Paths(t), q # r
    PROVE  Rank[t[q].key] # Rank[t[r].key]
<1>1. q \in Links /\ r \in Links /\ \A l \in Paths(t) : t[l].key \in Elements
  BY NodeIs
<1>2. ASSUME NEW l \in Paths(t), NEW m \in Paths(t), NEW d \in Bits, Ext(Kid(l, d), m)
      PROVE  Beyond(d, t[m].key, t[l].key)
  BY <1>2 DEF Ordered, OrderedAt, KeysAt
<1>3. PICK l \in Links : \/ l = q /\ \E d \in Bits : Ext(Kid(l, d), r)
                         \/ l = r /\ \E d \in Bits : Ext(Kid(l, d), q)
                         \/ \E d \in Bits : Ext(Kid(l, d), q) /\ Ext(Kid(l, 1 - d), r)
  BY <1>1, ForkIs
<1>4. ASSUME NEW d \in Bits, l = q, Ext(Kid(l, d), r) PROVE Rank[t[q].key] # Rank[t[r].key]
  <2>1. Beyond(d, t[r].key, t[q].key)
    BY <1>2, <1>4
  <2> QED
    BY <1>1, <2>1, BeyondLaws
<1>5. ASSUME NEW d \in Bits, l = r, Ext(Kid(l, d), q) PROVE Rank[t[q].key] # Rank[t[r].key]
  <2>1. Beyond(d, t[q].key, t[r].key)
    BY <1>2, <1>5
  <2> QED
    BY <1>1, <2>1, BeyondLaws
<1>6. ASSUME NEW d \in Bits, Ext(Kid(l, d), q), Ext(Kid(l, 1 - d), r) PROVE Rank[t[q].key] # Rank[t[r].key]
  <2>1. l \in Paths(t)
    <3>1. Ext(l, q)
      BY <1>1, <1>6, ForkLaws
    <3> QED
      BY <1>1, <3>1, Closed
  <2>2. 1 - d \in Bits /\ 1 - (1 - d) = d
    BY DEF Bits
  <2>3. Beyond(d, t[q].key, t[l].key) /\ Beyond(1 - d, t[r].key, t[l].key)
    BY <1>2, <1>6, <2>1, <2>2
  <2>4. Beyond(d, t[l].key, t[r].key)
    BY <1>1, <2>1, <2>2, <2>3, BeyondLaws
  <2>5. Beyond(d, t[q].key, t[r].key)
    BY <1>1, <2>1, <2>3, <2>4, BeyondLaws
  <2> QED
    BY <1>1, <2>5, BeyondLaws
<1> QED
  BY <1>3, <1>4, <1>5, <1>6

LEMMA FrontIs ==
    ASSUME NEW p \in Links, NEW d \in Bits
    PROVE  Front(Kid(p, d)) = p
<1> DEFINE q == Kid(p, d)
           n == Len(q) - 1
<1>1. q \in Links /\ Len(q) = Len(p) + 1 /\ Len(p) \in Nat
  BY PathTypes, PathLengths
<1>2. n \in 0..Len(q) /\ n # Len(q) /\ n + 1 = Len(q)
  BY <1>1
<1>3. SubSeq(q, 1, n) \in Links /\ q[n + 1] \in Bits /\ SubSeq(q, 1, n + 1) = Kid(SubSeq(q, 1, n), q[n + 1])
      /\ SubSeq(q, 1, Len(q)) = q
  <2> HIDE DEF q, n
  <2> QED
    BY <1>1, <1>2, PrefixLaws
<1>4. Kid(SubSeq(q, 1, n), q[n + 1]) = Kid(p, d)
  <2>1. Kid(SubSeq(q, 1, n), q[n + 1]) = q
    <3> HIDE DEF q, n
    <3> QED
      BY <1>2, <1>3
  <2> QED
    BY <2>1
<1>5. SubSeq(q, 1, n) = p
  <2>1. \A r \in Links, e \in Bits : Kid(r, e) = Kid(p, d) => r = p
    BY KidIs
  <2> HIDE DEF q, n
  <2> QED
    BY <1>3, <1>4, <2>1
<1> QED
  BY <1>5 DEF Front

(* The node that is freed for p has no child on one side, and a key that   *)
(* comes right before that of p.                                           *)
LEMMA VictimIs ==
    ASSUME NEW t, Formed(t), Ordered(t), NEW p \in Paths(t), NEW v, v = Victim(t, p)
    PROVE  /\ v \in Paths(t) /\ Ext(p, v)
           /\ v = p => Kid(v, 0) \notin Paths(t)
           /\ v # p => /\ Ext(Kid(p, 0), v) /\ Kid(v, 1) \notin Paths(t)
                       /\ \A k \in KeysAt(t, Kid(p, 0)) : k = t[v].key \/ Rank[k] < Rank[t[v].key]
<1> DEFINE left == Kid(p, 0)
           turn == [q \in Paths(t) |-> 1]
           Highest(r) == \A k \in KeysAt(t, left) :
                         k \in KeysAt(t, Kid(r, 1)) \/ k = t[r].key \/ Rank[k] < Rank[t[r].key]
           S == {l \in Links : l = left \/ \E r \in Paths(t) : l = Kid(r, 1) /\ Ext(left, r) /\ Highest(r)}
           w == Descend(t, left, turn)
<1>1. /\ 0 \in Bits /\ 1 \in Bits /\ 1 - 0 = 1 /\ p \in Links /\ left \in Links /\ Ext(p, p) /\ Ext(left, left)
      /\ ~ Ext(left, p) /\ Ext(p, left) /\ Paths(t) \subseteq Links
  <2>1. 0 \in Bits /\ 1 \in Bits /\ 1 - 0 = 1 /\ p \in Links /\ Paths(t) \subseteq Links
    BY NodeIs DEF Formed, Bits
  <2>2. left \in Links
    BY <2>1, PathTypes
  <2> QED
    BY <2>1, <2>2, ForkLaws
<1>2. v = IF left \notin Paths(t) THEN p ELSE Front(w)
  BY DEF Victim, Kid
<1>3. CASE left \notin Paths(t)
  <2>1. v = p
    BY <1>2, <1>3
  <2> QED
    BY <1>1, <1>3, <2>1
<1>4. CASE left \in Paths(t)
  <2>1. ASSUME NEW l \in S, Turns(t, turn, l) PROVE Kid(l, turn[l]) \in S
    <3>1. l \in Paths(t) /\ turn[l] = 1 /\ Kid(l, 1) \in Links /\ l \in Links
      BY <1>1, <2>1, PathTypes DEF Turns
    <3>2. KeysAt(t, l) = {t[l].key} \cup KeysAt(t, Kid(l, 1)) \cup KeysAt(t, Kid(l, 0))
      <4>1. 1 - 0 = 1
        OBVIOUS
      <4> QED
        BY <1>1, <3>1, <4>1, KeysSplit
    <3>3. \A k \in KeysAt(t, Kid(l, 0)) : Rank[k] < Rank[t[l].key]
      BY <1>1, <3>1 DEF Ordered, OrderedAt, Beyond
    <3>4. Ext(left, l) /\ Highest(l)
      <4>1. CASE l = left
        BY <1>1, <3>2, <3>3, <4>1
      <4>2. ASSUME NEW r \in Paths(t), l = Kid(r, 1), Ext(left, r), Highest(r) PROVE Ext(left, l) /\ Highest(l)
        <5>1. Ext(r, l) /\ r \in Links
          BY <1>1, <4>2, ForkLaws
        <5>2. Ext(left, l)
          BY <1>1, <3>1, <4>2, <5>1, ExtLaws
        <5>3. Rank[t[r].key] < Rank[t[l].key]
          <6>1. t[l].key \in KeysAt(t, l)
            BY <3>2
          <6>2. Beyond(1, t[l].key, t[r].key)
            BY <1>1, <4>2, <6>1 DEF Ordered, OrderedAt
          <6>3. Rank[t[r].key] \in Nat /\ Rank[t[l].key] \in Nat
            BY <3>1, NodeIs, TreeAssumption
          <6> QED
            BY <6>2, <6>3 DEF Beyond
        <5>4. ASSUME NEW k \in KeysAt(t, left)
              PROVE  k \in KeysAt(t, Kid(l, 1)) \/ k = t[l].key \/ Rank[k] < Rank[t[l].key]
          <6>1. k \in KeysAt(t, l) \/ k = t[r].key \/ Rank[k] < Rank[t[r].key]
            BY <4>2
          <6>2. Rank[k] < Rank[t[r].key] => Rank[k] < Rank[t[l].key]
            <7>1. k \in Elements
              BY KeysTyped
            <7>2. Rank[t[r].key] \in Nat /\ Rank[t[l].key] \in Nat /\ Rank[k] \in Nat
              BY <3>1, <7>1, NodeIs, TreeAssumption
            <7> QED
              BY <5>3, <7>2
          <6> QED
            BY <3>2, <3>3, <5>3, <6>1, <6>2
        <5> QED
          BY <5>2, <5>4
      <4> QED
        BY <4>1, <4>2
    <3> HIDE DEF left, turn
    <3>5. Kid(l, 1) \in S
      BY <3>1, <3>4
    <3> QED
      BY <3>1, <3>5
  <2>2. S \in SUBSET Links /\ left \in S
    BY <1>1
  <2>3. w \in S /\ ~ Turns(t, turn, w)
    <3> HIDE DEF S, left, turn
    <3> QED
      BY <2>1, <2>2, DescendIs
  <2> HIDE DEF w
  <2>4. w \notin Paths(t)
    BY <1>1, <2>3 DEF Turns
  <2>5. PICK r \in Paths(t) : w = Kid(r, 1) /\ Ext(left, r) /\ Highest(r)
    BY <1>4, <2>3, <2>4
  <2>6. v = r
    BY <1>1, <1>2, <1>4, <2>5, FrontIs
  <2>7. KeysAt(t, w) = {}
    BY <1>1, <2>3, <2>4, KeysSplit
  <2> HIDE DEF left
  <2>8. Ext(p, v) /\ v # p
    BY <1>1, <2>5, <2>6, ExtLaws
  <2> QED
    BY <2>4, <2>5, <2>6, <2>7, <2>8 DEF left
<1> QED
  BY <1>3, <1>4

(* A node with no child on one side is taken out, its other child takes    *)
(* its place, and u has what t has but for v.                              *)
Without(t, u, v) ==
    /\ \A q \in Paths(u) : \E r \in Paths(t) :
          r # v /\ u[q] = t[r] /\ (Ext(v, q) => Ext(v, r)) /\ (~ Ext(v, q) => r = q)
    /\ \A r \in Paths(t) : r # v => \E q \in Paths(u) : u[q] = t[r]

LEMMA CutIs ==
    ASSUME NEW t, Formed(t), NEW v \in Paths(t), NEW d \in Bits, Kid(v, 1 - d) \notin Paths(t),
           NEW rest, rest = [q \in Paths(t) \ {v} |-> t[q]],
           NEW u, u = Relinked(rest, << >>, {<<Kid(v, d), v>>})
    PROVE  Turned(t, u, v, {}, {<<Kid(v, d), v>>}) /\ Without(t, u, v)
<1> DEFINE c == Kid(v, d)
           o == Kid(v, 1 - d)
           nodes == << >>
           M == {<<c, v>>}
           S == {q \in Paths(t) : ~ Ext(v, q)}
<1>1. /\ v \in Links /\ c \in Links /\ o \in Links /\ Ext(v, v) /\ ~ Ext(c, v) /\ ~ Ext(o, v)
      /\ \A q \in Links : Ext(v, q) <=> q = v \/ Ext(c, q) \/ Ext(o, q)
      /\ Paths(t) \subseteq Links
  <2>1. v \in Links /\ Paths(t) \subseteq Links
    BY NodeIs DEF Formed
  <2> QED
    BY <2>1, ForkLaws
<1>2. \A q \in Paths(t) : ~ Ext(o, q)
  BY <1>1, Closed
<1>3. /\ Paths(rest) = Paths(t) \ {v} /\ \A q \in Paths(rest) : rest[q] = t[q]
  BY DEF Paths
<1>4. DOMAIN nodes = {}
  OBVIOUS
<1>5. M \in SUBSET (Links \X Links) /\ \A m \in M : m[1] = c /\ m[2] = v /\ m = <<c, v>>
  BY <1>1
<1> HIDE DEF nodes, c, o, M
<1>6. Movable(rest, nodes, M, S)
  <2>1. S = {q \in Paths(rest) : q \notin DOMAIN nodes /\ \A m \in M : ~ Ext(m[1], q)}
    <3>1. \A q \in Paths(rest) : (\A m \in M : ~ Ext(m[1], q)) <=> ~ Ext(c, q)
      BY <1>5 DEF M
    <3>2. \A q \in Paths(t) : q \in Paths(rest) /\ ~ Ext(c, q) <=> ~ Ext(v, q)
      BY <1>1, <1>2, <1>3
    <3> QED
      BY <1>3, <1>4, <3>1, <3>2
  <2>2. \A m, n \in M : m = n
    BY <1>5
  <2> HIDE DEF S
  <2>3. \A q \in S, m \in M : ~ Ext(m[2], q)
    BY <1>5 DEF S
  <2> QED
    BY <1>1, <1>3, <1>4, <1>5, <2>1, <2>2, <2>3 DEF Movable
<1>7. u = Relinked(rest, nodes, M)
  BY DEF nodes, M, c
<1>8. MovedTo(rest, nodes, M, S, u)
  BY <1>6, <1>7, Moves
<1>9. /\ Paths(u) \subseteq Links /\ u = [q \in Paths(u) |-> u[q]]
      /\ Same(rest, c, u, v)
      /\ \A q \in S : q \in Paths(u) /\ u[q] = rest[q]
      /\ \A q \in Paths(u) : Ext(v, q) \/ q \in S
  <2>1. <<c, v>> \in M
    BY DEF M
  <2>2. \A m \in M : Same(rest, m[1], u, m[2])
    BY <1>8 DEF MovedTo
  <2>3. Same(rest, c, u, v)
    BY <1>5, <2>1, <2>2
  <2>4. /\ Paths(u) \subseteq Links /\ u = [q \in Paths(u) |-> u[q]]
        /\ \A q \in S : q \in Paths(u) /\ u[q] = rest[q]
        /\ \A q \in Paths(u) : (\E m \in M : Ext(m[2], q)) \/ q \in S
    <3> HIDE DEF S
    <3> QED
      BY <1>4, <1>8 DEF MovedTo
  <2> QED
    BY <1>5, <2>3, <2>4
<1>10. Same(t, c, u, v)
  <2> SUFFICES ASSUME NEW s \in Links
               PROVE  /\ Desc(c, s) \in Paths(t) <=> Desc(v, s) \in Paths(u)
                      /\ Desc(c, s) \in Paths(t) => u[Desc(v, s)] = t[Desc(c, s)]
    BY DEF Same
  <2>1. Desc(c, s) # v
    BY <1>1 DEF Ext
  <2>2. /\ Desc(c, s) \in Paths(rest) <=> Desc(v, s) \in Paths(u)
        /\ Desc(c, s) \in Paths(rest) => u[Desc(v, s)] = rest[Desc(c, s)]
    BY <1>9 DEF Same
  <2> QED
    BY <1>3, <2>1, <2>2
<1>11. Outside(t, u, v)
  BY <1>1, <1>3, <1>9 DEF Outside
<1>12. Turned(t, u, v, {}, M)
  <2>1. Len(v) <= Len(c) + 1
    <3>1. Len(c) = Len(v) + 1 /\ Len(v) \in Nat
      BY <1>1, PathLengths, PathTypes DEF c
    <3> QED
      BY <3>1
  <2>2. M \subseteq Links \X Links /\ <<c, v>> \in M
    BY <1>5 DEF M
  <2>3. \A m \in M : /\ Same(t, m[1], u, m[2]) /\ Ext(v, m[2]) /\ Len(m[2]) <= Len(m[1]) + 1
                     /\ m[2] = v
    BY <1>1, <1>5, <1>10, <2>1
  <2>4. \A q \in Paths(u) : Ext(v, q) => \E m \in M : Ext(m[2], q)
    BY <1>5, <2>2
  <2> QED
    BY <1>9, <1>11, <2>2, <2>3, <2>4 DEF Turned
<1>13. ASSUME NEW q \in Paths(u)
       PROVE  \E r \in Paths(t) : r # v /\ u[q] = t[r] /\ (Ext(v, q) => Ext(v, r)) /\ (~ Ext(v, q) => r = q)
  <2>1. CASE Ext(v, q)
    <3>1. PICK s \in Links : q = Desc(v, s)
      BY <2>1 DEF Ext
    <3>2. Desc(c, s) \in Paths(t) /\ u[q] = t[Desc(c, s)]
      BY <1>10, <3>1 DEF Same
    <3>3. Ext(c, Desc(c, s))
      BY DEF Ext
    <3>4. Desc(c, s) # v /\ Ext(v, Desc(c, s))
      BY <1>1, <3>2, <3>3
    <3> QED
      BY <2>1, <3>2, <3>4
  <2>2. CASE ~ Ext(v, q)
    BY <1>1, <1>3, <1>9, <2>2
  <2> QED
    BY <2>1, <2>2
<1>14. ASSUME NEW r \in Paths(t), r # v PROVE \E q \in Paths(u) : u[q] = t[r]
  <2>1. CASE ~ Ext(v, r)
    BY <1>1, <1>3, <1>9, <1>14, <2>1
  <2>2. CASE Ext(v, r)
    <3>1. Ext(c, r)
      BY <1>1, <1>2, <1>14, <2>2
    <3>2. PICK s \in Links : r = Desc(c, s)
      BY <3>1 DEF Ext
    <3> QED
      BY <1>10, <3>2 DEF Same
  <2> QED
    BY <2>1, <2>2
<1> QED
  BY <1>12, <1>13, <1>14 DEF M, c, Without

LEMMA DeletedIs ==
    ASSUME NEW t, Upright(t), NEW e \in Elements
    PROVE  /\ Upright(Deleted(t, e))
           /\ KeysAt(Deleted(t, e), Root) = {k \in KeysAt(t, Root) : Rank[k] # Rank[e]}
<1> DEFINE p == Find(t, e)
           v == Victim(t, p)
           over == [t EXCEPT ![p].key = t[v].key]
           rest == [q \in Paths(t) \ {v} |-> over[q]]
           d == IF v = p THEN 1 ELSE 0
           u == Relinked(rest, << >>, {<<Kid(v, d), v>>})
<1>1. /\ Formed(t) /\ Ordered(t) /\ Paths(t) \subseteq Links /\ Root \in Links
      /\ \A q \in Paths(t) : BalancedAt(t, q)
  BY PathTypes DEF Upright, Formed
<1>2. /\ p \in Links
      /\ p \in Paths(t) => Rank[t[p].key] = Rank[e]
      /\ p \notin Paths(t) => \A k \in KeysAt(t, Root) : Rank[k] # Rank[e]
  BY <1>1, FindIs
<1>3. Deleted(t, e) = IF p \notin Paths(t) THEN t ELSE Rebalanced(u, v)
  BY DEF Deleted, Kid
<1> HIDE DEF p
<1>4. CASE p \notin Paths(t)
  BY <1>2, <1>3, <1>4
<1>5. CASE p \in Paths(t)
  <2>1. /\ v \in Paths(t) /\ Ext(p, v)
        /\ v = p => Kid(v, 0) \notin Paths(t)
        /\ v # p => /\ Ext(Kid(p, 0), v) /\ Kid(v, 1) \notin Paths(t)
                    /\ \A k \in KeysAt(t, Kid(p, 0)) : k = t[v].key \/ Rank[k] < Rank[t[v].key]
    BY <1>1, <1>5, VictimIs
  <2> HIDE DEF v
  <2>2. d \in Bits /\ 1 - d \in Bits /\ 1 - (1 - d) = d /\ Kid(v, 1 - d) \notin Paths(t)
    <3>1. CASE v = p
      <4>1. d = 1 /\ 1 - d = 0 /\ 1 - 0 = 1
        BY <3>1
      <4> QED
        BY <2>1, <3>1, <4>1 DEF Bits
    <3>2. CASE v # p
      <4>1. d = 0 /\ 1 - d = 1 /\ 1 - 1 = 0
        BY <3>2
      <4> QED
        BY <2>1, <3>2, <4>1 DEF Bits
    <3> QED
      BY <3>1, <3>2
  <2>3. /\ Paths(over) = Paths(t) /\ over = [q \in Paths(over) |-> over[q]]
        /\ over[p] = [key |-> t[v].key, h |-> t[p].h]
        /\ \A q \in Paths(t) : q # p => over[q] = t[q]
    <3>1. t = [q \in Paths(t) |-> t[q]] /\ t[p] = [key |-> t[p].key, h |-> t[p].h]
      BY <1>1, <1>5, NodeIs DEF Formed
    <3>2. [t[p] EXCEPT !.key = t[v].key] = [key |-> t[v].key, h |-> t[p].h]
      BY <3>1
    <3>3. over = [q \in Paths(t) |-> IF q = p THEN [key |-> t[v].key, h |-> t[p].h] ELSE t[q]]
      BY <3>1, <3>2
    <3> HIDE DEF over
    <3> QED
      BY <1>5, <3>3 DEF Paths
  <2> HIDE DEF over, d
  <2>4. \A q \in Paths(t) : over[q].h = t[q].h /\ over[q] \in [key : Elements, h : Nat]
    <3>1. \A q \in Paths(t) : t[q].key \in Elements /\ t[q].h \in Nat /\ t[q] = [key |-> t[q].key, h |-> t[q].h]
      BY <1>1, NodeIs
    <3>2. \A q \in Paths(t) : q = p \/ over[q] = t[q]
      BY <2>3
    <3>3. over[p].h = t[p].h /\ over[p] \in [key : Elements, h : Nat]
      <4>1. t[v].key \in Elements /\ t[p].h \in Nat
        BY <1>5, <2>1, <3>1
      <4> QED
        BY <2>3, <4>1
    <3>4. \A q \in Paths(t) : t[q] \in [key : Elements, h : Nat]
      BY <1>1 DEF Formed
    <3> QED
      BY <3>2, <3>3, <3>4
  <2>5. Formed(over) /\ v \in Paths(over) /\ Kid(v, 1 - d) \notin Paths(over)
    <3>1. over \in [Paths(over) -> [key : Elements, h : Nat]]
      BY <2>3, <2>4
    <3> QED
      BY <1>1, <2>1, <2>2, <2>3, <3>1 DEF Formed
  <2>6. \A l : Height(over, l) = Height(t, l)
    BY <2>3, <2>4 DEF Height
  <2>7. rest = [q \in Paths(over) \ {v} |-> over[q]]
    BY <2>3
  <2> DEFINE M == {<<Kid(v, d), v>>}
  <2> HIDE DEF rest
  <2>8. u = Relinked(rest, << >>, M)
    OBVIOUS
  <2> HIDE DEF u
  <2>9. Turned(over, u, v, {}, M) /\ Without(over, u, v)
    <3>1. u = Relinked(rest, << >>, {<<Kid(v, d), v>>})
      BY <2>8
    <3>2. d \in Bits
      BY <2>2
    <3> HIDE DEF M
    <3>3. M = {<<Kid(v, d), v>>}
      BY DEF M
    <3> QED
      BY ONLY <2>5, <2>7, <3>1, <3>2, <3>3, CutIs
  <2>10. Formed(u) /\ Paths(u) \subseteq Links /\ v \in Links /\ Kid(v, d) \in Links /\ Outside(over, u, v)
    <3>1. Formed(u)
      BY <2>5, <2>9, TurnedFormed
    <3>2. v \in Links
      BY <1>1, <2>1
    <3> QED
      BY <2>2, <2>9, <3>1, <3>2, PathTypes DEF Turned, Formed
  <2> HIDE DEF M
  <2>11. ASSUME NEW l \in Links PROVE KeysAt(over, l) \subseteq KeysAt(t, l)
    <3>1. Ext(l, p) => Ext(l, v)
      BY <1>2, <2>1, <2>10, ExtLaws
    <3>2. ASSUME NEW q \in Paths(over), Ext(l, q) PROVE over[q].key \in KeysAt(t, l)
      <4>1. CASE q = p
        BY <2>1, <2>3, <3>1, <3>2, <4>1 DEF KeysAt
      <4>2. CASE q # p
        BY <2>3, <3>2, <4>2 DEF KeysAt
      <4> QED
        BY <4>1, <4>2
    <3> QED
      BY <3>2 DEF KeysAt
  <2>12. ASSUME NEW q \in Paths(over), q # p PROVE OrderedAt(over, q)
    <3>1. q \in Paths(t) /\ over[q] = t[q] /\ \A b \in Bits : Kid(q, b) \in Links
      BY <1>1, <2>3, <2>12, PathTypes
    <3> QED
      BY <1>1, <2>11, <3>1 DEF Ordered, OrderedAt
  <2>13. KeysAt(u, v) \subseteq KeysAt(over, v)
    BY <2>9 DEF KeysAt, Without
  <2>14. ASSUME NEW q \in Paths(u)
         PROVE  \E r \in Paths(t) : r # v /\ u[q] = over[r] /\ (Ext(v, q) => Ext(v, r)) /\ (~ Ext(v, q) => r = q)
    BY <2>3, <2>9 DEF Without
  <2>15. p # v => ~ Ext(v, p)
    <3> SUFFICES ASSUME p # v, Ext(v, p) PROVE FALSE
      OBVIOUS
    <3>1. Ext(Kid(p, 0), p) /\ 0 \in Bits /\ Kid(p, 0) \in Links
      BY <1>2, <2>1, <2>10, PathTypes, ExtLaws DEF Bits
    <3> QED
      BY <1>2, <3>1, ForkLaws
  <2>16. ASSUME p # v, p \in Paths(u) PROVE OrderedAt(u, p)
    <3> SUFFICES ASSUME NEW b \in Bits, NEW k \in KeysAt(u, Kid(p, b)) PROVE Beyond(b, k, u[p].key)
      BY DEF OrderedAt
    <3>1. PICK q \in Paths(u) : Ext(Kid(p, b), q) /\ k = u[q].key
      BY DEF KeysAt
    <3>2. PICK r \in Paths(t) : r # v /\ u[q] = over[r] /\ (Ext(v, q) => Ext(v, r)) /\ (~ Ext(v, q) => r = q)
      BY <2>14
    <3>3. u[p].key = t[v].key
      BY <2>3, <2>14, <2>15, <2>16
    <3>4. /\ Kid(p, b) \in Links /\ q \in Links /\ r \in Links /\ 0 \in Bits /\ 1 - 0 = 1
          /\ Kid(p, 0) \in Links /\ Ext(Kid(p, 0), v) /\ (b = 0 \/ b = 1)
      BY <1>1, <1>2, <2>1, <2>10, <2>16, PathTypes DEF Bits
    <3>5. Ext(Kid(p, b), r)
      <4>1. CASE ~ Ext(v, q)
        BY <3>1, <3>2, <4>1
      <4>2. CASE Ext(v, q)
        <5>1. Ext(Kid(p, 0), q) /\ Ext(Kid(p, 0), r)
          BY <2>10, <3>2, <3>4, <4>2, ExtLaws
        <5>2. b = 0
          BY <1>2, <3>1, <3>4, <5>1, ForkLaws
        <5> QED
          BY <5>1, <5>2
      <4> QED
        BY <4>1, <4>2
    <3>6. r # p
      BY <1>2, <3>5, ForkLaws
    <3>7. k = t[r].key /\ k \in KeysAt(t, Kid(p, b))
      BY <2>3, <3>1, <3>2, <3>5, <3>6 DEF KeysAt
    <3>8. Rank[t[r].key] # Rank[t[v].key] /\ k \in Elements /\ t[v].key \in Elements /\ t[p].key \in Elements
      BY <1>1, <1>5, <2>1, <3>2, <3>7, UniqueIs, NodeIs
    <3>9. CASE b = 0
      BY <2>1, <2>16, <3>3, <3>7, <3>8, <3>9 DEF Beyond
    <3>10. CASE b = 1
      <4>1. Beyond(1, k, t[p].key)
        BY <1>1, <1>5, <3>7, <3>10 DEF Ordered, OrderedAt
      <4>2. Beyond(0, t[v].key, t[p].key)
        <5>1. t[v].key \in KeysAt(t, Kid(p, 0))
          BY <2>1, <2>16 DEF KeysAt
        <5> QED
          BY <1>1, <1>5, <3>4, <5>1 DEF Ordered, OrderedAt
      <4>3. Rank[k] \in Nat /\ Rank[t[v].key] \in Nat /\ Rank[t[p].key] \in Nat
        BY <3>8, TreeAssumption
      <4>4. Rank[k] > Rank[t[v].key]
        BY <4>1, <4>2, <4>3 DEF Beyond
      <4> QED
        BY <3>3, <3>10, <4>4 DEF Beyond
    <3> QED
      BY <3>4, <3>9, <3>10
  <2>17. \A r \in Paths(t) : Ext(Kid(v, d), r) => Ext(v, r) /\ r # v /\ r # p
    <3> SUFFICES ASSUME NEW r \in Paths(t), Ext(Kid(v, d), r) PROVE Ext(v, r) /\ r # v /\ r # p
      OBVIOUS
    <3>1. Ext(v, r) /\ r # v
      BY <1>1, <2>2, <2>10, ForkLaws
    <3> QED
      BY <2>15, <3>1
  <2>18. ASSUME NEW q \in Paths(u), Ext(v, q)
         PROVE  \E r \in Paths(t) : /\ Ext(Kid(v, d), r)
                                    /\ OrderedAt(over, r) => OrderedAt(u, q)
                                    /\ BalancedAt(over, r) => BalancedAt(u, q)
    <3>1. \A m \in M : m[1] = Kid(v, d)
      BY DEF M
    <3>2. \E m \in M, r \in Paths(over) : /\ Ext(m[1], r)
                                          /\ OrderedAt(over, r) => OrderedAt(u, q)
                                          /\ BalancedAt(over, r) => BalancedAt(u, q)
      <4>1. q \notin {}
        OBVIOUS
      <4> QED
        BY <2>5, <2>9, <2>13, <2>18, <4>1, TurnedElsewhere
    <3> QED
      BY <2>3, <3>1, <3>2
  <2>19. Ordered(u)
    <3> SUFFICES ASSUME NEW q \in Paths(u) PROVE OrderedAt(u, q)
      BY DEF Ordered
    <3>1. CASE Ext(v, q)
      BY <2>3, <2>12, <2>17, <2>18, <3>1
    <3>2. CASE ~ Ext(v, q)
      <4>1. q \in Paths(over) /\ (OrderedAt(over, q) => OrderedAt(u, q))
        <5>1. q \notin {}
          OBVIOUS
        <5> QED
          BY <2>5, <2>9, <2>13, <3>2, <5>1, TurnedElsewhere
      <4>2. Ext(v, v)
        BY <2>2, <2>10, ForkLaws
      <4> QED
        BY <2>12, <2>16, <3>2, <4>1, <4>2
    <3> QED
      BY <3>1, <3>2
  <2>20. \A q \in Paths(t) : BalancedAt(over, q)
    BY <1>1, <2>4, <2>6 DEF BalancedAt
  <2>21. Leaning(u, v, t[v].h)
    <3>1. t[v].h \in Nat /\ Height(t, v) = t[v].h /\ \A l : Height(t, l) \in Nat
      BY <1>1, <2>1, NodeIs, HeightIs DEF Height
    <3>2. Height(u, v) - t[v].h \in -1..1
      <4>1. Height(t, Kid(v, 1 - d)) = 0
        BY <2>2 DEF Height
      <4>2. Leans(Height(t, Kid(v, d)), 0, t[v].h)
        BY <1>1, <2>1, <2>2, <4>1, LeansEither
      <4>3. Height(u, v) = Height(t, Kid(v, d))
        <5>1. Same(over, Kid(v, d), u, v)
          BY <2>9 DEF Turned, M
        <5> QED
          BY <2>5, <2>6, <2>10, <5>1, SameIs
      <4> QED
        BY <3>1, <4>2, <4>3 DEF Leans
    <3>3. ASSUME NEW q \in Paths(u) PROVE LeansAt(u, q, v, t[v].h)
      <4>0. q \in Links
        BY <2>10
      <4>1. CASE Ext(v, q)
        <5>1. BalancedAt(u, q)
          BY <2>18, <2>20, <4>1
        <5>2. \A b \in Bits : Kid(q, b) # v
          BY <4>0, <4>1, ForkLaws
        <5> QED
          BY <5>1, <5>2 DEF LeansAt, BalancedAt, HeightAs, Bits
      <4>2. CASE ~ Ext(v, q)
        <5>1. q \in Paths(t) /\ u[q].h = t[q].h
          BY <2>4, <2>14, <4>2
        <5>2. ASSUME NEW b \in Bits PROVE HeightAs(u, Kid(q, b), v, t[v].h) = Height(t, Kid(q, b))
          <6>1. CASE Kid(q, b) = v
            BY <3>1, <6>1 DEF HeightAs
          <6>2. CASE Kid(q, b) # v
            <7>1. Kid(q, b) \in Links
              BY <4>0, PathTypes
            <7>2. ~ Ext(v, Kid(q, b))
              BY <2>10, <4>0, <4>2, <6>2, ExtLaws
            <7>3. Height(u, Kid(q, b)) = Height(over, Kid(q, b))
              BY <2>10, <7>1, <7>2 DEF Outside, Height
            <7> QED
              BY <2>6, <6>2, <7>3 DEF HeightAs
          <6> QED
            BY <6>1, <6>2
        <5> QED
          BY <1>1, <5>1, <5>2 DEF LeansAt, BalancedAt, Bits
      <4> QED
        BY <4>1, <4>2
    <3> QED
      BY <3>1, <3>2, <3>3 DEF Leaning
  <2>22. \A q \in Links, b \in Bits : v = Kid(q, b) => q \in Paths(u)
    <3> SUFFICES ASSUME NEW q \in Links, NEW b \in Bits, v = Kid(q, b) PROVE q \in Paths(u)
      OBVIOUS
    <3>1. q \in Paths(over) /\ ~ Ext(v, q)
      BY <2>5, ForkLaws DEF Formed
    <3> QED
      BY <2>10, <3>1 DEF Outside
  <2> DEFINE w == Rebalanced(u, v)
  <2>23. Deleted(t, e) = w
    BY <1>3, <1>5
  <2> HIDE DEF w
  <2>24. Upright(w) /\ KeysAt(w, Root) = KeysAt(u, Root)
    BY <2>10, <2>19, <2>21, <2>22, RebalancedIs DEF w, Upright
  <2>25. KeysAt(u, Root) = {k \in KeysAt(t, Root) : Rank[k] # Rank[e]}
    <3>1. /\ KeysAt(u, Root) = {u[q].key : q \in Paths(u)}
          /\ KeysAt(t, Root) = {t[q].key : q \in Paths(t)}
      BY <1>1, <2>10, ExtLaws DEF KeysAt
    <3>2. \A q \in Paths(t) : q # p <=> Rank[t[q].key] # Rank[e]
      BY <1>1, <1>2, <1>5, UniqueIs
    <3>3. ASSUME NEW q \in Paths(u) PROVE \E r \in Paths(t) : r # p /\ u[q].key = t[r].key
      <4>1. PICK r \in Paths(t) : r # v /\ u[q] = over[r]
        BY <2>14
      <4>2. CASE r = p
        BY <2>1, <2>3, <4>1, <4>2
      <4>3. CASE r # p
        BY <2>3, <4>1, <4>3
      <4> QED
        BY <4>2, <4>3
    <3>4. ASSUME NEW r \in Paths(t), r # p PROVE \E q \in Paths(u) : u[q].key = t[r].key
      <4>1. CASE r = v
        <5>1. PICK q \in Paths(u) : u[q] = over[p]
          BY <1>5, <2>3, <2>9, <3>4, <4>1 DEF Without
        <5> QED
          BY <2>3, <4>1, <5>1
      <4>2. CASE r # v
        BY <2>3, <2>9, <3>4, <4>2 DEF Without
      <4> QED
        BY <4>1, <4>2
    <3> QED
      BY <3>1, <3>2, <3>3, <3>4
  <2> QED
    BY <2>23, <2>24, <2>25
<1> QED
  BY <1>4, <1>5

-----------------------------------------------------------------------------
(* The walk. *)
LEMMA PathsFinite ==
    ASSUME NEW t, Formed(t)
    PROVE  IsFiniteSet(Paths(t))
<1>1. PICK n \in Nat : \A p \in Paths(t) : Len(p) <= n
  BY DEF Formed
<1> DEFINE N == 1..n
           Ones(p) == {i \in N : i <= Len(p) /\ p[i] = 1}
           T == (SUBSET N) \X (0..n)
           f == [p \in Paths(t) |-> <<Ones(p), Len(p)>>]
<1>2. \A p \in Paths(t) : /\ p \in Seq(Bits) /\ Len(p) \in Nat /\ Len(p) \in 0..n
                          /\ \A i \in 1..Len(p) : p[i] \in Bits
  <2> TAKE p \in Paths(t)
  <2>1. p \in Seq(Bits) /\ Len(p) \in Nat /\ Len(p) <= n
    BY <1>1, PathTypes DEF Formed, Links
  <2> QED
    BY <2>1, ElementOfSeq
<1>3. IsFiniteSet(T)
  <2>1. IsFiniteSet(N) /\ IsFiniteSet(0..n)
    BY FS_Interval
  <2>2. IsFiniteSet(SUBSET N)
    BY <2>1, FS_SUBSET
  <2> QED
    BY <2>1, <2>2, FS_Product
<1>4. f \in [Paths(t) -> T]
  BY <1>2
<1>5. ASSUME NEW p \in Paths(t), NEW q \in Paths(t), f[p] = f[q] PROVE p = q
  <2>1. Ones(p) = Ones(q) /\ Len(p) = Len(q)
    BY <1>5
  <2>2. ASSUME NEW i \in 1..Len(p) PROVE p[i] = q[i]
    <3>1. i \in N /\ i <= Len(p) /\ i <= Len(q) /\ p[i] \in Bits /\ q[i] \in Bits
      BY <1>2, <2>1
    <3>2. p[i] = 1 <=> q[i] = 1
      BY <2>1, <3>1
    <3> QED
      BY <3>1, <3>2 DEF Bits
  <2> QED
    BY <1>2, <2>1, <2>2, SeqEqual
<1> HIDE DEF f, T
<1>6. f \in Injection(Paths(t), T)
  BY <1>4, <1>5 DEF Injection, IsInjective
<1> QED
  BY <1>3, <1>6, FS_Injection

(* The order in which the walk comes to nodes. *)
Earlier(p, q) == \/ Ext(p, q) /\ p # q
                 \/ \E l \in Links : Ext(Kid(l, 0), p) /\ Ext(Kid(l, 1), q)

LEMMA EarlierIs ==
    /\ \A p \in Links : ~ Earlier(p, p)
    /\ \A p, q \in Links : p # q => Earlier(p, q) \/ Earlier(q, p)
    /\ \A p, q, r \in Links : Earlier(p, q) /\ Earlier(q, r) => Earlier(p, r)
<1>1. \A l \in Links : /\ Kid(l, 0) \in Links /\ Kid(l, 1) \in Links
                       /\ \A q \in Links : /\ ~ (Ext(Kid(l, 0), q) /\ Ext(Kid(l, 1), q))
                                           /\ Ext(l, q) <=> q = l \/ Ext(Kid(l, 0), q) \/ Ext(Kid(l, 1), q)
                       /\ ~ Ext(Kid(l, 0), l) /\ ~ Ext(Kid(l, 1), l)
  <2> TAKE l \in Links
  <2>1. 0 \in Bits /\ 1 - 0 = 1
    BY DEF Bits
  <2> QED
    BY <2>1, ForkLaws
<1>2. \A p \in Links : ~ Earlier(p, p)
  BY <1>1 DEF Earlier
<1>3. ASSUME NEW p \in Links, NEW q \in Links, p # q PROVE Earlier(p, q) \/ Earlier(q, p)
  <2>1. PICK l \in Links : \/ l = p /\ \E d \in Bits : Ext(Kid(l, d), q)
                           \/ l = q /\ \E d \in Bits : Ext(Kid(l, d), p)
                           \/ \E d \in Bits : Ext(Kid(l, d), p) /\ Ext(Kid(l, 1 - d), q)
    BY <1>3, ForkIs
  <2>2. \A d \in Bits : (d = 0 /\ 1 - d = 1) \/ (d = 1 /\ 1 - d = 0)
    BY DEF Bits
  <2>3. CASE l = p /\ \E d \in Bits : Ext(Kid(l, d), q)
    BY <1>1, <1>3, <2>2, <2>3 DEF Earlier
  <2>4. CASE l = q /\ \E d \in Bits : Ext(Kid(l, d), p)
    BY <1>1, <1>3, <2>2, <2>4 DEF Earlier
  <2>5. CASE \E d \in Bits : Ext(Kid(l, d), p) /\ Ext(Kid(l, 1 - d), q)
    BY <2>2, <2>5 DEF Earlier
  <2> QED
    BY <2>1, <2>3, <2>4, <2>5
<1>4. ASSUME NEW p \in Links, NEW q \in Links, NEW r \in Links, Earlier(p, q), Earlier(q, r)
      PROVE  Earlier(p, r)
  <2>1. CASE Ext(p, q) /\ p # q /\ Ext(q, r) /\ q # r
    <3>1. Ext(p, r)
      BY <2>1, ExtLaws
    <3>2. p # r
      <4> SUFFICES ASSUME p = r PROVE FALSE
        OBVIOUS
      <4>1. Ext(Kid(p, 0), q) \/ Ext(Kid(p, 1), q)
        BY <1>1, <2>1
      <4>2. Ext(Kid(p, 0), p) \/ Ext(Kid(p, 1), p)
        BY <1>1, <2>1, <4>1, ExtLaws
      <4> QED
        BY <1>1, <4>2
    <3> QED
      BY <3>1, <3>2 DEF Earlier
  <2>2. ASSUME NEW l \in Links, Ext(p, q), p # q, Ext(Kid(l, 0), q), Ext(Kid(l, 1), r) PROVE Earlier(p, r)
    <3>1. Ext(p, Kid(l, 0)) \/ Ext(Kid(l, 0), p)
      BY <1>1, <2>2, ExtLaws
    <3>2. CASE Ext(Kid(l, 0), p)
      BY <2>2, <3>2 DEF Earlier
    <3>3. CASE Ext(p, Kid(l, 0)) /\ ~ Ext(Kid(l, 0), p)
      <4>1. Ext(Kid(l, 0), Kid(l, 0)) /\ 0 \in Bits
        BY <1>1, ForkLaws DEF Bits
      <4>2. Ext(p, l)
        BY <3>3, <4>1, ExtLaws
      <4>3. Ext(l, r)
        BY <1>1, <2>2
      <4>4. Ext(p, r)
        BY <4>2, <4>3, ExtLaws
      <4>5. p # r
        BY <1>1, <2>2, <4>2, ExtLaws
      <4> QED
        BY <4>4, <4>5 DEF Earlier
    <3> QED
      BY <3>1, <3>2, <3>3
  <2>3. ASSUME NEW l \in Links, Ext(Kid(l, 0), p), Ext(Kid(l, 1), q), Ext(q, r) PROVE Earlier(p, r)
    <3>1. Ext(Kid(l, 1), r)
      BY <1>1, <2>3, ExtLaws
    <3> QED
      BY <2>3, <3>1 DEF Earlier
  <2>4. ASSUME NEW l \in Links, Ext(Kid(l, 0), p), Ext(Kid(l, 1), q),
               NEW m \in Links, Ext(Kid(m, 0), q), Ext(Kid(m, 1), r)
        PROVE  Earlier(p, r)
    <3>1. Ext(l, q) /\ Ext(m, q) /\ Ext(m, r) /\ Ext(l, p)
      BY <1>1, <2>4
    <3>2. Ext(l, m) \/ Ext(m, l)
      BY <3>1, ExtLaws
    <3>3. l # m
      BY <1>1, <2>4
    <3>4. CASE Ext(l, m)
      <4>1. Ext(Kid(l, 0), m) \/ Ext(Kid(l, 1), m)
        BY <1>1, <3>3, <3>4
      <4>2. Ext(Kid(l, 1), m)
        BY <1>1, <2>4, <3>1, <4>1, ExtLaws
      <4>3. Ext(Kid(l, 1), r)
        BY <1>1, <3>1, <4>2, ExtLaws
      <4> QED
        BY <2>4, <4>3 DEF Earlier
    <3>5. CASE Ext(m, l)
      <4>1. Ext(Kid(m, 0), l) \/ Ext(Kid(m, 1), l)
        BY <1>1, <3>3, <3>5
      <4>2. Ext(Kid(m, 0), l)
        BY <1>1, <2>4, <3>1, <4>1, ExtLaws
      <4>3. Ext(Kid(m, 0), p)
        BY <1>1, <3>1, <4>2, ExtLaws
      <4> QED
        BY <2>4, <4>3 DEF Earlier
    <3> QED
      BY <3>2, <3>4, <3>5
  <2> QED
    BY <1>4, <2>1, <2>2, <2>3, <2>4 DEF Earlier
<1> QED
  BY <1>2, <1>3, <1>4

LEMMA PrefixOf ==
    ASSUME NEW l \in Links, NEW p \in Links, Ext(l, p)
    PROVE  Len(l) \in Nat /\ Len(l) <= Len(p) /\ SubSeq(p, 1, Len(l)) = l
<1>1. Len(l) <= Len(p) /\ SubSeq(l, 1, Len(l)) = SubSeq(p, 1, Len(l))
  BY PrefixIs DEF IsPrefix
<1> QED
  BY <1>1, PrefixLaws, PathTypes

LEMMA BeforeIs ==
    ASSUME NEW p \in Links, NEW q \in Links
    PROVE  Earlier(p, q) <=> \/ IsStrictPrefix(p, q)
                             \/ \E i \in 1..Len(p) : /\ i <= Len(q) /\ p[i] < q[i]
                                                     /\ SubSeq(p, 1, i - 1) = SubSeq(q, 1, i - 1)
<1>0. Len(p) \in Nat /\ Len(q) \in Nat
  BY PathTypes
<1>1. IsStrictPrefix(p, q) <=> Ext(p, q) /\ p # q
  BY PrefixIs DEF IsStrictPrefix
<1>2. ASSUME NEW i \in 1..Len(p), i <= Len(q), p[i] < q[i], SubSeq(p, 1, i - 1) = SubSeq(q, 1, i - 1)
      PROVE  Earlier(p, q)
  <2> DEFINE l == SubSeq(p, 1, i - 1)
  <2>1. i - 1 \in 0..Len(p) /\ i - 1 # Len(p) /\ i - 1 \in 0..Len(q) /\ i - 1 # Len(q) /\ (i - 1) + 1 = i
        /\ i \in 0..Len(p) /\ i \in 0..Len(q)
    BY <1>0, <1>2
  <2>2. /\ l \in Links /\ p[i] \in Bits /\ q[i] \in Bits
        /\ SubSeq(p, 1, i) = Kid(l, p[i]) /\ SubSeq(q, 1, i) = Kid(l, q[i])
    BY <1>2, <2>1, PrefixLaws
  <2>3. Ext(SubSeq(p, 1, i), p) /\ Ext(SubSeq(q, 1, i), q)
    BY <2>1, PrefixLaws
  <2>4. p[i] = 0 /\ q[i] = 1
    BY <1>2, <2>2 DEF Bits
  <2> HIDE DEF l
  <2> QED
    BY <2>2, <2>3, <2>4 DEF Earlier
<1>3. ASSUME NEW l \in Links, Ext(Kid(l, 0), p), Ext(Kid(l, 1), q)
      PROVE  \E i \in 1..Len(p) : /\ i <= Len(q) /\ p[i] < q[i]
                                  /\ SubSeq(p, 1, i - 1) = SubSeq(q, 1, i - 1)
  <2> DEFINE i == Len(l) + 1
  <2>0. 0 \in Bits /\ 1 \in Bits
    BY DEF Bits
  <2>1. ASSUME NEW d \in Bits, NEW r \in Links, Ext(Kid(l, d), r)
        PROVE  i \in 1..Len(r) /\ r[i] = d /\ SubSeq(r, 1, i - 1) = l
    <3>1. Kid(l, d) \in Links /\ Len(Kid(l, d)) = Len(l) + 1 /\ Len(l) \in Nat /\ Len(r) \in Nat
      BY PathTypes, PathLengths
    <3>2. Len(l) + 1 <= Len(r) /\ SubSeq(r, 1, Len(l) + 1) = Kid(l, d)
      BY <2>1, <3>1, PrefixOf
    <3>3. Ext(l, Kid(l, d))
      BY ForkLaws, <3>1
    <3>4. Ext(l, r)
      BY <2>1, <3>1, <3>3, ExtLaws
    <3>5. SubSeq(r, 1, Len(l)) = l
      BY <3>4, PrefixOf
    <3>6. Len(l) \in 0..Len(r) /\ Len(l) # Len(r)
      BY <3>1, <3>2
    <3>7. r[Len(l) + 1] \in Bits /\ SubSeq(r, 1, Len(l) + 1) = Kid(SubSeq(r, 1, Len(l)), r[Len(l) + 1])
      BY <3>6, PrefixLaws
    <3>8. r[Len(l) + 1] = d
      BY <3>2, <3>5, <3>7, KidIs
    <3> QED
      BY <3>1, <3>2, <3>5, <3>8
  <2>2. i \in 1..Len(p) /\ p[i] = 0 /\ SubSeq(p, 1, i - 1) = l
    BY <1>3, <2>0, <2>1
  <2>3. i \in 1..Len(q) /\ q[i] = 1 /\ SubSeq(q, 1, i - 1) = l
    BY <1>3, <2>0, <2>1
  <2> HIDE DEF i
  <2> QED
    BY <1>0, <2>2, <2>3
<1> QED
  BY <1>1, <1>2, <1>3 DEF Earlier

(* In a balanced tree no node of height 1 has a child. *)
LEMMA SeenIs ==
    ASSUME NEW t, Upright(t), NEW p \in Paths(t), NEW q \in Prefixes(p) \ {p}
    PROVE  t[q].h # 1
<1>1. Formed(t) /\ p \in Links
  BY NodeIs DEF Upright
<1>2. PICK n \in 0..Len(p) : q = SubSeq(p, 1, n)
  BY DEF Prefixes
<1>3. q \in Links /\ Ext(q, p) /\ q # p
  BY <1>1, <1>2, PrefixLaws
<1>4. PICK d \in Bits : Ext(Kid(q, d), p)
  <2>1. 0 \in Bits /\ 1 - 0 = 1 /\ 1 \in Bits
    BY DEF Bits
  <2> QED
    BY <1>1, <1>3, <2>1, ForkLaws
<1>5. Kid(q, d) \in Paths(t) /\ q \in Paths(t)
  BY <1>1, <1>3, <1>4, Closed, PathTypes
<1>6. ASSUME NEW r \in Paths(t) PROVE t[r].h \in Nat /\ t[r].h >= 1
  <2>1. BalancedAt(t, r)
    BY DEF Upright
  <2>2. Height(t, Kid(r, 0)) \in Nat /\ Height(t, Kid(r, 1)) \in Nat /\ t[r].h \in Nat
    BY <1>1, HeightIs, NodeIs
  <2> QED
    BY <2>1, <2>2 DEF BalancedAt, Leans
<1>7. Height(t, Kid(q, d)) >= 1
  BY <1>5, <1>6 DEF Height
<1>8. Height(t, Kid(q, 0)) \in Nat /\ Height(t, Kid(q, 1)) \in Nat /\ BalancedAt(t, q) /\ d \in {0, 1}
  BY <1>1, <1>5, HeightIs DEF Upright, Bits
<1> QED
  BY <1>5, <1>6, <1>7, <1>8 DEF BalancedAt, Leans

(* Each node of a finite set has its own place in the order of the walk.   *)
LEMMA PlacesIs ==
    ASSUME NEW S, IsFiniteSet(S), S \subseteq Links,
           NEW place, place = [p \in S |-> Cardinality({q \in S : Earlier(q, p)})]
    PROVE  /\ Cardinality(S) \in Nat
           /\ \A p \in S : place[p] \in 0..Cardinality(S) - 1
           /\ \A p, r \in S : place[p] = place[r] => p = r
           /\ \A i \in 1..Cardinality(S) : \E p \in S : place[p] = i - 1
<1> DEFINE B(p) == {q \in S : Earlier(q, p)}
           n == Cardinality(S)
           T == 0..n - 1
<1>1. n \in Nat
  BY FS_CardinalityType
<1>2. ASSUME NEW p \in S
      PROVE  IsFiniteSet(B(p)) /\ Cardinality(B(p)) \in Nat /\ place[p] = Cardinality(B(p))
  <2>1. B(p) \in SUBSET S
    OBVIOUS
  <2> QED
    BY <2>1, FS_Subset, FS_CardinalityType
<1>3. ASSUME NEW p \in S, NEW X \in SUBSET S, IsFiniteSet(X), B(p) \subseteq X, p \in X
      PROVE  place[p] < Cardinality(X)
  <2>1. p \notin B(p)
    BY <1>3, EarlierIs
  <2>2. B(p) \in SUBSET X /\ B(p) # X
    BY <1>3, <2>1
  <2>3. Cardinality(B(p)) <= Cardinality(X) /\ Cardinality(B(p)) # Cardinality(X) /\ Cardinality(X) \in Nat
    <3> HIDE DEF B
    <3> QED
      BY <1>3, <2>2, FS_Subset, FS_CardinalityType
  <2> QED
    BY <1>2, <2>3
<1>4. ASSUME NEW p \in S PROVE place[p] \in T
  <2>1. place[p] < n
    BY <1>3
  <2> QED
    BY <1>1, <1>2, <2>1
<1>5. ASSUME NEW p \in S, NEW r \in S, Earlier(p, r) PROVE place[p] < place[r]
  <2>1. B(p) \subseteq B(r) /\ p \in B(r) /\ B(r) \in SUBSET S
    BY <1>5, EarlierIs
  <2> HIDE DEF B
  <2> QED
    BY <1>2, <1>3, <2>1
<1>6. ASSUME NEW p \in S, NEW r \in S, place[p] = place[r] PROVE p = r
  <2>1. place[p] \in Nat
    BY <1>2
  <2>2. ~ (place[p] < place[r]) /\ ~ (place[r] < place[p])
    BY <1>6, <2>1
  <2>3. ~ Earlier(p, r) /\ ~ Earlier(r, p)
    BY <1>5, <2>2
  <2> QED
    BY <2>3, EarlierIs
<1>7. place \in Injection(S, T)
  <2>1. place \in [S -> T]
    BY <1>4
  <2> QED
    BY <1>6, <2>1 DEF Injection, IsInjective
<1>8. IsFiniteSet(T) /\ Cardinality(T) = n
  BY <1>1, FS_Interval
<1>9. place \in Surjection(S, T)
  <2> HIDE DEF T
  <2> QED
    BY <1>7, <1>8, FS_Injection
<1>10. ASSUME NEW i \in 1..n PROVE \E p \in S : place[p] = i - 1
  <2>1. i - 1 \in T
    BY <1>1
  <2> QED
    BY <1>9, <2>1 DEF Surjection
<1> QED
  BY <1>1, <1>4, <1>6, <1>10

LEMMA WalkIs ==
    ASSUME NEW t, Upright(t)
    PROVE  /\ Cardinality(Paths(t)) \in Nat /\ DOMAIN Walk(t) = 1..Cardinality(Paths(t))
           /\ {Walk(t)[i] : i \in DOMAIN Walk(t)} = Paths(t)
           /\ \A i, j \in DOMAIN Walk(t) : Walk(t)[i] = Walk(t)[j] => i = j
<1> DEFINE S == Paths(t)
           place == [p \in S |-> Cardinality({q \in S : Earlier(q, p)})]
           Seen == {p \in S : \A q \in Prefixes(p) \ {p} : t[q].h # 1}
           Before(p, q) == \/ IsStrictPrefix(p, q)
                           \/ \E i \in 1..Len(p) : /\ i <= Len(q) /\ p[i] < q[i]
                                                   /\ SubSeq(p, 1, i - 1) = SubSeq(q, 1, i - 1)
           W == [i \in 1..Cardinality(Seen) |->
                    CHOOSE p \in Seen : Cardinality({q \in Seen : Before(q, p)}) = i - 1]
<1>1. IsFiniteSet(S) /\ S \subseteq Links
  BY PathsFinite, NodeIs DEF Upright
<1>2. Walk(t) = W
  BY DEF Walk
<1>3. Seen = S
  BY SeenIs
<1>4. ASSUME NEW p \in S PROVE Cardinality({q \in Seen : Before(q, p)}) = place[p]
  <2>1. {q \in Seen : Before(q, p)} = {q \in S : Earlier(q, p)}
    <3>1. \A q \in S : Before(q, p) <=> Earlier(q, p)
      BY <1>1, BeforeIs
    <3> HIDE DEF Before, Seen
    <3> QED
      BY <1>3, <3>1
  <2> HIDE DEF Before, Seen
  <2> QED
    BY <2>1
<1>5. /\ Cardinality(S) \in Nat
      /\ \A p \in S : place[p] \in 0..Cardinality(S) - 1
      /\ \A p, r \in S : place[p] = place[r] => p = r
      /\ \A i \in 1..Cardinality(S) : \E p \in S : place[p] = i - 1
  <2>1. place = [p \in S |-> Cardinality({q \in S : Earlier(q, p)})]
    OBVIOUS
  <2> HIDE DEF place, S
  <2> QED
    BY <1>1, <2>1, PlacesIs
<1> HIDE DEF Before, Seen, place, S
<1>6. DOMAIN W = 1..Cardinality(S)
  BY <1>3
<1>7. ASSUME NEW i \in 1..Cardinality(S) PROVE W[i] \in S /\ place[W[i]] = i - 1
  <2>1. PICK p \in S : place[p] = i - 1
    BY <1>5
  <2>2. \E r \in Seen : Cardinality({q \in Seen : Before(q, r)}) = i - 1
    BY <1>3, <1>4, <2>1
  <2>3. W[i] = CHOOSE r \in Seen : Cardinality({q \in Seen : Before(q, r)}) = i - 1
    BY <1>3
  <2>4. W[i] \in Seen /\ Cardinality({q \in Seen : Before(q, W[i])}) = i - 1
    BY <2>2, <2>3
  <2> QED
    BY <1>3, <1>4, <2>4
<1>8. ASSUME NEW p \in S PROVE \E i \in 1..Cardinality(S) : W[i] = p
  <2>1. place[p] + 1 \in 1..Cardinality(S) /\ (place[p] + 1) - 1 = place[p]
    BY <1>5
  <2>2. W[place[p] + 1] \in S /\ place[W[place[p] + 1]] = place[p]
    BY <1>7, <2>1
  <2> QED
    BY <1>5, <2>1, <2>2
<1>9. {W[i] : i \in DOMAIN W} = S
  BY <1>6, <1>7, <1>8
<1>10. ASSUME NEW i \in DOMAIN W, NEW j \in DOMAIN W, W[i] = W[j] PROVE i = j
  <2>1. i \in Int /\ j \in Int
    BY <1>5, <1>6
  <2>2. i - 1 = j - 1
    BY <1>5, <1>6, <1>7, <1>10
  <2> QED
    BY <2>1, <2>2
<1> HIDE DEF W
<1>11. S = Paths(t)
  BY DEF S
<1> QED
  BY <1>2, <1>5, <1>6, <1>9, <1>10, <1>11

-----------------------------------------------------------------------------
(* The theorems. *)
LEMMA UprightBalanced ==
    ASSUME NEW t, Upright(t)
    PROVE  BalancedTree(t) /\ Contents(t) = KeysAt(t, Root)
<1>1. \A p \in Paths(t) : BalancedAt(t, p) /\ p \in Links
  BY NodeIs DEF Upright
<1>2. BalancedTree(t)
  BY <1>1 DEF BalancedTree, BalancedAt, Leans, Kid
<1>3. \A p \in Paths(t) : Ext(Root, p)
  BY <1>1, ExtLaws
<1>4. {r \in Paths(t) : Ext(Root, r)} = Paths(t)
  BY <1>3
<1> QED
  BY <1>2, <1>4 DEF Contents, KeysAt

(* What those who use a tree may know of it. *)
LEMMA TreeIs ==
    ASSUME NEW t, Upright(t), NEW e \in Elements
    PROVE  /\ Contents(t) \subseteq Elements /\ IsFiniteSet(Contents(t))
           /\ \A p \in Paths(t) : t[p].key \in Elements
           /\ \A p, q \in Paths(t) : Rank[t[p].key] = Rank[t[q].key] => p = q
           /\ Find(t, e) \in Paths(t) <=> \E k \in Contents(t) : Rank[k] = Rank[e]
           /\ Find(t, e) \in Paths(t) => Rank[t[Find(t, e)].key] = Rank[e]
           /\ Upright(Inserted(t, e))
           /\ Contents(Inserted(t, e)) = IF \E k \in Contents(t) : Rank[k] = Rank[e] THEN Contents(t)
                                         ELSE Contents(t) \cup {e}
           /\ Upright(Deleted(t, e))
           /\ Contents(Deleted(t, e)) = {k \in Contents(t) : Rank[k] # Rank[e]}
<1>1. Formed(t) /\ Ordered(t) /\ Contents(t) = KeysAt(t, Root)
  BY UprightBalanced DEF Upright
<1>2. /\ Upright(Inserted(t, e))
      /\ Contents(Inserted(t, e)) = IF \E k \in Contents(t) : Rank[k] = Rank[e] THEN Contents(t)
                                    ELSE Contents(t) \cup {e}
  BY <1>1, InsertedIs, UprightBalanced
<1>3. /\ Upright(Deleted(t, e))
      /\ Contents(Deleted(t, e)) = {k \in Contents(t) : Rank[k] # Rank[e]}
  BY <1>1, DeletedIs, UprightBalanced
<1>4. \A p \in Paths(t) : t[p].key \in Elements
  BY <1>1, NodeIs
<1>5. IsFiniteSet(Contents(t))
  <2>1. IsFiniteSet(Paths(t))
    BY <1>1, PathsFinite
  <2> DEFINE f == [p \in Paths(t) |-> t[p].key]
  <2>2. f \in Surjection(Paths(t), Contents(t))
    BY DEF Surjection, Contents
  <2> QED
    BY <2>1, <2>2, FS_Surjection
<1>6. Find(t, e) \in Paths(t) => Rank[t[Find(t, e)].key] = Rank[e]
  BY <1>1, FindIs
<1>7. Find(t, e) \notin Paths(t) => \A k \in Contents(t) : Rank[k] # Rank[e]
  BY <1>1, FindIs
<1>8. Contents(t) \subseteq Elements
  BY <1>4 DEF Contents
<1>9. \A p, q \in Paths(t) : Rank[t[p].key] = Rank[t[q].key] => p = q
  BY <1>1, UniqueIs
<1>10. Find(t, e) \in Paths(t) => t[Find(t, e)].key \in Contents(t)
  BY DEF Contents
<1>11. Find(t, e) \in Paths(t) <=> \E k \in Contents(t) : Rank[k] = Rank[e]
  BY <1>6, <1>7, <1>10
<1> QED
  BY <1>2, <1>3, <1>4, <1>5, <1>6, <1>8, <1>9, <1>11

(* The keys in the order of the walk: each once. *)
Listing(t) == [i \in DOMAIN Walk(t) |-> t[Walk(t)[i]].key]
LEMMA ListingIs ==
    ASSUME NEW t, Upright(t)
    PROVE  /\ Listing(t) \in Seq(Elements) /\ Len(Listing(t)) = Cardinality(Paths(t))
           /\ {Listing(t)[i] : i \in 1..Len(Listing(t))} = Contents(t)
           /\ \A i, j \in 1..Len(Listing(t)) : Rank[Listing(t)[i]] = Rank[Listing(t)[j]] => i = j
<1> DEFINE list == Listing(t)
           n == Cardinality(Paths(t))
           w == Walk(t)
<1>1. /\ n \in Nat /\ DOMAIN w = 1..n /\ {w[i] : i \in 1..n} = Paths(t)
      /\ \A i, j \in 1..n : w[i] = w[j] => i = j
  BY WalkIs
<1>2. Formed(t) /\ Ordered(t)
  BY DEF Upright
<1> HIDE DEF n
<1>3. \A i \in 1..n : w[i] \in Paths(t) /\ t[w[i]].key \in Elements
  BY <1>1, <1>2, NodeIs
<1>4. list = [i \in 1..n |-> t[w[i]].key]
  BY <1>1 DEF Listing
<1> HIDE DEF list
<1>5. list \in Seq(Elements) /\ Len(list) = n
  BY <1>1, <1>3, <1>4
<1>8. {list[i] : i \in 1..n} = Contents(t)
  BY <1>1, <1>3, <1>4 DEF Contents
<1>9. ASSUME NEW i \in 1..n, NEW j \in 1..n, Rank[list[i]] = Rank[list[j]] PROVE i = j
  BY <1>1, <1>2, <1>3, <1>4, <1>9, UniqueIs
<1> QED
  BY <1>1, <1>5, <1>8, <1>9 DEF n, list

(* A node may get another key of the same rank.                            *)
Rekeyed(t, p, e) == [t EXCEPT ![p].key = e]
LEMMA RekeyIs ==
    ASSUME NEW t, Upright(t), NEW p \in Paths(t), NEW e \in Elements, Rank[e] = Rank[t[p].key]
    PROVE  /\ Upright(Rekeyed(t, p, e)) /\ Paths(Rekeyed(t, p, e)) = Paths(t)
           /\ \A q \in Paths(t) : Rekeyed(t, p, e)[q].key = IF q = p THEN e ELSE t[q].key
<1> DEFINE u == [t EXCEPT ![p].key = e]
<1>1. Formed(t) /\ Ordered(t) /\ \A q \in Paths(t) : BalancedAt(t, q)
  BY DEF Upright
<1>2. Paths(u) = Paths(t) /\ u \in [Paths(t) -> [key : Elements, h : Nat]]
  BY <1>1 DEF Formed, Paths
<1>3. \A q \in Paths(t) : u[q].key = (IF q = p THEN e ELSE t[q].key) /\ u[q].h = t[q].h
  BY <1>1 DEF Formed, Paths
<1>9. u = Rekeyed(t, p, e)
  BY DEF Rekeyed
<1> HIDE DEF u
<1>4. Formed(u)
  BY <1>1, <1>2 DEF Formed
<1>5. ASSUME NEW q \in Paths(u), NEW d \in Bits, NEW k \in KeysAt(u, Kid(q, d))
      PROVE  Beyond(d, k, u[q].key)
  <2>1. PICK r \in Paths(u) : Ext(Kid(q, d), r) /\ k = u[r].key
    BY DEF KeysAt
  <2>2. t[r].key \in KeysAt(t, Kid(q, d))
    BY <1>2, <2>1 DEF KeysAt
  <2>3. Beyond(d, t[r].key, t[q].key)
    BY <1>1, <1>2, <2>2 DEF Ordered, OrderedAt
  <2>4. Rank[u[r].key] = Rank[t[r].key] /\ Rank[u[q].key] = Rank[t[q].key]
    BY <1>2, <1>3
  <2> QED
    BY <2>1, <2>3, <2>4 DEF Beyond
<1>6. \A q : Height(u, q) = Height(t, q)
  BY <1>2, <1>3 DEF Height
<1>7. \A q \in Paths(u) : BalancedAt(u, q)
  BY <1>1, <1>2, <1>3, <1>6 DEF BalancedAt
<1>8. Upright(u)
  BY <1>2, <1>4, <1>5, <1>7 DEF Upright, Ordered, OrderedAt
<1> QED
  BY <1>2, <1>3, <1>8, <1>9

LEMMA EmptyUpright == Upright(Empty) /\ Contents(Empty) = {}
<1>1. Paths(Empty) = {} /\ Empty = [q \in {} |-> 0]
  BY DEF Empty, Paths
<1>2. Formed(Empty)
  <2>1. Empty \in [{} -> [key : Elements, h : Nat]]
    BY <1>1
  <2> QED
    BY <1>1, <2>1 DEF Formed
<1> QED
  BY <1>1, <1>2 DEF Upright, Ordered, Contents

LEMMA StepsUpright ==
    ASSUME Upright(tree), [Next]_tree
    PROVE  Upright(tree') /\ [Set!Next]_(Contents(tree))
<1>1. CASE UNCHANGED tree
  BY <1>1 DEF Contents, Paths
<1>2. ASSUME NEW e \in Elements, Tsearch(e) PROVE Upright(tree') /\ Set!Search(e)
  <2>1. tree' = Inserted(tree, e)
    BY <1>2 DEF Tsearch
  <2>2. /\ Upright(tree')
        /\ KeysAt(tree', Root) = IF \E k \in KeysAt(tree, Root) : Rank[k] = Rank[e]
                                 THEN KeysAt(tree, Root) ELSE KeysAt(tree, Root) \cup {e}
    BY <2>1, InsertedIs
  <2>3. Contents(tree) = KeysAt(tree, Root) /\ Contents(tree') = KeysAt(tree', Root)
    BY <2>2, UprightBalanced
  <2> QED
    BY <2>2, <2>3 DEF Set!Search, Set!Equal
<1>3. ASSUME NEW e \in Elements, Tdelete(e) PROVE Upright(tree') /\ Set!Delete(e)
  <2>1. tree' = Deleted(tree, e)
    BY <1>3 DEF Tdelete
  <2>2. Upright(tree') /\ KeysAt(tree', Root) = {k \in KeysAt(tree, Root) : Rank[k] # Rank[e]}
    BY <2>1, DeletedIs
  <2>3. Contents(tree) = KeysAt(tree, Root) /\ Contents(tree') = KeysAt(tree', Root)
    BY <2>2, UprightBalanced
  <2> QED
    BY <2>2, <2>3 DEF Set!Delete, Set!Equal
<1> QED
  BY <1>1, <1>2, <1>3 DEF Next, Set!Next

(* Safety: after any sequence of musl_tsearch and musl_tdelete, on any     *)
(* elements in any order of cmp, every height is exact and no node leans   *)
(* by more than one: rebalancing may stop at the first unchanged height,   *)
(* and the walk of set.c and map.c visits every node.                      *)
THEOREM TreesStayBalanced == Spec => []Balanced
<1>1. Init => Upright(tree)
  BY EmptyUpright DEF Init
<1>2. Upright(tree) /\ [Next]_tree => Upright(tree)'
  BY StepsUpright
<1>3. Upright(tree) => Balanced
  BY UprightBalanced, WalkIs DEF Balanced, WalkVisitsAll
<1> QED
  BY <1>1, <1>2, <1>3, PTL DEF Spec

(* Refinement: a tree is the set of its keys, whichever rotations inserting *)
(* and deleting make: no key is lost or entered twice, and searching finds *)
(* what is there.                                                          *)
THEOREM TreesAreSets == Spec => ImplementsSet
<1>1. Init => Upright(tree) /\ Set!Init
  BY EmptyUpright DEF Init, Set!Init
<1>2. Upright(tree) /\ [Next]_tree => Upright(tree)' /\ [Set!Next]_(Contents(tree))
  BY StepsUpright
<1> QED
  BY <1>1, <1>2, PTL DEF Spec, ImplementsSet, Set!Spec

=============================================================================
