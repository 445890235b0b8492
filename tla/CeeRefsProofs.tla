----------------------------- MODULE CeeRefsProofs -----------------------------
(***************************************************************************)
(* Proofs about CeeRefs for any number of objects, of kinds and of         *)
(* elements: as long as the program takes none of the Freedoms and         *)
(* in_degree is wide enough for the references there can be, the counts    *)
(* are exact, no deletion meets an object twice, and each call is the one  *)
(* step of CeeOwnership it stands for.                                     *)
(*                                                                         *)
(* The invariant is stated of a heap and a call stack given as arguments,  *)
(* so that the lemmas compare two heaps without mentioning time.           *)
(***************************************************************************)
EXTENDS CeeRefsRefinement, TLAPS, FiniteSetTheorems, SequenceTheorems

Cells == [kind : {"free", "box", "list", "stack", "product", "env"},
          pol : Policies \cup {"NOOP"}, slots : Seq(Slot),
          rc : 0..RcMod - 1, retained : BOOLEAN]
Calls == [obj : Objs, at : Nat \ {0}]
Places == Objs \X (1..MaxSlots + 4)

(* in_degree does not wrap: it can count every reference there is room for.*)
(* Beyond that it returns to 0 while references remain, and the last but   *)
(* 65536 release frees an object in use.                                   *)
CountersSuffice == IsFiniteSet(Objs) /\ Cardinality(Objs) * (MaxSlots + 4) < RcMod

(* RefsTo of the heap h with the calls c in progress. *)
RefsIn(h, c, e, p) ==
    {x \in {o \in Objs : h[o].kind # "free"} \X (1..MaxSlots + 4) :
        /\ x[2] \in DOMAIN h[x[1]].slots
        /\ \A f \in DOMAIN c : c[f].obj = x[1] => x[2] >= c[f].at
        /\ h[x[1]].slots[x[2]] = [ref |-> e, pol |-> p]}
OwningIn(h, c, e) == RefsIn(h, c, e, "RC") \cup RefsIn(h, c, e, "DEL")
CountingIn(h, c, e) == {x \in RefsIn(h, c, e, "RC") : h[x[1]].kind # "env"}

-----------------------------------------------------------------------------
(* The inductive invariant. *)
Typed(h, c) ==
    /\ h \in [Objs -> Cells] /\ c \in Seq(Calls)
    /\ \A o \in Objs : /\ Len(h[o].slots) <= MaxSlots + 4
                       /\ h[o].kind \in {"list", "stack"} => h[o].pol \in Policies

OwnedIsLive(h, c) == \A e \in Objs : OwningIn(h, c, e) # {} => h[e].kind # "free"

CountsRight(h, c) ==
    \A e \in Objs : h[e].kind # "free" => h[e].rc = Cardinality(CountingIn(h, c, e))

RetainedRight(h, c) ==
    \A e \in Objs : h[e].kind # "free" /\ (\A f \in DOMAIN c : c[f].obj # e) =>
        (h[e].retained <=> \E x \in RefsIn(h, c, e, "DEL") : h[x[1]].kind # "env")

(* A DEL container, or an env, that owns an object is its only owner. *)
LoneOwner(h, c) ==
    \A e \in Objs : \A x, y \in OwningIn(h, c, e) :
        x \in RefsIn(h, c, e, "DEL") \/ h[x[1]].kind = "env" => x = y

(* What is being deleted has no owner left, so that no deletion comes back *)
(* to it; that is why cycles of references need not be excluded here.      *)
BeingDeleted(h, c) ==
    \A f \in DOMAIN c : /\ h[c[f].obj].kind # "free" /\ OwningIn(h, c, c[f].obj) = {}
                        /\ \A g \in DOMAIN c : f # g => c[f].obj # c[g].obj

Sound(h, c) ==
    /\ Typed(h, c) /\ OwnedIsLive(h, c) /\ CountsRight(h, c)
    /\ RetainedRight(h, c) /\ LoneOwner(h, c) /\ BeingDeleted(h, c)

RInv == Sound(heap, frames)

-----------------------------------------------------------------------------
(* Sets of places and sequences of elements. *)

(* Every set of places is finite and smaller than what in_degree can hold. *)
LEMMA FewPlaces ==
    ASSUME CountersSuffice, NEW T \in SUBSET Places
    PROVE  IsFiniteSet(T) /\ Cardinality(T) \in Nat /\ Cardinality(T) < RcMod
<1>1. MaxSlots + 4 \in Nat /\ RcMod \in Nat
  BY RefsAssumption
<1>2. IsFiniteSet(1..MaxSlots + 4) /\ Cardinality(1..MaxSlots + 4) = MaxSlots + 4
  BY <1>1, FS_Interval
<1>3. IsFiniteSet(Places) /\ Cardinality(Places) = Cardinality(Objs) * (MaxSlots + 4)
  BY <1>2, FS_Product DEF CountersSuffice, Places
<1>4. IsFiniteSet(T) /\ Cardinality(T) <= Cardinality(Places)
  BY <1>3, FS_Subset
<1>5. Cardinality(T) \in Nat /\ Cardinality(Places) \in Nat
  BY <1>3, <1>4, FS_CardinalityType
<1> QED
  BY <1>1, <1>3, <1>4, <1>5 DEF CountersSuffice

(* An injective function leaves the number of elements alone. *)
LEMMA SameNumber ==
    ASSUME NEW S, IsFiniteSet(S), NEW f, S \subseteq DOMAIN f,
           \A x, y \in S : f[x] = f[y] => x = y
    PROVE  /\ IsFiniteSet({f[x] : x \in S})
           /\ Cardinality({f[x] : x \in S}) = Cardinality(S)
<1> DEFINE T == {f[x] : x \in S}
           g == [x \in S |-> f[x]]
<1>1. g \in Bijection(S, T)
  BY DEF Bijection, Injection, Surjection, IsInjective
<1>2. ExistsBijection(S, T)
  BY <1>1 DEF ExistsBijection
<1> QED
  BY <1>2, FS_Bijection

(* What InsertAt does to a sequence of elements. *)
LEMMA Inserted ==
    ASSUME NEW s \in Seq(Slot), NEW e \in Slot, NEW i \in 1..Len(s) + 1
    PROVE  /\ InsertAt(s, i, e) \in Seq(Slot) /\ Len(InsertAt(s, i, e)) = Len(s) + 1
           /\ \A j \in 1..Len(s) + 1 :
                 InsertAt(s, i, e)[j] = IF j < i THEN s[j] ELSE IF j = i THEN e ELSE s[j - 1]
<1> DEFINE a == SubSeq(s, 1, i - 1)
           b == <<e>>
           d == SubSeq(s, i, Len(s))
<1>1. Len(s) \in Nat /\ i \in Int /\ \A j \in 1..Len(s) : s[j] \in Slot
  OBVIOUS
<1>2. a \in Seq(Slot) /\ Len(a) = i - 1 /\ \A j \in 1..i - 1 : a[j] = s[j]
  BY <1>1
<1>3. d \in Seq(Slot) /\ Len(d) = Len(s) - i + 1 /\ \A j \in 1..Len(s) - i + 1 : d[j] = s[i + j - 1]
  BY <1>1
<1>4. b \in Seq(Slot) /\ Len(b) = 1 /\ b[1] = e
  OBVIOUS
<1>5. InsertAt(s, i, e) = a \o b \o d
  BY DEF InsertAt
<1> HIDE DEF a, b, d
<1>6. /\ a \o b \in Seq(Slot) /\ Len(a \o b) = i
      /\ \A j \in 1..i : (a \o b)[j] = IF j < i THEN s[j] ELSE e
  <2>1. /\ a \o b \in Seq(Slot) /\ Len(a \o b) = Len(a) + Len(b)
        /\ \A j \in 1..Len(a) + Len(b) : (a \o b)[j] = IF j <= Len(a) THEN a[j] ELSE b[j - Len(a)]
    BY <1>2, <1>4, ConcatProperties
  <2> QED
    BY <2>1, <1>1, <1>2, <1>4
<1> DEFINE ab == a \o b
<1>7. ab \in Seq(Slot) /\ Len(ab) = i /\ \A j \in 1..i : ab[j] = IF j < i THEN s[j] ELSE e
  BY <1>6
<1> HIDE DEF ab
<1>8. /\ ab \o d \in Seq(Slot) /\ Len(ab \o d) = Len(s) + 1
      /\ \A j \in 1..Len(s) + 1 : (ab \o d)[j] = IF j <= i THEN ab[j] ELSE d[j - i]
  <2>1. /\ ab \o d \in Seq(Slot) /\ Len(ab \o d) = Len(ab) + Len(d)
        /\ \A j \in 1..Len(ab) + Len(d) :
              (ab \o d)[j] = IF j <= Len(ab) THEN ab[j] ELSE d[j - Len(ab)]
    BY <1>3, <1>7, ConcatProperties
  <2> QED
    BY <2>1, <1>1, <1>3, <1>7
<1>9. \A j \in 1..Len(s) + 1 : j > i => d[j - i] = s[j - 1]
  BY <1>1, <1>3
<1>10. InsertAt(s, i, e) = ab \o d
  BY <1>5 DEF ab
<1> QED
  BY <1>1, <1>7, <1>8, <1>9, <1>10

(* RemoveAt undoes InsertAt. *)
LEMMA Removed ==
    ASSUME NEW s \in Seq(Slot), NEW i \in DOMAIN s
    PROVE  /\ RemoveAt(s, i) \in Seq(Slot) /\ Len(RemoveAt(s, i)) = Len(s) - 1
           /\ \A j \in 1..Len(s) - 1 : RemoveAt(s, i)[j] = IF j < i THEN s[j] ELSE s[j + 1]
<1> DEFINE a == SubSeq(s, 1, i - 1)
           d == SubSeq(s, i + 1, Len(s))
<1>1. Len(s) \in Nat /\ i \in 1..Len(s) /\ \A j \in 1..Len(s) : s[j] \in Slot
  OBVIOUS
<1>2. a \in Seq(Slot) /\ Len(a) = i - 1 /\ \A j \in 1..i - 1 : a[j] = s[j]
  BY <1>1
<1>3. d \in Seq(Slot) /\ Len(d) = Len(s) - i /\ \A j \in 1..Len(s) - i : d[j] = s[i + j]
  BY <1>1
<1> DEFINE w == a \o d
<1>4. RemoveAt(s, i) = w
  BY DEF RemoveAt
<1> HIDE DEF a, d
<1>5. /\ w \in Seq(Slot) /\ Len(w) = Len(a) + Len(d)
      /\ \A j \in 1..Len(a) + Len(d) : w[j] = IF j <= Len(a) THEN a[j] ELSE d[j - Len(a)]
  BY <1>2, <1>3, ConcatProperties
<1>6. ASSUME NEW j \in 1..Len(s) - 1
      PROVE  w[j] = IF j < i THEN s[j] ELSE s[j + 1]
  <2> HIDE DEF w
  <2>1. CASE j < i
    BY SMTT(20), <2>1, <1>1, <1>2, <1>3, <1>5
  <2>2. CASE j >= i
    <3>1. PICK k \in Nat : k = j - Len(a)
      BY <2>2, <1>1, <1>2
    <3>2. k \in 1..Len(s) - i /\ i + k = j + 1
      BY <3>1, <2>2, <1>1, <1>2
    <3>3. j \in 1..Len(a) + Len(d) /\ ~ j <= Len(a)
      BY <2>2, <1>1, <1>2, <1>3
    <3>4. w[j] = d[k]
      BY <3>1, <3>3, <1>5
    <3> QED
      BY <3>2, <3>4, <2>2, <1>1, <1>3
  <2> QED
    BY <2>1, <2>2, <1>1
<1> HIDE DEF w
<1> QED
  BY <1>1, <1>2, <1>3, <1>4, <1>5, <1>6

-----------------------------------------------------------------------------
(* Places of references. *)

(* A sum in_degree can hold is not changed by its width. *)
LEMMA NoWrap == ASSUME NEW a \in Nat, a < RcMod PROVE a % RcMod = a
  BY RefsAssumption

(* A reference to an object lies in a slot of a container, which is a place. *)
LEMMA RefsArePlaces ==
    ASSUME NEW h, NEW c, NEW e, NEW p PROVE RefsIn(h, c, e, p) \subseteq Places
  BY DEF RefsIn, Places

(* The counting references are finitely many, and fewer than in_degree can *)
(* count.                                                                  *)
LEMMA CountingFits ==
    ASSUME CountersSuffice, NEW h, NEW c, NEW e
    PROVE  /\ IsFiniteSet(CountingIn(h, c, e))
           /\ Cardinality(CountingIn(h, c, e)) \in Nat
           /\ Cardinality(CountingIn(h, c, e)) < RcMod
<1>1. CountingIn(h, c, e) \in SUBSET Places
  BY RefsArePlaces DEF CountingIn
<1> QED
  BY <1>1, FewPlaces

(* The references to e under p that the new object o brings with it. *)
NewRefs(o, s, e, p) == {o} \X {i \in DOMAIN s : s[i] = [ref |-> e, pol |-> p]}

(* A heap h that has the new object o besides those of g. *)
Adds(g, h, o) ==
    /\ Typed(g, <<>>) /\ Typed(h, <<>>) /\ g[o].kind = "free" /\ h[o].kind # "free"
    /\ \A x \in Objs \ {o} : h[x].kind = g[x].kind /\ h[x].slots = g[x].slots

(* The references of the new object join the others. *)
LEMMA AddedRefs ==
    ASSUME NEW g, NEW h, NEW o \in Objs, Adds(g, h, o), NEW e, NEW p
    PROVE  /\ RefsIn(h, <<>>, e, p) = RefsIn(g, <<>>, e, p) \cup NewRefs(o, h[o].slots, e, p)
           /\ \A x \in RefsIn(g, <<>>, e, p) : x[1] \in Objs \ {o}
<1> DEFINE s == h[o].slots
           G == RefsIn(g, <<>>, e, p)
           H == RefsIn(h, <<>>, e, p)
           N == NewRefs(o, s, e, p)
<1>1. s \in Seq(Slot) /\ DOMAIN s \subseteq 1..MaxSlots + 4
  <2>1. s \in Seq(Slot) /\ Len(s) <= MaxSlots + 4
    BY DEF Adds, Typed, Cells
  <2> QED
    BY <2>1, RefsAssumption
<1>2. \A x \in G : x[1] \in Objs \ {o}
  BY DEF RefsIn, Adds
<1>3. ASSUME NEW x \in H PROVE x \in G \cup N
  <2>1. CASE x[1] = o
    BY <2>1, <1>3 DEF RefsIn, NewRefs
  <2>2. CASE x[1] # o
    BY <2>2, <1>3 DEF RefsIn, Adds
  <2> QED
    BY <2>1, <2>2
<1>4. ASSUME NEW x \in G PROVE x \in H
  BY <1>4, <1>2 DEF RefsIn, Adds
<1>5. ASSUME NEW x \in N PROVE x \in H
  <2>1. x[1] = o /\ x[2] \in DOMAIN s /\ s[x[2]] = [ref |-> e, pol |-> p] /\ x = <<o, x[2]>>
    BY DEF NewRefs
  <2>2. x \in {q \in Objs : h[q].kind # "free"} \X (1..MaxSlots + 4)
    BY <2>1, <1>1 DEF Adds
  <2> QED
    BY <2>1, <2>2 DEF RefsIn
<1> QED
  BY <1>2, <1>3, <1>4, <1>5

(* How many references the counter of e has to count then. *)
LEMMA AddedCount ==
    ASSUME CountersSuffice, NEW g, NEW h, NEW o \in Objs, Adds(g, h, o), NEW e
    PROVE  LET n == Cardinality({i \in DOMAIN h[o].slots :
                                    h[o].slots[i] = [ref |-> e, pol |-> "RC"]})
           IN  /\ n \in Nat
               /\ Cardinality(CountingIn(h, <<>>, e)) =
                     Cardinality(CountingIn(g, <<>>, e)) + IF h[o].kind = "env" THEN 0 ELSE n
<1> DEFINE s == h[o].slots
           I == {i \in DOMAIN s : s[i] = [ref |-> e, pol |-> "RC"]}
           f == [i \in I |-> <<o, i>>]
           N == NewRefs(o, s, e, "RC")
           G == CountingIn(g, <<>>, e)
           H == CountingIn(h, <<>>, e)
<1>1. IsFiniteSet(I)
  <2>1. s \in Seq(Slot)
    BY DEF Adds, Typed, Cells
  <2>2. IsFiniteSet(1..Len(s)) /\ I \subseteq 1..Len(s)
    BY <2>1, FS_Interval
  <2> QED
    BY <2>2, FS_Subset
<1>2. Cardinality(I) \in Nat
  BY <1>1, FS_CardinalityType
<1>3. {f[i] : i \in I} = N
  <2>1. \A x \in N : x[2] \in I /\ x = f[x[2]]
    BY DEF NewRefs
  <2>2. \A i \in I : f[i] \in N
    BY DEF NewRefs
  <2> HIDE DEF f, I, N
  <2> QED
    BY <2>1, <2>2
<1>4. IsFiniteSet(N) /\ Cardinality(N) = Cardinality(I)
  <2>1. \A x, y \in I : f[x] = f[y] => x = y
    OBVIOUS
  <2>2. I \subseteq DOMAIN f
    OBVIOUS
  <2> HIDE DEF f, I, N
  <2> QED
    BY <2>1, <2>2, <1>1, <1>3, SameNumber
<1>5. IsFiniteSet(G) /\ Cardinality(G) \in Nat
  BY CountingFits
<1>6. G \cap N = {}
  BY AddedRefs DEF CountingIn, NewRefs
<1>7. H = IF h[o].kind = "env" THEN G ELSE G \cup N
  <2>1. \A x \in RefsIn(g, <<>>, e, "RC") : x[1] \in Objs \ {o} /\ h[x[1]].kind = g[x[1]].kind
    BY AddedRefs DEF Adds
  <2>2. \A x \in N : x[1] = o
    BY DEF NewRefs
  <2> QED
    BY <2>1, <2>2, AddedRefs DEF CountingIn
<1>8. Cardinality(G \cup N) = Cardinality(G) + Cardinality(N)
  <2>1. Cardinality(G \cap N) = 0
    BY <1>6, FS_EmptySet
  <2>2. Cardinality(N) \in Nat
    BY <1>4, FS_CardinalityType
  <2> HIDE DEF G, N
  <2>3. Cardinality(G \cup N) = Cardinality(G) + Cardinality(N) - Cardinality(G \cap N)
    BY <1>4, <1>5, FS_Union
  <2> QED
    BY <2>1, <2>2, <2>3, <1>5
<1> HIDE DEF G, N, H, I
<1>9. Cardinality(H) = Cardinality(G) + IF h[o].kind = "env" THEN 0 ELSE Cardinality(I)
  BY <1>2, <1>4, <1>5, <1>7, <1>8
<1> QED
  BY <1>2, <1>9 DEF G, H, I

(* What MayRefer demands of e before kind gives it an owner: a DEL          *)
(* container or an env must be the only one.                                *)
Welcome(h, kind, e, p) ==
    /\ h[e].kind # "free"
    /\ p = "DEL" \/ kind = "env" => OwningIn(h, <<>>, e) = {}
    /\ \A x \in OwningIn(h, <<>>, e) : x \notin RefsIn(h, <<>>, e, "DEL") /\ h[x[1]].kind # "env"

(* The conditions on the elements of a new object: each welcomes it, and   *)
(* an element it has twice is counted for every place.                     *)
Welcomed(g, h, o) ==
    \A i \in DOMAIN h[o].slots : h[o].slots[i].pol # "NOOP" =>
        Welcome(g, h[o].kind, h[o].slots[i].ref, h[o].slots[i].pol)
Apart(s, kind) ==
    \A i, j \in DOMAIN s :
        /\ s[i].ref = s[j].ref /\ s[i].pol # "NOOP" /\ s[j].pol # "NOOP"
        /\ s[i].pol = "DEL" \/ kind = "env"
        => i = j

(* What becomes of the counters and of the retained bits. *)
CountsAdded(g, h, o) ==
    \A e \in Objs : h[e].kind # "free" =>
        LET n == Cardinality({i \in DOMAIN h[o].slots :
                                 h[o].slots[i] = [ref |-> e, pol |-> "RC"]})
        IN  h[e].rc = ((IF e = o THEN 0 ELSE g[e].rc)
                        + IF h[o].kind = "env" THEN 0 ELSE n) % RcMod
RetainsAdded(g, h, o) ==
    \A e \in Objs : h[e].kind # "free" =>
        (h[e].retained <=>
            \/ e # o /\ g[e].retained
            \/ /\ h[o].kind # "env"
               /\ \E i \in DOMAIN h[o].slots : h[o].slots[i] = [ref |-> e, pol |-> "DEL"])

(* A new object that owns only what welcomes it keeps everything sound.    *)
LEMMA AddingIsSound ==
    ASSUME CountersSuffice, NEW g, NEW h, NEW o \in Objs, Adds(g, h, o), Sound(g, <<>>),
           Welcomed(g, h, o), Apart(h[o].slots, h[o].kind),
           CountsAdded(g, h, o), RetainsAdded(g, h, o)
    PROVE  Sound(h, <<>>)
<1> DEFINE s == h[o].slots
<1>1. \A i \in DOMAIN s : s[i] = [ref |-> s[i].ref, pol |-> s[i].pol] /\ s[i].ref \in Objs
  <2>1. s \in Seq(Slot)
    BY DEF Adds, Typed, Cells
  <2>2. \A i \in DOMAIN s : s[i] \in Slot
    BY <2>1
  <2> QED
    BY <2>2 DEF Slot
<1>2. \A e \in Objs : \A p \in {"RC", "DEL"} :
         RefsIn(h, <<>>, e, p) = RefsIn(g, <<>>, e, p) \cup NewRefs(o, s, e, p)
  BY AddedRefs
<1>3. \A e \in Objs : \A p \in {"RC", "DEL"} :
         \A x \in RefsIn(g, <<>>, e, p) : x[1] \in Objs \ {o} /\ h[x[1]].kind = g[x[1]].kind
  BY AddedRefs DEF Adds
<1>4. \A e \in Objs : \A p \in {"RC", "DEL"} :
         \A x \in NewRefs(o, s, e, p) :
            /\ x[1] = o /\ x[2] \in DOMAIN s /\ x = <<o, x[2]>>
            /\ s[x[2]].ref = e /\ s[x[2]].pol = p
  BY DEF NewRefs
<1>5. Typed(h, <<>>)
  BY DEF Adds
<1>6. OwnedIsLive(h, <<>>)
  <2> SUFFICES ASSUME NEW e \in Objs, NEW p \in {"RC", "DEL"}, NEW x \in RefsIn(h, <<>>, e, p)
               PROVE  h[e].kind # "free"
    BY DEF OwnedIsLive, OwningIn
  <2>1. g[e].kind # "free" => h[e].kind # "free"
    BY DEF Adds
  <2>2. CASE x \in RefsIn(g, <<>>, e, p)
    BY <2>1, <2>2 DEF Sound, OwnedIsLive, OwningIn
  <2>3. CASE x \in NewRefs(o, s, e, p)
    BY <2>1, <2>3, <1>4 DEF Welcomed, Welcome
  <2> QED
    BY <2>2, <2>3, <1>2
<1>7. CountsRight(h, <<>>)
  <2> SUFFICES ASSUME NEW e \in Objs, h[e].kind # "free"
               PROVE  h[e].rc = Cardinality(CountingIn(h, <<>>, e))
    BY DEF CountsRight
  <2>1. (IF e = o THEN 0 ELSE g[e].rc) = Cardinality(CountingIn(g, <<>>, e))
    <3>1. CASE e = o
      <4>1. CountingIn(g, <<>>, e) = {}
        BY <3>1 DEF Adds, Sound, OwnedIsLive, OwningIn, CountingIn
      <4> QED
        BY <3>1, <4>1, FS_EmptySet
    <3>2. CASE e # o
      BY <3>2 DEF Adds, Sound, CountsRight
    <3> QED
      BY <3>1, <3>2
  <2> DEFINE n == Cardinality({i \in DOMAIN s : s[i] = [ref |-> e, pol |-> "RC"]})
             m == IF h[o].kind = "env" THEN 0 ELSE n
  <2>2. h[e].rc = ((IF e = o THEN 0 ELSE g[e].rc) + m) % RcMod
    BY DEF CountsAdded
  <2>3. Cardinality(CountingIn(h, <<>>, e)) = Cardinality(CountingIn(g, <<>>, e)) + m
    BY AddedCount
  <2> QED
    BY <2>1, <2>2, <2>3, CountingFits, NoWrap
<1>8. RetainedRight(h, <<>>)
  <2> SUFFICES ASSUME NEW e \in Objs, h[e].kind # "free"
               PROVE  h[e].retained <=> \E x \in RefsIn(h, <<>>, e, "DEL") : h[x[1]].kind # "env"
    BY DEF RetainedRight
  <2>1. (e # o /\ g[e].retained) <=> \E x \in RefsIn(g, <<>>, e, "DEL") : h[x[1]].kind # "env"
    <3>1. CASE e = o
      BY <3>1 DEF Adds, Sound, OwnedIsLive, OwningIn
    <3>2. CASE e # o
      <4>1. g[e].kind # "free"
        BY <3>2 DEF Adds
      <4>2. g[e].retained <=> \E x \in RefsIn(g, <<>>, e, "DEL") : g[x[1]].kind # "env"
        BY <4>1 DEF Sound, RetainedRight
      <4> QED
        BY <3>2, <4>2, <1>3
    <3> QED
      BY <3>1, <3>2
  <2>2. (\E x \in NewRefs(o, s, e, "DEL") : h[x[1]].kind # "env") <=>
           /\ h[o].kind # "env"
           /\ \E i \in DOMAIN s : s[i] = [ref |-> e, pol |-> "DEL"]
    <3>1. ASSUME NEW i \in DOMAIN s, s[i] = [ref |-> e, pol |-> "DEL"]
          PROVE  <<o, i>> \in NewRefs(o, s, e, "DEL")
      BY <3>1 DEF NewRefs
    <3>2. ASSUME NEW i \in DOMAIN s, s[i] = [ref |-> e, pol |-> "DEL"], h[o].kind # "env"
          PROVE  \E x \in NewRefs(o, s, e, "DEL") : h[x[1]].kind # "env"
      <4> DEFINE x == <<o, i>>
      <4>1. x \in NewRefs(o, s, e, "DEL") /\ x[1] = o
        BY <3>1, <3>2
      <4> QED
        BY <4>1, <3>2
    <3>3. ASSUME NEW x \in NewRefs(o, s, e, "DEL")
          PROVE  x[1] = o /\ x[2] \in DOMAIN s /\ s[x[2]] = [ref |-> e, pol |-> "DEL"]
      BY DEF NewRefs
    <3> QED
      BY <3>2, <3>3
  <2> QED
    BY <2>1, <2>2, <1>2 DEF RetainsAdded
<1>9. LoneOwner(h, <<>>)
  <2> SUFFICES ASSUME NEW e \in Objs, NEW p \in {"RC", "DEL"}, NEW q \in {"RC", "DEL"},
                      NEW x \in RefsIn(h, <<>>, e, p), NEW y \in RefsIn(h, <<>>, e, q),
                      x \in RefsIn(h, <<>>, e, "DEL") \/ h[x[1]].kind = "env"
               PROVE  x = y
    BY DEF LoneOwner, OwningIn
  <2>1. CASE x \in RefsIn(g, <<>>, e, p) /\ y \in RefsIn(g, <<>>, e, q)
    <3>1. x \notin NewRefs(o, s, e, "DEL")
      BY <2>1, <1>3, <1>4
    <3>2. x \in RefsIn(g, <<>>, e, "DEL") \/ g[x[1]].kind = "env"
      BY <3>1, <1>2, <1>3, <2>1
    <3> QED
      BY <3>2, <2>1 DEF Sound, LoneOwner, OwningIn
  <2>2. CASE x \in RefsIn(g, <<>>, e, p) /\ y \in NewRefs(o, s, e, q)
    <3>1. x \notin NewRefs(o, s, e, "DEL")
      BY <2>2, <1>3, <1>4
    <3>2. x \in RefsIn(g, <<>>, e, "DEL") \/ g[x[1]].kind = "env"
      BY <3>1, <1>2, <1>3, <2>2
    <3>3. Welcome(g, h[o].kind, e, q)
      BY <2>2, <1>4 DEF Welcomed
    <3> QED
      BY <3>2, <3>3, <2>2 DEF Welcome, OwningIn
  <2>3. CASE x \in NewRefs(o, s, e, p) /\ y \in RefsIn(g, <<>>, e, q)
    <3>1. Welcome(g, h[o].kind, e, p)
      BY <2>3, <1>4 DEF Welcomed
    <3>2. p = "DEL" \/ h[o].kind = "env"
      BY <2>3, <1>2, <1>3, <1>4
    <3> QED
      BY <3>1, <3>2, <2>3 DEF Welcome, OwningIn
  <2>4. CASE x \in NewRefs(o, s, e, p) /\ y \in NewRefs(o, s, e, q)
    <3>1. p = "DEL" \/ h[o].kind = "env"
      BY <2>4, <1>2, <1>3, <1>4
    <3>2. x[2] = y[2]
      BY <3>1, <2>4, <1>4 DEF Apart
    <3> QED
      BY <3>2, <2>4, <1>4
  <2> QED
    BY <2>1, <2>2, <2>3, <2>4, <1>2
<1>10. BeingDeleted(h, <<>>)
  BY DEF BeingDeleted
<1> QED
  BY <1>5, <1>6, <1>7, <1>8, <1>9, <1>10 DEF Sound

-----------------------------------------------------------------------------
(* A reference more, or one less, in a list or a stack. *)

(* A place is a reference exactly if it is in use and names the object. *)
LEMMA InRefs ==
    ASSUME NEW h, Typed(h, <<>>), NEW e \in Objs, NEW p \in {"RC", "DEL"}, NEW x \in Places
    PROVE  x \in RefsIn(h, <<>>, e, p) <=>
              /\ h[x[1]].kind # "free" /\ x[2] \in DOMAIN h[x[1]].slots
              /\ h[x[1]].slots[x[2]].ref = e /\ h[x[1]].slots[x[2]].pol = p
<1>1. x[1] \in Objs /\ x[2] \in 1..MaxSlots + 4 /\ x = <<x[1], x[2]>>
  BY DEF Places
<1>2. h[x[1]].slots \in Seq(Slot)
  BY <1>1 DEF Typed, Cells
<1>3. x[2] \in DOMAIN h[x[1]].slots => h[x[1]].slots[x[2]] \in Slot
  BY <1>2
<1>4. \A s \in Slot : s = [ref |-> e, pol |-> p] <=> s.ref = e /\ s.pol = p
  BY DEF Slot
<1> QED
  BY <1>1, <1>3, <1>4 DEF RefsIn

(* h is g with s inserted as the i-th element of the list or stack l. *)
Inserts(g, h, l, i, s) ==
    /\ Typed(g, <<>>) /\ Typed(h, <<>>) /\ l \in Objs /\ g[l].kind \in {"list", "stack"}
    /\ s \in Slot /\ i \in 1..Len(g[l].slots) + 1
    /\ h[l].slots = InsertAt(g[l].slots, i, s)
    /\ \A x \in Objs : h[x].kind = g[x].kind /\ (x # l => h[x].slots = g[x].slots)

(* The places behind the new one move up. *)
Shift(l, i) ==
    [x \in Places |-> IF x[1] = l /\ x[2] >= i THEN <<l, x[2] + 1>> ELSE <<x[1], x[2]>>]
NewRef(l, i, s, e, p) == {x \in {<<l, i>>} : s.ref = e /\ s.pol = p}

(* Shifting the elements of one container keeps its places apart. *)
LEMMA ShiftIsInjective ==
    ASSUME NEW l \in Objs, NEW i \in Nat, NEW x \in Places, NEW y \in Places
    PROVE  /\ Shift(l, i)[x] = Shift(l, i)[y] => x = y
           /\ Shift(l, i)[x] # <<l, i>> /\ Shift(l, i)[x][1] = x[1]
<1>1. x[1] \in Objs /\ x[2] \in Nat /\ x = <<x[1], x[2]>>
  BY DEF Places
<1>2. y[1] \in Objs /\ y[2] \in Nat /\ y = <<y[1], y[2]>>
  BY DEF Places
<1> QED
  BY <1>1, <1>2 DEF Shift

(* The references of the two heaps. *)
LEMMA InsertedRefs ==
    ASSUME NEW g, NEW h, NEW l, NEW i, NEW s, Inserts(g, h, l, i, s),
           NEW e \in Objs, NEW p \in {"RC", "DEL"}
    PROVE  RefsIn(h, <<>>, e, p) =
              {Shift(l, i)[x] : x \in RefsIn(g, <<>>, e, p)} \cup NewRef(l, i, s, e, p)
<1> DEFINE G == RefsIn(g, <<>>, e, p)
           H == RefsIn(h, <<>>, e, p)
           S == Shift(l, i)
           a == g[l].slots
           b == h[l].slots
<1>1. /\ a \in Seq(Slot) /\ b \in Seq(Slot) /\ Len(b) = Len(a) + 1 /\ Len(b) <= MaxSlots + 4
      /\ l \in Objs /\ i \in 1..Len(a) + 1 /\ g[l].kind # "free" /\ h[l].kind # "free"
      /\ \A j \in 1..Len(a) + 1 :
            b[j] = IF j < i THEN a[j] ELSE IF j = i THEN s ELSE a[j - 1]
  <2>1. a \in Seq(Slot) /\ b \in Seq(Slot) /\ Len(b) <= MaxSlots + 4
    BY DEF Inserts, Typed, Cells
  <2>2. s \in Slot /\ i \in 1..Len(a) + 1 /\ b = InsertAt(a, i, s) /\ g[l].kind \in {"list", "stack"}
        /\ l \in Objs /\ h[l].kind = g[l].kind
    BY DEF Inserts
  <2> HIDE DEF a, b
  <2>3. /\ Len(InsertAt(a, i, s)) = Len(a) + 1
        /\ \A j \in 1..Len(a) + 1 :
              InsertAt(a, i, s)[j] = IF j < i THEN a[j] ELSE IF j = i THEN s ELSE a[j - 1]
    <3>1. a \in Seq(Slot) /\ s \in Slot /\ i \in 1..Len(a) + 1
      BY <2>1, <2>2
    <3> QED
      BY ZenonT(40), <3>1, Inserted
  <2>4. /\ Len(b) = Len(a) + 1
        /\ \A j \in 1..Len(a) + 1 :
              b[j] = IF j < i THEN a[j] ELSE IF j = i THEN s ELSE a[j - 1]
    BY Zenon, <2>2, <2>3
  <2> QED
    BY <2>1, <2>2, <2>4
<1>2. Len(a) \in Nat /\ Len(b) \in Nat /\ DOMAIN a = 1..Len(a) /\ DOMAIN b = 1..Len(b)
      /\ MaxSlots + 4 \in Nat /\ Len(b) = Len(a) + 1
  BY <1>1, RefsAssumption
<1>3. \A x \in Places : x \in G <=>
         /\ g[x[1]].kind # "free" /\ x[2] \in DOMAIN g[x[1]].slots
         /\ g[x[1]].slots[x[2]].ref = e /\ g[x[1]].slots[x[2]].pol = p
  BY InRefs DEF Inserts
<1>4. \A x \in Places : x \in H <=>
         /\ h[x[1]].kind # "free" /\ x[2] \in DOMAIN h[x[1]].slots
         /\ h[x[1]].slots[x[2]].ref = e /\ h[x[1]].slots[x[2]].pol = p
  BY InRefs DEF Inserts
<1>5. G \subseteq Places /\ H \subseteq Places
  BY RefsArePlaces
<1>6. \A x \in Objs \ {l} : h[x].kind = g[x].kind /\ h[x].slots = g[x].slots
  BY DEF Inserts
<1>7. \A x \in Places : x[1] \in Objs /\ x[2] \in 1..MaxSlots + 4 /\ x = <<x[1], x[2]>>
  BY DEF Places
<1>8. \A x \in Places : /\ x[1] # l \/ x[2] < i => S[x] = x
                        /\ x[1] = l /\ x[2] >= i => S[x] = <<l, x[2] + 1>>
  BY <1>1, <1>2, <1>7 DEF Shift
<1>9. \A n \in 1..Len(b) : <<l, n>> \in Places /\ <<l, n>>[1] = l /\ <<l, n>>[2] = n
  BY <1>1, <1>2 DEF Places
<1> HIDE DEF G, H, S, a, b
<1>10. ASSUME NEW x \in G PROVE S[x] \in H
  <2>1. x \in Places
    BY <1>5
  <2>2. CASE x[1] # l
    <3>1. S[x] = x
      BY <2>1, <2>2, <1>8
    <3>2. x \in H
      BY <2>1, <2>2, <1>3, <1>4, <1>6, <1>7
    <3> QED
      BY <3>1, <3>2
  <2>3. CASE x[1] = l
    <3>1. x[2] \in 1..Len(a) /\ a[x[2]].ref = e /\ a[x[2]].pol = p /\ x = <<l, x[2]>>
      BY <2>1, <2>3, <1>2, <1>3, <1>7 DEF a
    <3>2. CASE x[2] < i
      <4>1. S[x] = x /\ b[x[2]] = a[x[2]] /\ x[2] \in 1..Len(b)
        BY <3>1, <3>2, <2>1, <2>3, <1>1, <1>2, <1>8
      <4> QED
        BY <4>1, <3>1, <2>1, <2>3, <1>1, <1>2, <1>4 DEF b
    <3>3. CASE x[2] >= i
      <4>1. PICK n \in 1..Len(b) : n = x[2] + 1
        BY <3>1, <1>1, <1>2
      <4>2. S[x] = <<l, n>>
        BY <4>1, <3>3, <2>1, <2>3, <1>8
      <4>3. n > i /\ n - 1 = x[2]
        BY <4>1, <3>1, <3>3, <1>1, <1>2
      <4>4. b[n] = a[n - 1]
        BY <4>3, <1>1, <1>2
      <4>5. b[n].ref = e /\ b[n].pol = p
        BY <4>3, <4>4, <3>1
      <4> QED
        BY <4>2, <4>5, <1>1, <1>2, <1>4, <1>9 DEF b
    <3> QED
      BY <3>1, <3>2, <3>3, <1>1, <1>2
  <2> QED
    BY <2>2, <2>3
<1>11. ASSUME NEW x \in NewRef(l, i, s, e, p) PROVE x \in H
  <2>1. x = <<l, i>> /\ s.ref = e /\ s.pol = p
    BY DEF NewRef
  <2>2. i \in 1..Len(b) /\ b[i] = s
    BY <1>1, <1>2
  <2> QED
    BY <2>1, <2>2, <1>1, <1>2, <1>4, <1>9 DEF b
<1>12. ASSUME NEW y \in H
       PROVE  y \in NewRef(l, i, s, e, p) \/ \E x \in G : y = S[x]
  <2>1. y \in Places
    BY <1>5
  <2>2. CASE y[1] # l
    <3>1. y \in G /\ S[y] = y
      <4>1. S[y] = y
        BY <2>1, <2>2, <1>8
      <4>2. y \in G
        BY <2>1, <2>2, <1>3, <1>4, <1>6, <1>7
      <4> QED
        BY <4>1, <4>2
    <3> QED
      BY <3>1
  <2>3. CASE y[1] = l
    <3>1. y[2] \in 1..Len(b) /\ b[y[2]].ref = e /\ b[y[2]].pol = p /\ y = <<l, y[2]>>
      BY <2>1, <2>3, <1>2, <1>4, <1>7 DEF b
    <3>2. CASE y[2] < i
      <4>1. S[y] = y /\ b[y[2]] = a[y[2]] /\ y[2] \in 1..Len(a)
        BY <3>1, <3>2, <2>1, <2>3, <1>1, <1>2, <1>8
      <4>2. y \in G
        BY <4>1, <3>1, <2>1, <2>3, <1>1, <1>2, <1>3 DEF a
      <4> QED
        BY <4>1, <4>2
    <3>3. CASE y[2] = i
      <4>1. b[i] = s
        BY <1>1, <1>2
      <4> QED
        BY <4>1, <3>1, <3>3 DEF NewRef
    <3>4. CASE y[2] > i
      <4>1. PICK n \in 1..Len(a) : n = y[2] - 1
        BY <3>1, <3>4, <1>1, <1>2
      <4>2. n \in 1..Len(b) /\ n + 1 = y[2] /\ n >= i /\ b[y[2]] = a[y[2] - 1]
        BY <4>1, <3>1, <3>4, <1>1, <1>2
      <4>3. a[n].ref = e /\ a[n].pol = p
        BY <4>1, <4>2, <3>1
      <4>4. <<l, n>> \in G
        BY <4>2, <4>3, <1>1, <1>2, <1>3, <1>9 DEF a
      <4>5. S[<<l, n>>] = <<l, n + 1>>
        BY <4>2, <1>8, <1>9
      <4> QED
        BY <4>2, <4>4, <4>5, <3>1
    <3> QED
      BY <3>1, <3>2, <3>3, <3>4, <1>1, <1>2
  <2> QED
    BY <2>2, <2>3
<1> QED
  BY <1>10, <1>11, <1>12 DEF G, H, S

(* One counting reference more, if it counts. *)
LEMMA InsertedCount ==
    ASSUME CountersSuffice, NEW g, NEW h, NEW l, NEW i, NEW s, Inserts(g, h, l, i, s),
           NEW e \in Objs
    PROVE  Cardinality(CountingIn(h, <<>>, e)) =
              Cardinality(CountingIn(g, <<>>, e)) + IF s.ref = e /\ s.pol = "RC" THEN 1 ELSE 0
<1> DEFINE G == CountingIn(g, <<>>, e)
           H == CountingIn(h, <<>>, e)
           S == Shift(l, i)
           M == {S[x] : x \in G}
           N == NewRef(l, i, s, e, "RC")
<1>1. l \in Objs /\ i \in Nat /\ g[l].kind # "env" /\ h[l].kind = g[l].kind
      /\ \A x \in Objs : h[x].kind = g[x].kind
  <2>1. g[l].slots \in Seq(Slot)
    BY DEF Inserts, Typed, Cells
  <2>2. Len(g[l].slots) \in Nat
    BY <2>1
  <2> QED
    BY <2>2 DEF Inserts
<1>2. IsFiniteSet(G) /\ Cardinality(G) \in Nat /\ G \subseteq Places
  BY CountingFits, RefsArePlaces DEF CountingIn
<1>3. \A x, y \in Places : /\ S[x] = S[y] => x = y
                           /\ S[x] # <<l, i>> /\ S[x][1] = x[1]
  BY <1>1, ShiftIsInjective
<1>4. IsFiniteSet(M) /\ Cardinality(M) = Cardinality(G)
  <2>1. G \subseteq DOMAIN S
    BY <1>2 DEF Shift
  <2>2. \A x, y \in G : S[x] = S[y] => x = y
    BY <1>2, <1>3
  <2> HIDE DEF S, G
  <2> QED
    BY <1>2, <2>1, <2>2, SameNumber
<1>5. H = M \cup N
  <2>1. RefsIn(h, <<>>, e, "RC") = {S[x] : x \in RefsIn(g, <<>>, e, "RC")} \cup N
    BY InsertedRefs
  <2>2. \A x \in RefsIn(g, <<>>, e, "RC") : x[1] \in Objs /\ S[x][1] = x[1]
    BY <1>3, RefsArePlaces DEF Places
  <2>3. \A x \in N : x[1] = l
    BY DEF NewRef
  <2>4. \A y \in H : y \in M \cup N
    BY <1>1, <2>1, <2>2 DEF CountingIn
  <2>5. \A y \in M \cup N : y \in H
    BY <1>1, <2>1, <2>2, <2>3 DEF CountingIn
  <2> QED
    BY <2>4, <2>5
<1>6. CASE s.ref = e /\ s.pol = "RC"
  <2>1. N = {<<l, i>>} /\ <<l, i>> \notin M
    BY <1>2, <1>3, <1>6 DEF NewRef
  <2> HIDE DEF H, M, N, G
  <2>2. Cardinality(M \cup {<<l, i>>}) = Cardinality(M) + 1
    BY <2>1, <1>4, FS_AddElement
  <2>3. Cardinality(H) = Cardinality(G) + 1
    BY <2>1, <2>2, <1>4, <1>5
  <2> QED
    BY <2>3, <1>6 DEF H, G
<1>7. CASE ~ (s.ref = e /\ s.pol = "RC")
  <2>1. N = {}
    BY <1>7 DEF NewRef
  <2> HIDE DEF H, M, N, G
  <2>2. Cardinality(H) = Cardinality(G)
    BY <2>1, <1>4, <1>5
  <2> QED
    BY <2>2, <1>2, <1>7 DEF H, G
<1> QED
  BY <1>6, <1>7

(* A reference that is welcome keeps everything sound. *)
LEMMA InsertingIsSound ==
    ASSUME CountersSuffice, NEW g, NEW h, NEW l, NEW i, NEW s, Inserts(g, h, l, i, s),
           Sound(g, <<>>),
           s.pol # "NOOP" => Welcome(g, g[l].kind, s.ref, s.pol),
           \A e \in Objs : h[e].kind # "free" =>
              /\ h[e].rc = (g[e].rc + IF s.ref = e /\ s.pol = "RC" THEN 1 ELSE 0) % RcMod
              /\ h[e].retained <=> g[e].retained \/ (s.ref = e /\ s.pol = "DEL")
    PROVE  Sound(h, <<>>)
<1> DEFINE S == Shift(l, i)
<1>1. l \in Objs /\ g[l].kind \in {"list", "stack"}
      /\ (\A x \in Objs : h[x].kind = g[x].kind) /\ Typed(g, <<>>) /\ Typed(h, <<>>)
  BY DEF Inserts
<1>2. i \in Nat
  <2>1. g[l].slots \in Seq(Slot)
    BY <1>1 DEF Typed, Cells
  <2>2. Len(g[l].slots) \in Nat
    BY <2>1
  <2> QED
    BY <2>2 DEF Inserts
<1>3. \A x, y \in Places : /\ S[x] = S[y] => x = y
                           /\ S[x] # <<l, i>> /\ S[x][1] = x[1]
  BY <1>1, <1>2, ShiftIsInjective
<1>4. \A e \in Objs : \A p \in {"RC", "DEL"} : \A y \in RefsIn(h, <<>>, e, p) :
         \/ y = <<l, i>> /\ s.ref = e /\ s.pol = p
         \/ \E x \in RefsIn(g, <<>>, e, p) : y = S[x]
  BY InsertedRefs DEF NewRef
<1>5. \A e \in Objs : \A p \in {"RC", "DEL"} : \A x \in RefsIn(g, <<>>, e, p) :
         S[x] \in RefsIn(h, <<>>, e, p)
  BY InsertedRefs
<1>6. \A e \in Objs : \A p \in {"RC", "DEL"} :
         s.ref = e /\ s.pol = p => <<l, i>> \in RefsIn(h, <<>>, e, p)
  BY InsertedRefs DEF NewRef
<1>7. \A e, p : \A x \in RefsIn(g, <<>>, e, p) : x \in Places /\ x[1] \in Objs
  BY RefsArePlaces DEF Places
<1> HIDE DEF S
<1>8. OwnedIsLive(h, <<>>)
  <2> SUFFICES ASSUME NEW e \in Objs, NEW p \in {"RC", "DEL"}, NEW y \in RefsIn(h, <<>>, e, p)
               PROVE  h[e].kind # "free"
    BY DEF OwnedIsLive, OwningIn
  <2>1. CASE s.ref = e /\ s.pol = p
    BY <2>1, <1>1 DEF Welcome
  <2>2. CASE \E x \in RefsIn(g, <<>>, e, p) : y = S[x]
    BY <2>2, <1>1 DEF Sound, OwnedIsLive, OwningIn
  <2> QED
    BY <2>1, <2>2, <1>4
<1>9. CountsRight(h, <<>>)
  <2> SUFFICES ASSUME NEW e \in Objs, h[e].kind # "free"
               PROVE  h[e].rc = Cardinality(CountingIn(h, <<>>, e))
    BY DEF CountsRight
  <2> DEFINE n == IF s.ref = e /\ s.pol = "RC" THEN 1 ELSE 0
  <2>1. g[e].rc = Cardinality(CountingIn(g, <<>>, e))
    BY <1>1 DEF Sound, CountsRight
  <2>2. h[e].rc = (g[e].rc + n) % RcMod
    OBVIOUS
  <2>3. Cardinality(CountingIn(h, <<>>, e)) = Cardinality(CountingIn(g, <<>>, e)) + n
    BY InsertedCount
  <2> HIDE DEF n
  <2> QED
    BY <2>1, <2>2, <2>3, CountingFits, NoWrap
<1>10. RetainedRight(h, <<>>)
  <2> SUFFICES ASSUME NEW e \in Objs, h[e].kind # "free"
               PROVE  h[e].retained <=> \E y \in RefsIn(h, <<>>, e, "DEL") : h[y[1]].kind # "env"
    BY DEF RetainedRight
  <2>1. g[e].retained <=> \E x \in RefsIn(g, <<>>, e, "DEL") : g[x[1]].kind # "env"
    BY <1>1 DEF Sound, RetainedRight
  <2>2. h[e].retained <=> g[e].retained \/ (s.ref = e /\ s.pol = "DEL")
    OBVIOUS
  <2>3. ASSUME NEW x \in RefsIn(g, <<>>, e, "DEL"), g[x[1]].kind # "env"
        PROVE  \E y \in RefsIn(h, <<>>, e, "DEL") : h[y[1]].kind # "env"
    <3>1. S[x] \in RefsIn(h, <<>>, e, "DEL") /\ S[x][1] = x[1] /\ x[1] \in Objs
      BY <1>3, <1>5, <1>7
    <3> QED
      BY <3>1, <2>3, <1>1
  <2>4. ASSUME s.ref = e, s.pol = "DEL"
        PROVE  \E y \in RefsIn(h, <<>>, e, "DEL") : h[y[1]].kind # "env"
    <3> DEFINE y == <<l, i>>
    <3>1. y \in RefsIn(h, <<>>, e, "DEL") /\ y[1] = l /\ h[l].kind # "env"
      BY <2>4, <1>1, <1>6
    <3> QED
      BY <3>1
  <2>5. ASSUME NEW y \in RefsIn(h, <<>>, e, "DEL"), h[y[1]].kind # "env"
        PROVE  (s.ref = e /\ s.pol = "DEL")
               \/ \E x \in RefsIn(g, <<>>, e, "DEL") : g[x[1]].kind # "env"
    BY <2>5, <1>1, <1>3, <1>4, <1>7
  <2> QED
    BY <2>1, <2>2, <2>3, <2>4, <2>5
<1>11. LoneOwner(h, <<>>)
  <2> SUFFICES ASSUME NEW e \in Objs, NEW p \in {"RC", "DEL"}, NEW q \in {"RC", "DEL"},
                      NEW x \in RefsIn(h, <<>>, e, p), NEW y \in RefsIn(h, <<>>, e, q),
                      x \in RefsIn(h, <<>>, e, "DEL") \/ h[x[1]].kind = "env"
               PROVE  x = y
    BY DEF LoneOwner, OwningIn
  <2> DEFINE New(z, r) == z = <<l, i>> /\ s.ref = e /\ s.pol = r
  <2>1. CASE New(x, p) /\ New(y, q)
    BY <2>1
  <2>2. ASSUME New(x, p), NEW v \in RefsIn(g, <<>>, e, q), y = S[v] PROVE FALSE
    <3>1. Welcome(g, g[l].kind, e, p) /\ x = <<l, i>>
      BY <2>2
    <3>2. h[x[1]].kind # "env"
      BY <3>1, <1>1
    <3>3. x \in RefsIn(h, <<>>, e, "DEL")
      BY <3>2
    <3>4. s.pol = "DEL"
      BY <3>1, <3>3, <1>3, <1>4, <1>7
    <3>5. p = "DEL"
      BY <3>4, <2>2
    <3> QED
      BY <3>1, <3>5, <2>2 DEF Welcome, OwningIn
  <2>3. ASSUME NEW u \in RefsIn(g, <<>>, e, p), x = S[u]
        PROVE  u \in RefsIn(g, <<>>, e, "DEL") \/ g[u[1]].kind = "env"
    <3>1. u \in Places /\ u[1] \in Objs /\ S[u][1] = u[1] /\ S[u] # <<l, i>>
      BY <1>3, <1>7
    <3>2. CASE h[x[1]].kind = "env"
      BY <3>1, <3>2, <2>3, <1>1
    <3>3. CASE x \in RefsIn(h, <<>>, e, "DEL")
      <4>1. PICK w \in RefsIn(g, <<>>, e, "DEL") : x = S[w]
        BY <3>1, <3>3, <2>3, <1>4
      <4> QED
        BY <4>1, <3>1, <2>3, <1>3, <1>7
    <3> QED
      BY <3>2, <3>3
  <2>4. ASSUME NEW u \in RefsIn(g, <<>>, e, p), x = S[u], New(y, q) PROVE FALSE
    <3>1. Welcome(g, g[l].kind, e, q)
      BY <2>4
    <3> QED
      BY <3>1, <2>3, <2>4 DEF Welcome, OwningIn
  <2>5. ASSUME NEW u \in RefsIn(g, <<>>, e, p), x = S[u],
               NEW v \in RefsIn(g, <<>>, e, q), y = S[v]
        PROVE  x = y
    BY <2>3, <2>5 DEF Sound, LoneOwner, OwningIn
  <2> QED
    BY <2>1, <2>2, <2>4, <2>5, <1>4
<1>12. BeingDeleted(h, <<>>)
  BY DEF BeingDeleted
<1> QED
  BY <1>1, <1>8, <1>9, <1>10, <1>11, <1>12 DEF Sound

(* Giving an element back keeps everything sound: here g is h with the     *)
(* element s inserted again.                                               *)
LEMMA RemovingIsSound ==
    ASSUME CountersSuffice, NEW g, NEW h, NEW l, NEW i, NEW s, Inserts(h, g, l, i, s),
           Sound(g, <<>>),
           \A e \in Objs : h[e].kind # "free" =>
              /\ h[e].rc = g[e].rc - IF s.ref = e /\ s.pol = "RC" THEN 1 ELSE 0
              /\ h[e].retained <=> g[e].retained /\ ~ (s.ref = e /\ s.pol = "DEL")
    PROVE  Sound(h, <<>>)
<1> DEFINE S == Shift(l, i)
<1>1. l \in Objs /\ h[l].kind \in {"list", "stack"}
      /\ (\A x \in Objs : h[x].kind = g[x].kind) /\ Typed(g, <<>>) /\ Typed(h, <<>>)
  BY DEF Inserts
<1>2. i \in Nat
  <2>1. h[l].slots \in Seq(Slot)
    BY <1>1 DEF Typed, Cells
  <2>2. Len(h[l].slots) \in Nat
    BY <2>1
  <2> QED
    BY <2>2 DEF Inserts
<1>3. \A x, y \in Places : /\ S[x] = S[y] => x = y
                           /\ S[x] # <<l, i>> /\ S[x][1] = x[1]
  BY <1>1, <1>2, ShiftIsInjective
<1>4. \A e \in Objs : \A p \in {"RC", "DEL"} : \A y \in RefsIn(g, <<>>, e, p) :
         \/ y = <<l, i>> /\ s.ref = e /\ s.pol = p
         \/ \E x \in RefsIn(h, <<>>, e, p) : y = S[x]
  BY InsertedRefs DEF NewRef
<1>5. \A e \in Objs : \A p \in {"RC", "DEL"} : \A x \in RefsIn(h, <<>>, e, p) :
         S[x] \in RefsIn(g, <<>>, e, p)
  BY InsertedRefs
<1>6. \A e \in Objs : \A p \in {"RC", "DEL"} :
         s.ref = e /\ s.pol = p => <<l, i>> \in RefsIn(g, <<>>, e, p)
  BY InsertedRefs DEF NewRef
<1>7. \A e, p : \A x \in RefsIn(h, <<>>, e, p) : x \in Places /\ x[1] \in Objs
  BY RefsArePlaces DEF Places
<1> HIDE DEF S
<1>8. OwnedIsLive(h, <<>>)
  BY <1>1, <1>5 DEF Sound, OwnedIsLive, OwningIn
<1>9. CountsRight(h, <<>>)
  <2> SUFFICES ASSUME NEW e \in Objs, h[e].kind # "free"
               PROVE  h[e].rc = Cardinality(CountingIn(h, <<>>, e))
    BY DEF CountsRight
  <2> DEFINE n == IF s.ref = e /\ s.pol = "RC" THEN 1 ELSE 0
  <2>1. g[e].rc = Cardinality(CountingIn(g, <<>>, e))
    BY <1>1 DEF Sound, CountsRight
  <2>2. h[e].rc = g[e].rc - n
    OBVIOUS
  <2>3. Cardinality(CountingIn(g, <<>>, e)) = Cardinality(CountingIn(h, <<>>, e)) + n
    BY InsertedCount
  <2>4. n \in Nat
    OBVIOUS
  <2> HIDE DEF n
  <2> QED
    BY <2>1, <2>2, <2>3, <2>4, CountingFits
<1>10. RetainedRight(h, <<>>)
  <2> SUFFICES ASSUME NEW e \in Objs, h[e].kind # "free"
               PROVE  h[e].retained <=> \E y \in RefsIn(h, <<>>, e, "DEL") : h[y[1]].kind # "env"
    BY DEF RetainedRight
  <2>1. g[e].retained <=> \E x \in RefsIn(g, <<>>, e, "DEL") : g[x[1]].kind # "env"
    BY <1>1 DEF Sound, RetainedRight
  <2>2. h[e].retained <=> g[e].retained /\ ~ (s.ref = e /\ s.pol = "DEL")
    OBVIOUS
  <2>3. ASSUME NEW x \in RefsIn(h, <<>>, e, "DEL")
        PROVE  /\ S[x] \in RefsIn(g, <<>>, e, "DEL") /\ S[x] # <<l, i>>
               /\ g[S[x][1]].kind = h[x[1]].kind
    BY <1>1, <1>3, <1>5, <1>7
  <2>4. CASE s.ref = e /\ s.pol = "DEL"
    <3>1. <<l, i>> \in RefsIn(g, <<>>, e, "DEL")
      BY <2>4, <1>6
    <3>2. RefsIn(h, <<>>, e, "DEL") = {}
      BY <3>1, <2>3 DEF Sound, LoneOwner, OwningIn
    <3> QED
      BY <3>2, <2>2, <2>4
  <2>5. CASE ~ (s.ref = e /\ s.pol = "DEL")
    <3>1. ASSUME NEW y \in RefsIn(g, <<>>, e, "DEL"), g[y[1]].kind # "env"
          PROVE  \E x \in RefsIn(h, <<>>, e, "DEL") : h[x[1]].kind # "env"
      <4>1. PICK x \in RefsIn(h, <<>>, e, "DEL") : y = S[x]
        BY <2>5, <1>4
      <4> QED
        BY <4>1, <3>1, <2>3
    <3>2. ASSUME NEW x \in RefsIn(h, <<>>, e, "DEL"), h[x[1]].kind # "env"
          PROVE  \E y \in RefsIn(g, <<>>, e, "DEL") : g[y[1]].kind # "env"
      BY <3>2, <2>3
    <3> QED
      BY <3>1, <3>2, <2>1, <2>2, <2>5
  <2> QED
    BY <2>4, <2>5
<1>11. LoneOwner(h, <<>>)
  <2> SUFFICES ASSUME NEW e \in Objs, NEW p \in {"RC", "DEL"}, NEW q \in {"RC", "DEL"},
                      NEW x \in RefsIn(h, <<>>, e, p), NEW y \in RefsIn(h, <<>>, e, q),
                      x \in RefsIn(h, <<>>, e, "DEL") \/ h[x[1]].kind = "env"
               PROVE  x = y
    BY DEF LoneOwner, OwningIn
  <2>1. S[x] \in RefsIn(g, <<>>, e, p) /\ S[y] \in RefsIn(g, <<>>, e, q)
    BY <1>5
  <2>2. S[x] \in RefsIn(g, <<>>, e, "DEL") \/ g[S[x][1]].kind = "env"
    BY <1>1, <1>3, <1>5, <1>7
  <2>3. S[x] = S[y]
    BY <2>1, <2>2 DEF Sound, LoneOwner, OwningIn
  <2> QED
    BY <2>3, <1>3, <1>7
<1>12. BeingDeleted(h, <<>>)
  BY DEF BeingDeleted
<1> QED
  BY <1>1, <1>8, <1>9, <1>10, <1>11, <1>12 DEF Sound

-----------------------------------------------------------------------------
(* The deletion in progress. *)

(* The innermost call and the element it looks at next. *)
Looks(h, c, x) ==
    /\ c # <<>> /\ x = <<c[Len(c)].obj, c[Len(c)].at>>
    /\ c[Len(c)].at <= Len(h[c[Len(c)].obj].slots)

(* The call goes on to the next element, perhaps calling itself for e. *)
Advance(c) == [c EXCEPT ![Len(c)].at = @ + 1]
Enter(c, e) == Append(Advance(c), [obj |-> e, at |-> 1])

(* The calls in progress, and those after a step. *)
LEMMA CallsAre ==
    ASSUME NEW c \in Seq(Calls), c # <<>>
    PROVE  /\ Len(c) \in Nat \ {0} /\ DOMAIN c = 1..Len(c)
           /\ \A f \in 1..Len(c) : c[f].obj \in Objs /\ c[f].at \in Nat \ {0}
<1>1. Len(c) \in Nat \ {0} /\ DOMAIN c = 1..Len(c) /\ \A f \in 1..Len(c) : c[f] \in Calls
  OBVIOUS
<1> QED
  BY <1>1 DEF Calls

(* What going on to the next element does to the calls in progress. *)
LEMMA AdvancedCalls ==
    ASSUME NEW c \in Seq(Calls), c # <<>>
    PROVE  /\ Advance(c) \in Seq(Calls) /\ Len(Advance(c)) = Len(c)
           /\ DOMAIN Advance(c) = 1..Len(c)
           /\ \A f \in 1..Len(c) :
                 /\ Advance(c)[f].obj = c[f].obj
                 /\ Advance(c)[f].at = IF f = Len(c) THEN c[f].at + 1 ELSE c[f].at
<1> DEFINE n == Len(c)
           a == Advance(c)
<1>1. n \in Nat \ {0} /\ DOMAIN c = 1..n /\ \A f \in 1..n : c[f] \in Calls
  OBVIOUS
<1>2. \A f \in 1..n : [c[f] EXCEPT !.at = @ + 1] \in Calls
  BY <1>1 DEF Calls
<1>3. a = [f \in 1..n |-> IF f = n THEN [c[f] EXCEPT !.at = @ + 1] ELSE c[f]]
  BY <1>1 DEF Advance
<1>4. \A f \in 1..n : a[f] \in Calls
  BY <1>1, <1>2, <1>3
<1>5. a \in Seq(Calls) /\ Len(a) = n /\ DOMAIN a = 1..n
  BY <1>1, <1>3, <1>4
<1>6. \A f \in 1..n : /\ a[f].obj = c[f].obj
                      /\ a[f].at = IF f = n THEN c[f].at + 1 ELSE c[f].at
  BY <1>1, <1>2, <1>3 DEF Calls
<1> QED
  BY <1>5, <1>6

(* What calling cee_del on an element does to the calls in progress. *)
LEMMA EnteredCalls ==
    ASSUME NEW c \in Seq(Calls), c # <<>>, NEW e \in Objs
    PROVE  /\ Enter(c, e) \in Seq(Calls) /\ Len(Enter(c, e)) = Len(c) + 1
           /\ DOMAIN Enter(c, e) = 1..Len(c) + 1
           /\ \A f \in 1..Len(c) :
                 /\ Enter(c, e)[f].obj = c[f].obj
                 /\ Enter(c, e)[f].at = IF f = Len(c) THEN c[f].at + 1 ELSE c[f].at
           /\ Enter(c, e)[Len(c) + 1].obj = e /\ Enter(c, e)[Len(c) + 1].at = 1
<1> DEFINE n == Len(c)
           a == Advance(c)
           r == [obj |-> e, at |-> 1]
           d == Append(a, r)
<1>1. n \in Nat \ {0}
  BY CallsAre
<1>2. r \in Calls /\ r.obj = e /\ r.at = 1
  BY DEF Calls
<1>3. /\ a \in Seq(Calls) /\ Len(a) = n
      /\ \A f \in 1..n : /\ a[f].obj = c[f].obj
                         /\ a[f].at = IF f = n THEN c[f].at + 1 ELSE c[f].at
  BY AdvancedCalls
<1> HIDE DEF a, r
<1>4. /\ d \in Seq(Calls) /\ Len(d) = n + 1
      /\ (\A f \in 1..n : d[f] = a[f]) /\ d[n + 1] = r
  BY <1>2, <1>3, AppendProperties
<1> HIDE DEF d
<1>5. DOMAIN d = 1..n + 1
  BY <1>1, <1>4
<1>6. \A f \in 1..n : /\ d[f].obj = c[f].obj
                      /\ d[f].at = IF f = n THEN c[f].at + 1 ELSE c[f].at
  BY <1>3, <1>4
<1>7. d[n + 1].obj = e /\ d[n + 1].at = 1
  BY <1>2, <1>4
<1> QED
  BY <1>4, <1>5, <1>6, <1>7 DEF Enter, d, a, r

(* The element x that the innermost call looks at is held, and, once the   *)
(* call has gone on, it is the only one that is not.                       *)
LEMMA LooksAt ==
    ASSUME NEW h, NEW c, NEW x, Sound(h, c), Looks(h, c, x)
    PROVE  /\ x \in Places /\ x[1] = c[Len(c)].obj /\ x[2] = c[Len(c)].at
           /\ h[x[1]].kind # "free" /\ x[2] \in DOMAIN h[x[1]].slots
           /\ h[x[1]].slots[x[2]] \in Slot
           /\ \A e \in Objs, p \in {"RC", "DEL"} : x \in RefsIn(h, c, e, p) <=>
                 h[x[1]].slots[x[2]].ref = e /\ h[x[1]].slots[x[2]].pol = p
<1> DEFINE n == Len(c)
           t == c[n].obj
           s == h[t].slots
<1>1. h \in [Objs -> Cells] /\ c \in Seq(Calls) /\ c # <<>>
  BY DEF Sound, Typed, Looks
<1>2. n \in Nat \ {0} /\ DOMAIN c = 1..n /\ t \in Objs /\ c[n].at \in Nat \ {0}
      /\ h[t].kind # "free"
  <2>1. n \in Nat \ {0} /\ DOMAIN c = 1..n /\ t \in Objs /\ c[n].at \in Nat \ {0}
    BY <1>1, CallsAre
  <2>2. n \in DOMAIN c
    BY <2>1
  <2> QED
    BY <2>1, <2>2 DEF Sound, BeingDeleted
<1>3. s \in Seq(Slot) /\ Len(s) <= MaxSlots + 4
  BY <1>1, <1>2 DEF Sound, Typed, Cells
<1>4. Len(s) \in Nat /\ DOMAIN s = 1..Len(s) /\ \A i \in 1..Len(s) : s[i] \in Slot
  BY <1>3
<1>5. x = <<t, c[n].at>> /\ c[n].at <= Len(s)
  BY DEF Looks
<1>6. x \in Places /\ x[1] = t /\ x[2] = c[n].at /\ x[2] \in DOMAIN s /\ s[x[2]] \in Slot
  BY <1>2, <1>3, <1>4, <1>5, RefsAssumption DEF Places
<1>7. \A f \in DOMAIN c : c[f].obj = t => f = n
  BY <1>2 DEF Sound, BeingDeleted
<1>8. \A f \in DOMAIN c : c[f].obj = x[1] => x[2] >= c[f].at
  BY <1>2, <1>6, <1>7
<1>9. x \in {o \in Objs : h[o].kind # "free"} \X (1..MaxSlots + 4)
  BY <1>2, <1>5, <1>6 DEF Places
<1>10. \A e \in Objs, p \in {"RC", "DEL"} :
          x \in RefsIn(h, c, e, p) <=> s[x[2]] = [ref |-> e, pol |-> p]
  BY <1>6, <1>8, <1>9 DEF RefsIn
<1>11. \A e \in Objs, p \in {"RC", "DEL"} :
          s[x[2]] = [ref |-> e, pol |-> p] <=> s[x[2]].ref = e /\ s[x[2]].pol = p
  BY <1>6 DEF Slot
<1>12. s = h[x[1]].slots
  BY <1>6
<1> HIDE DEF s
<1>13. \A e \in Objs, p \in {"RC", "DEL"} :
          x \in RefsIn(h, c, e, p) <=> s[x[2]].ref = e /\ s[x[2]].pol = p
  BY <1>10, <1>11
<1> QED
  BY <1>2, <1>6, <1>12, <1>13

(* The step past it gives up that reference, and no other. *)
LEMMA StepRefs ==
    ASSUME NEW h, NEW c, NEW x, Sound(h, c), Looks(h, c, x), NEW b \in Objs,
           NEW d \in {Advance(c), Enter(c, b)}, NEW e, NEW p
    PROVE  RefsIn(h, d, e, p) = RefsIn(h, c, e, p) \ {x}
<1> DEFINE n == Len(c)
<1>1. c \in Seq(Calls) /\ c # <<>>
  BY DEF Sound, Typed, Looks
<1>2. /\ n \in Nat \ {0} /\ DOMAIN c = 1..n
      /\ \A f \in 1..n : /\ c[f].at \in Nat \ {0} /\ d[f].obj = c[f].obj
                         /\ d[f].at = IF f = n THEN c[f].at + 1 ELSE c[f].at
      /\ 1..n \subseteq DOMAIN d
      /\ \A f \in DOMAIN d : f \in 1..n \/ d[f].at = 1
  <2>1. n \in Nat \ {0} /\ DOMAIN c = 1..n /\ \A f \in 1..n : c[f].at \in Nat \ {0}
    BY <1>1, CallsAre
  <2>2. CASE d = Advance(c)
    BY <2>1, <2>2, <1>1, AdvancedCalls
  <2>3. CASE d = Enter(c, b)
    <3>1. DOMAIN d = 1..n + 1 /\ d[n + 1].at = 1
      BY <2>3, <1>1, EnteredCalls
    <3>2. \A f \in 1..n : /\ d[f].obj = c[f].obj
                          /\ d[f].at = IF f = n THEN c[f].at + 1 ELSE c[f].at
      BY <2>3, <1>1, EnteredCalls
    <3>3. 1..n \subseteq DOMAIN d /\ \A f \in DOMAIN d : f \in 1..n \/ d[f].at = 1
      BY <3>1, <2>1
    <3> QED
      BY <3>2, <3>3, <2>1
  <2> QED
    BY <2>2, <2>3
<1>3. x[1] = c[n].obj /\ x[2] = c[n].at /\ x = <<c[n].obj, c[n].at>>
  BY LooksAt DEF Looks
<1>4. ASSUME NEW z \in Places
      PROVE  (\A f \in DOMAIN d : d[f].obj = z[1] => z[2] >= d[f].at) <=>
                z # x /\ \A f \in DOMAIN c : c[f].obj = z[1] => z[2] >= c[f].at
  <2>1. z[2] \in Nat \ {0} /\ z = <<z[1], z[2]>>
    BY DEF Places
  <2>2. z = x <=> z[1] = c[n].obj /\ z[2] = c[n].at
    BY <2>1, <1>3
  <2>3. ASSUME \A f \in DOMAIN d : d[f].obj = z[1] => z[2] >= d[f].at
        PROVE  z # x /\ \A f \in DOMAIN c : c[f].obj = z[1] => z[2] >= c[f].at
    <3>1. n \in 1..n
      <4>1. n \in Nat \ {0}
        BY <1>2
      <4> HIDE DEF n
      <4> QED
        BY <4>1
    <3>2. n \in DOMAIN d /\ d[n].obj = c[n].obj /\ d[n].at = c[n].at + 1
      BY <3>1, <1>2
    <3>3. z # x
      <4>1. c[n].obj = z[1] => z[2] >= c[n].at + 1
        BY <3>2, <2>3
      <4> QED
        BY <4>1, <3>1, <2>1, <2>2, <1>2
    <3>4. \A f \in 1..n : c[f].obj = z[1] => z[2] >= c[f].at
      BY <2>1, <2>3, <1>2
    <3> QED
      BY <3>3, <3>4, <1>2
  <2>4. ASSUME z # x, \A f \in DOMAIN c : c[f].obj = z[1] => z[2] >= c[f].at
        PROVE  \A f \in DOMAIN d : d[f].obj = z[1] => z[2] >= d[f].at
    <3>1. \A f \in 1..n : d[f].obj = z[1] => z[2] >= d[f].at
      BY <2>1, <2>2, <2>4, <1>2
    <3> QED
      BY <3>1, <2>1, <1>2
  <2> QED
    BY <2>3, <2>4
<1>5. \A z \in RefsIn(h, d, e, p) \cup RefsIn(h, c, e, p) : z \in Places
  BY RefsArePlaces
<1> QED
  BY <1>4, <1>5 DEF RefsIn

(* Two heaps with the same kinds and elements have the same references. *)
Alike(h, k) == \A o \in Objs : h[o].kind = k[o].kind /\ h[o].slots = k[o].slots

(* Heaps that agree on kinds and elements hold the same references. *)
LEMMA AlikeRefs ==
    ASSUME NEW h, NEW k, Alike(h, k), NEW c, NEW e, NEW p
    PROVE  RefsIn(k, c, e, p) = RefsIn(h, c, e, p)
  BY DEF Alike, RefsIn

(* The step past an element: its reference is no longer counted, and a     *)
(* deletion begins only of what has no other owner.                        *)
GoesOn(h, c, k, d, x) ==
    /\ Looks(h, c, x) /\ k \in [Objs -> Cells] /\ Alike(h, k)
    /\ \A o \in Objs : k[o].pol = h[o].pol /\ k[o].retained = h[o].retained
    /\ \A e \in Objs : h[e].kind # "free" =>
          k[e].rc = h[e].rc - IF x \in CountingIn(h, c, e) THEN 1 ELSE 0
    /\ \/ /\ d = Advance(c)
          /\ \A e \in Objs : x \notin RefsIn(h, c, e, "DEL") /\ OwningIn(h, c, e) # {x}
       \/ \E b \in Objs : d = Enter(c, b) /\ OwningIn(h, c, b) = {x}

(* Such a step keeps the invariant. *)
LEMMA GoingOnIsSound ==
    ASSUME CountersSuffice, NEW h, NEW k, NEW c, NEW d, NEW x,
           Sound(h, c), GoesOn(h, c, k, d, x)
    PROVE  Sound(k, d)
<1> USE DEF GoesOn
<1> DEFINE n == Len(c)
<1>1. c \in Seq(Calls) /\ c # <<>> /\ n \in Nat \ {0} /\ DOMAIN c = 1..n
  <2>1. c \in Seq(Calls) /\ c # <<>>
    BY DEF Sound, Typed, Looks
  <2> QED
    BY <2>1, CallsAre
<1>2. /\ d \in Seq(Calls)
      /\ \A f \in DOMAIN d : \/ f \in 1..n /\ d[f].obj = c[f].obj
                             \/ /\ f = n + 1 /\ d[f].obj \in Objs
                                /\ OwningIn(h, c, d[f].obj) = {x}
      /\ \A f \in 1..n : f \in DOMAIN d /\ d[f].obj = c[f].obj
  <2>1. CASE d = Advance(c)
    BY <2>1, <1>1, AdvancedCalls
  <2>2. ASSUME NEW b \in Objs, d = Enter(c, b), OwningIn(h, c, b) = {x}
        PROVE  /\ d \in Seq(Calls)
               /\ \A f \in DOMAIN d : \/ f \in 1..n /\ d[f].obj = c[f].obj
                                      \/ /\ f = n + 1 /\ d[f].obj \in Objs
                                         /\ OwningIn(h, c, d[f].obj) = {x}
               /\ \A f \in 1..n : f \in DOMAIN d /\ d[f].obj = c[f].obj
    <3>1. d \in Seq(Calls) /\ DOMAIN d = 1..n + 1 /\ d[n + 1].obj = b
      BY <2>2, <1>1, EnteredCalls
    <3>2. \A f \in 1..n : d[f].obj = c[f].obj
      BY ZenonT(40), <2>2, <1>1, EnteredCalls
    <3>3. \A f \in 1..n + 1 : f \in 1..n \/ f = n + 1
      BY <1>1
    <3> QED
      BY <3>1, <3>2, <3>3, <2>2, <1>1
  <2> QED
    BY <2>1, <2>2
<1>3. \A e, p : RefsIn(k, d, e, p) = RefsIn(h, c, e, p) \ {x}
  <2>1. PICK b \in Objs : d \in {Advance(c), Enter(c, b)}
    BY LooksAt DEF Places
  <2>2. \A e, p : RefsIn(h, d, e, p) = RefsIn(h, c, e, p) \ {x}
    BY <2>1, StepRefs
  <2> QED
    BY <2>2, AlikeRefs
<1>4. \A e, p : \A z \in RefsIn(h, c, e, p) : z[1] \in Objs /\ k[z[1]].kind = h[z[1]].kind
  BY RefsArePlaces DEF Places, Alike
<1>5. Typed(k, d)
  BY <1>2 DEF Sound, Typed, Alike
<1>6. OwnedIsLive(k, d)
  BY <1>3 DEF Sound, OwnedIsLive, OwningIn, Alike
<1>7. CountsRight(k, d)
  <2> SUFFICES ASSUME NEW e \in Objs, k[e].kind # "free"
               PROVE  k[e].rc = Cardinality(CountingIn(k, d, e))
    BY DEF CountsRight
  <2> DEFINE C == CountingIn(h, c, e)
  <2>1. h[e].kind # "free" /\ h[e].rc = Cardinality(C)
    BY DEF Sound, CountsRight, Alike
  <2>2. CountingIn(k, d, e) = C \ {x}
    BY <1>3, <1>4 DEF CountingIn
  <2>3. IsFiniteSet(C) /\ Cardinality(C) \in Nat
    BY CountingFits
  <2>4. k[e].rc = h[e].rc - IF x \in C THEN 1 ELSE 0
    BY <2>1
  <2> HIDE DEF C
  <2>5. Cardinality(C \ {x}) = IF x \in C THEN Cardinality(C) - 1 ELSE Cardinality(C)
    BY <2>3, FS_RemoveElement
  <2> QED
    BY <2>1, <2>2, <2>3, <2>4, <2>5
<1>8. RetainedRight(k, d)
  <2> SUFFICES ASSUME NEW e \in Objs, k[e].kind # "free", \A f \in DOMAIN d : d[f].obj # e
               PROVE  k[e].retained <=> \E z \in RefsIn(k, d, e, "DEL") : k[z[1]].kind # "env"
    BY DEF RetainedRight
  <2>1. h[e].retained <=> \E z \in RefsIn(h, c, e, "DEL") : h[z[1]].kind # "env"
    <3>1. \A f \in DOMAIN c : c[f].obj # e
      BY <1>1, <1>2
    <3> QED
      BY <3>1 DEF Sound, RetainedRight, Alike
  <2>2. x \notin RefsIn(h, c, e, "DEL")
    <3>1. ASSUME NEW b \in Objs, d = Enter(c, b), OwningIn(h, c, b) = {x},
                 x \in RefsIn(h, c, e, "DEL")
          PROVE  FALSE
      <4>1. x \in OwningIn(h, c, b)
        BY <3>1
      <4>2. b = e
        BY <3>1, <4>1, LooksAt DEF OwningIn
      <4>3. DOMAIN d = 1..n + 1 /\ d[n + 1].obj = b
        BY <3>1, <1>1, EnteredCalls
      <4>4. n + 1 \in DOMAIN d
        BY <4>3, <1>1
      <4> QED
        BY <4>2, <4>3, <4>4
    <3> QED
      BY <3>1
  <2>3. RefsIn(k, d, e, "DEL") = RefsIn(h, c, e, "DEL")
    <3>1. RefsIn(k, d, e, "DEL") = RefsIn(h, c, e, "DEL") \ {x}
      BY <1>3
    <3> QED
      BY <3>1, <2>2
  <2> QED
    BY <2>1, <2>3, <1>4
<1>9. LoneOwner(k, d)
  BY <1>3, <1>4 DEF Sound, LoneOwner, OwningIn
<1>10. BeingDeleted(k, d)
  <2> SUFFICES ASSUME NEW f \in DOMAIN d
               PROVE  /\ k[d[f].obj].kind # "free" /\ OwningIn(k, d, d[f].obj) = {}
                      /\ \A g \in DOMAIN d : f # g => d[f].obj # d[g].obj
    BY DEF BeingDeleted
  <2>1. \A g \in 1..n : /\ c[g].obj \in Objs /\ h[c[g].obj].kind # "free"
                        /\ OwningIn(h, c, c[g].obj) = {}
                        /\ \A m \in 1..n : g # m => c[g].obj # c[m].obj
    BY <1>1, CallsAre DEF Sound, BeingDeleted
  <2>2. \A b \in Objs : OwningIn(h, c, b) = {x} => h[b].kind # "free"
    BY DEF Sound, OwnedIsLive
  <2>3. n + 1 \notin 1..n
    BY <1>1
  <2>4. \A g \in DOMAIN d : g = n + 1 => OwningIn(h, c, d[g].obj) = {x}
    BY <2>3, <1>2
  <2>5. \A g \in 1..n : OwningIn(h, c, d[g].obj) = {}
    BY <2>1, <1>2
  <2>6. d[f].obj \in Objs /\ h[d[f].obj].kind # "free"
        /\ (OwningIn(h, c, d[f].obj) = {} \/ OwningIn(h, c, d[f].obj) = {x})
    BY <2>1, <2>2, <1>2
  <2>7. OwningIn(k, d, d[f].obj) = OwningIn(h, c, d[f].obj) \ {x}
    BY <1>3 DEF OwningIn
  <2>8. ASSUME NEW g \in DOMAIN d, f # g PROVE d[f].obj # d[g].obj
    <3>1. CASE f \in 1..n /\ g \in 1..n
      BY <3>1, <2>1, <2>8, <1>2
    <3>2. CASE f \in 1..n /\ g = n + 1
      <4>1. OwningIn(h, c, d[g].obj) = {x} /\ OwningIn(h, c, d[f].obj) = {}
        BY <3>2, <2>4, <2>5
      <4> QED
        BY <4>1
    <3>3. CASE f = n + 1 /\ g \in 1..n
      <4>1. OwningIn(h, c, d[f].obj) = {x} /\ OwningIn(h, c, d[g].obj) = {}
        BY <3>3, <2>4, <2>5
      <4> QED
        BY <4>1
    <3> QED
      BY <3>1, <3>2, <3>3, <2>8, <1>2
  <2> QED
    BY <2>6, <2>7, <2>8 DEF Alike
<1> QED
  BY <1>5, <1>6, <1>7, <1>8, <1>9, <1>10 DEF Sound

(* The end of a call: what it was about is freed, and no reference goes.   *)
Returns(h, c, k, d, t) ==
    /\ c # <<>> /\ c[Len(c)].at > Len(h[c[Len(c)].obj].slots)
    /\ t = c[Len(c)].obj /\ k = [h EXCEPT ![t] = Free] /\ d = Front(c)

(* The call that returns had come to the end of its elements, so that it   *)
(* holds none any more.                                                    *)
LEMMA ReturnedRefs ==
    ASSUME NEW h, NEW c, NEW k, NEW d, NEW t, Sound(h, c), Returns(h, c, k, d, t)
    PROVE  /\ t \in Objs /\ h[t].kind # "free" /\ OwningIn(h, c, t) = {}
           /\ k \in [Objs -> Cells] /\ k[t] = Free /\ \A o \in Objs \ {t} : k[o] = h[o]
           /\ \A e, p : /\ RefsIn(k, d, e, p) = RefsIn(h, c, e, p)
                        /\ \A z \in RefsIn(h, c, e, p) : z[1] \in Objs \ {t}
           /\ d \in Seq(Calls)
           /\ \A f \in DOMAIN d : f \in DOMAIN c /\ d[f] = c[f] /\ c[f].obj # t
           /\ \A f \in DOMAIN c : c[f].obj # t => f \in DOMAIN d
<1> DEFINE n == Len(c)
<1> USE DEF Returns
<1>1. h \in [Objs -> Cells] /\ c \in Seq(Calls) /\ t = c[n].obj
  BY DEF Sound, Typed
<1>2. n \in Nat \ {0} /\ n \in 1..n /\ DOMAIN c = 1..n /\ t \in Objs /\ c[n].at \in Nat \ {0}
      /\ \A f \in 1..n : c[f].obj \in Objs
  <2>1. n \in Nat \ {0} /\ DOMAIN c = 1..n /\ \A f \in 1..n : c[f].obj \in Objs /\ c[f].at \in Nat \ {0}
    BY <1>1, CallsAre
  <2> HIDE DEF n
  <2>2. n \in 1..n
    BY <2>1
  <2> QED
    BY <2>1, <2>2
<1>3. n \notin 1..n - 1 /\ \A f : f \in 1..n <=> f = n \/ f \in 1..n - 1
  <2>1. n \in Nat \ {0}
    BY <1>2
  <2> HIDE DEF n
  <2> QED
    BY <2>1
<1>4. d \in Seq(Calls) /\ DOMAIN d = 1..n - 1 /\ \A f \in 1..n - 1 : d[f] = c[f]
  BY <1>1, <1>2 DEF Front
<1>5. Free \in Cells /\ Free.kind = "free" /\ Len(Free.slots) = 0
  BY RefsAssumption DEF Free, Cells
<1>6. k \in [Objs -> Cells] /\ k[t] = Free /\ \A o \in Objs \ {t} : k[o] = h[o]
  BY <1>1, <1>2, <1>5
<1>7. h[t].slots \in Seq(Slot) /\ Len(h[t].slots) \in Nat /\ c[n].at > Len(h[t].slots)
  BY <1>1, <1>2 DEF Cells
<1>8. /\ \A f \in 1..n : h[c[f].obj].kind # "free" /\ OwningIn(h, c, c[f].obj) = {}
      /\ \A f, g \in 1..n : f # g => c[f].obj # c[g].obj
  BY <1>2 DEF Sound, BeingDeleted
<1> HIDE DEF Returns
<1>9. \A e, p : RefsIn(k, d, e, p) = RefsIn(h, c, e, p)
  <2> SUFFICES ASSUME NEW e, NEW p
               PROVE  RefsIn(k, d, e, p) = RefsIn(h, c, e, p)
    OBVIOUS
  <2>1. ASSUME NEW z \in RefsIn(h, c, e, p) PROVE z \in RefsIn(k, d, e, p)
    <3>1. z[1] \in Objs /\ z[2] \in DOMAIN h[z[1]].slots
          /\ \A f \in 1..n : c[f].obj = z[1] => z[2] >= c[f].at
      BY <1>2 DEF RefsIn
    <3>2. z[1] # t
      <4>1. z[1] = t => z[2] \in 1..Len(h[t].slots) /\ z[2] >= c[n].at
        BY <3>1, <1>1, <1>2, <1>7
      <4> QED
        BY <4>1, <1>1, <1>2, <1>7
    <3>3. \A f \in DOMAIN d : d[f].obj = z[1] => z[2] >= d[f].at
      BY <3>1, <1>2, <1>4
    <3> QED
      BY <3>1, <3>2, <3>3, <1>6 DEF RefsIn
  <2>2. ASSUME NEW z \in RefsIn(k, d, e, p) PROVE z \in RefsIn(h, c, e, p)
    <3>1. z[1] \in Objs /\ z[1] # t
      BY <1>5, <1>6 DEF RefsIn
    <3>2. ASSUME NEW f \in DOMAIN c, c[f].obj = z[1] PROVE z[2] >= c[f].at
      <4>1. f # n
        BY <3>1, <3>2, <1>1
      <4>2. f \in 1..n - 1
        BY <4>1, <1>2
      <4>3. f \in DOMAIN d /\ d[f] = c[f]
        BY <4>2, <1>4
      <4> QED
        BY <4>3, <3>2 DEF RefsIn
    <3> QED
      BY <3>1, <3>2, <1>6 DEF RefsIn
  <2> QED
    BY <2>1, <2>2
<1>10. \A e, p : \A z \in RefsIn(h, c, e, p) : z[1] \in Objs \ {t}
  BY <1>9, <1>5, <1>6 DEF RefsIn
<1>11. \A f \in 1..n - 1 : f \in 1..n /\ c[f].obj # t
  BY <1>1, <1>2, <1>3, <1>8
<1>12. \A f \in 1..n : c[f].obj # t => f \in 1..n - 1
  BY <1>1, <1>3
<1> QED
  BY ZenonT(40), <1>1, <1>2, <1>4, <1>6, <1>8, <1>9, <1>10, <1>11, <1>12

(* So the invariant holds on return. *)
LEMMA ReturningIsSound ==
    ASSUME NEW h, NEW c, NEW k, NEW d, NEW t, Sound(h, c), Returns(h, c, k, d, t)
    PROVE  Sound(k, d)
<1>1. Free \in Cells /\ Free.kind = "free" /\ Len(Free.slots) = 0
  BY RefsAssumption DEF Free, Cells
<1>2. t \in Objs /\ OwningIn(h, c, t) = {}
      /\ k \in [Objs -> Cells] /\ k[t] = Free /\ \A o \in Objs \ {t} : k[o] = h[o]
  BY ReturnedRefs
<1>3. \A e, p : /\ RefsIn(k, d, e, p) = RefsIn(h, c, e, p)
               /\ \A z \in RefsIn(h, c, e, p) : z[1] \in Objs \ {t}
  BY ReturnedRefs
<1>4. /\ d \in Seq(Calls)
      /\ \A f \in DOMAIN d : f \in DOMAIN c /\ d[f] = c[f] /\ c[f].obj # t
      /\ \A f \in DOMAIN c : c[f].obj # t => f \in DOMAIN d
  BY ReturnedRefs
<1>5. \A e \in Objs : k[e].kind # "free" => e # t /\ h[e].kind # "free" /\ k[e] = h[e]
  BY <1>1, <1>2
<1>6. \A e : OwningIn(k, d, e) = OwningIn(h, c, e)
  BY <1>3 DEF OwningIn
<1>7. Typed(k, d)
  <2>1. \A o \in Objs : /\ Len(k[o].slots) <= MaxSlots + 4
                        /\ k[o].kind \in {"list", "stack"} => k[o].pol \in Policies
    BY <1>1, <1>2, RefsAssumption DEF Sound, Typed
  <2> QED
    BY <2>1, <1>2, <1>4 DEF Typed
<1>8. OwnedIsLive(k, d)
  <2> SUFFICES ASSUME NEW e \in Objs, OwningIn(k, d, e) # {} PROVE k[e].kind # "free"
    BY DEF OwnedIsLive
  <2>1. e # t /\ OwningIn(h, c, e) # {}
    BY <1>2, <1>6
  <2> QED
    BY <2>1, <1>2 DEF Sound, OwnedIsLive
<1>9. CountsRight(k, d)
  <2> SUFFICES ASSUME NEW e \in Objs, k[e].kind # "free"
               PROVE  k[e].rc = Cardinality(CountingIn(k, d, e))
    BY DEF CountsRight
  <2>1. CountingIn(k, d, e) = CountingIn(h, c, e)
    BY <1>2, <1>3 DEF CountingIn
  <2> QED
    BY <2>1, <1>5 DEF Sound, CountsRight
<1>10. RetainedRight(k, d)
  <2> SUFFICES ASSUME NEW e \in Objs, k[e].kind # "free", \A f \in DOMAIN d : d[f].obj # e
               PROVE  k[e].retained <=> \E z \in RefsIn(k, d, e, "DEL") : k[z[1]].kind # "env"
    BY DEF RetainedRight
  <2>1. \A f \in DOMAIN c : c[f].obj # e
    BY <1>4, <1>5
  <2>2. h[e].retained <=> \E z \in RefsIn(h, c, e, "DEL") : h[z[1]].kind # "env"
    BY <2>1, <1>5 DEF Sound, RetainedRight
  <2> QED
    BY <2>2, <1>2, <1>3, <1>5
<1>11. LoneOwner(k, d)
  <2>1. \A e : \A z \in OwningIn(h, c, e) : k[z[1]].kind = h[z[1]].kind
    BY <1>2, <1>3 DEF OwningIn
  <2> QED
    BY <2>1, <1>3, <1>6 DEF Sound, LoneOwner
<1>12. BeingDeleted(k, d)
  <2> SUFFICES ASSUME NEW f \in DOMAIN d
               PROVE  /\ k[d[f].obj].kind # "free" /\ OwningIn(k, d, d[f].obj) = {}
                      /\ \A g \in DOMAIN d : f # g => d[f].obj # d[g].obj
    BY DEF BeingDeleted
  <2>1. d[f].obj \in Objs \ {t} /\ f \in DOMAIN c /\ d[f] = c[f]
    <3>1. d[f] \in Calls
      BY <1>4
    <3> QED
      BY <3>1, <1>4 DEF Calls
  <2>2. h[c[f].obj].kind # "free" /\ OwningIn(h, c, c[f].obj) = {}
        /\ \A g \in DOMAIN c : f # g => c[f].obj # c[g].obj
    BY <2>1 DEF Sound, BeingDeleted
  <2> QED
    BY <2>1, <2>2, <1>2, <1>4, <1>6
<1> QED
  BY <1>7, <1>8, <1>9, <1>10, <1>11, <1>12 DEF Sound

(* The program deletes what nobody owns. *)
LEMMA StartingIsSound ==
    ASSUME NEW h, Sound(h, <<>>), NEW o \in Objs, h[o].kind # "free", OwningIn(h, <<>>, o) = {}
    PROVE  Sound(h, <<[obj |-> o, at |-> 1]>>)
<1> DEFINE r == [obj |-> o, at |-> 1]
           d == <<r>>
<1>1. r \in Calls /\ r.obj = o /\ r.at = 1
  BY DEF Calls
<1>2. d \in Seq(Calls) /\ DOMAIN d = {1} /\ d[1] = r
  BY <1>1
<1> HIDE DEF r, d
<1>4. \A e, p : RefsIn(h, d, e, p) = RefsIn(h, <<>>, e, p)
  BY <1>1, <1>2 DEF RefsIn
<1>5. Typed(h, d)
  BY <1>2 DEF Sound, Typed
<1>6. OwnedIsLive(h, d)
  BY <1>4 DEF Sound, OwnedIsLive, OwningIn
<1>7. CountsRight(h, d)
  BY <1>4 DEF Sound, CountsRight, CountingIn
<1>8. RetainedRight(h, d)
  BY <1>4 DEF Sound, RetainedRight
<1>9. LoneOwner(h, d)
  BY <1>4 DEF Sound, LoneOwner, OwningIn
<1>10. BeingDeleted(h, d)
  BY <1>1, <1>2, <1>4 DEF BeingDeleted, OwningIn
<1> QED
  BY <1>5, <1>6, <1>7, <1>8, <1>9, <1>10 DEF Sound, d, r

-----------------------------------------------------------------------------
(* The operators of the model, in terms of the invariant. *)

(* RefsTo and OwningRefs are RefsIn and OwningIn of the present state. *)
LEMMA RefsNow ==
    ASSUME NEW e PROVE /\ \A p : RefsTo(e, p) = RefsIn(heap, frames, e, p)
                       /\ OwningRefs(e) = OwningIn(heap, frames, e)
<1>1. \A p : RefsTo(e, p) = RefsIn(heap, frames, e, p)
  BY DEF RefsTo, RefsIn, Held, Live
<1> QED
  BY <1>1 DEF OwningRefs, OwningIn

(* Without Freedoms, what may get a reference welcomes it. *)
LEMMA MayReferWelcomes ==
    ASSUME Freedoms = {}, RInv, Idle, NEW kind, NEW e, NEW p \in {"RC", "DEL"},
           MayRefer(kind, e, p)
    PROVE  Welcome(heap, kind, e, p)
<1>1. /\ e \in Live /\ (p = "DEL" => RefsTo(e, "DEL") = {})
      /\ RefsTo(e, IF p = "RC" THEN "DEL" ELSE "RC") = {}
      /\ IF kind = "env" THEN OwningRefs(e) = {} ELSE EnvRefs(e) = {}
  BY DEF MayRefer
<1>2. frames = <<>>
  BY DEF Idle
<1>4. RefsTo(e, "DEL") = RefsIn(heap, <<>>, e, "DEL") /\ RefsTo(e, "RC") = RefsIn(heap, <<>>, e, "RC")
      /\ OwningRefs(e) = OwningIn(heap, <<>>, e)
  BY <1>2, RefsNow
<1>5. RefsIn(heap, <<>>, e, "DEL") = {}
  BY <1>1, <1>4
<1>6. \A x \in OwningIn(heap, <<>>, e) : heap[x[1]].kind # "env"
  BY <1>1, <1>4 DEF EnvRefs
<1>7. p = "DEL" \/ kind = "env" => OwningIn(heap, <<>>, e) = {}
  BY <1>1, <1>4, <1>5 DEF OwningIn
<1> QED
  BY <1>1, <1>5, <1>6, <1>7 DEF Welcome, Live

(* What cee_incr_indegree changes. *)
LEMMA IncrGives ==
    ASSUME NEW h \in [Objs -> Cells], NEW s \in Seq(Slot)
    PROVE  /\ Incr(h, s) \in [Objs -> Cells] /\ Alike(h, Incr(h, s))
           /\ \A e \in Objs :
                 /\ Incr(h, s)[e].pol = h[e].pol
                 /\ Incr(h, s)[e].rc = (h[e].rc + Cardinality(CountedIn(h, s, e))) % RcMod
                 /\ Incr(h, s)[e].retained <=>
                       h[e].retained \/ \E i \in DOMAIN s : s[i] = [ref |-> e, pol |-> "DEL"]
<1> DEFINE n(e) == (h[e].rc + Cardinality(CountedIn(h, s, e))) % RcMod
           b(e) == h[e].retained \/ \E i \in DOMAIN s : s[i] = [ref |-> e, pol |-> "DEL"]
           k == Incr(h, s)
<1>1. \A e \in Objs : n(e) \in 0..RcMod - 1
  <2> SUFFICES ASSUME NEW e \in Objs PROVE n(e) \in 0..RcMod - 1
    OBVIOUS
  <2>1. CountedIn(h, s, e) \subseteq 1..Len(s) /\ Len(s) \in Nat
    BY DEF CountedIn
  <2>2. IsFiniteSet(CountedIn(h, s, e))
    <3>1. IsFiniteSet(1..Len(s))
      BY <2>1, FS_Interval
    <3> QED
      BY <2>1, <3>1, FS_Subset
  <2>3. Cardinality(CountedIn(h, s, e)) \in Nat
    BY <2>2, FS_CardinalityType
  <2>4. h[e].rc \in Nat
    BY RefsAssumption DEF Cells
  <2> QED
    BY <2>3, <2>4, RefsAssumption
<1>2. \A e \in Objs : b(e) \in BOOLEAN
  BY DEF Cells
<1>4. k = [e \in Objs |-> [h[e] EXCEPT !.rc = n(e), !.retained = b(e)]]
  BY DEF Incr
<1> HIDE DEF n, b, k
<1>5. \A e \in Objs : /\ k[e] \in Cells /\ k[e].kind = h[e].kind /\ k[e].slots = h[e].slots
                      /\ k[e].pol = h[e].pol /\ k[e].rc = n(e) /\ k[e].retained = b(e)
  BY <1>1, <1>2, <1>4 DEF Cells
<1>6. k \in [Objs -> Cells] /\ Alike(h, k)
  BY <1>4, <1>5 DEF Alike
<1> QED
  BY <1>5, <1>6 DEF n, b, k

(* Inserting and removing undo each other, also at the end. *)
LEMMA InsertUndoes ==
    ASSUME NEW s \in Seq(Slot), NEW i \in DOMAIN s
    PROVE  InsertAt(RemoveAt(s, i), i, s[i]) = s /\ i \in 1..Len(RemoveAt(s, i)) + 1
<1> DEFINE r == RemoveAt(s, i)
           w == InsertAt(r, i, s[i])
<1>1. Len(s) \in Nat /\ DOMAIN s = 1..Len(s) /\ i \in 1..Len(s) /\ s[i] \in Slot
  OBVIOUS
<1>2. r \in Seq(Slot) /\ Len(r) = Len(s) - 1
      /\ \A j \in 1..Len(s) - 1 : r[j] = IF j < i THEN s[j] ELSE s[j + 1]
  BY Removed
<1> HIDE DEF r
<1>4. i \in 1..Len(r) + 1
  BY <1>1, <1>2
<1>5. /\ w \in Seq(Slot) /\ Len(w) = Len(r) + 1
      /\ \A j \in 1..Len(r) + 1 :
            w[j] = IF j < i THEN r[j] ELSE IF j = i THEN s[i] ELSE r[j - 1]
  BY <1>1, <1>2, <1>4, Inserted
<1> HIDE DEF w
<1>6. Len(w) = Len(s)
  BY <1>1, <1>2, <1>5
<1>7. ASSUME NEW j \in 1..Len(s) PROVE w[j] = s[j]
  <2>1. CASE j < i
    BY <2>1, <1>1, <1>2, <1>5
  <2>2. CASE j = i
    BY <2>2, <1>1, <1>2, <1>5
  <2>3. CASE j > i
    <3>1. PICK m \in 1..Len(s) - 1 : m = j - 1
      BY <2>3, <1>1
    <3>2. r[m] = s[m + 1] /\ m + 1 = j
      BY <3>1, <2>3, <1>1, <1>2
    <3>3. w[j] = r[m]
      BY <3>1, <2>3, <1>1, <1>2, <1>5
    <3> QED
      BY <3>2, <3>3
  <2> QED
    BY <2>1, <2>2, <2>3, <1>1
<1>8. w = s
  BY <1>1, <1>5, <1>6, <1>7
<1> QED
  BY <1>4, <1>8 DEF w, r

(* cee_list_append inserts, and cee_stack_pop removes, at the end. *)
LEMMA AtTheEnd ==
    ASSUME NEW s \in Seq(Slot), NEW e \in Slot
    PROVE  /\ Append(s, e) = InsertAt(s, Len(s) + 1, e)
           /\ s # <<>> => Front(s) = RemoveAt(s, Len(s)) /\ Last(s) = s[Len(s)] /\ Len(s) \in DOMAIN s
<1>1. Len(s) \in Nat /\ DOMAIN s = 1..Len(s) /\ \A j \in 1..Len(s) : s[j] \in Slot
  OBVIOUS
<1>2. Append(s, e) = InsertAt(s, Len(s) + 1, e)
  <2> DEFINE a == Append(s, e)
             w == InsertAt(s, Len(s) + 1, e)
  <2>1. a \in Seq(Slot) /\ Len(a) = Len(s) + 1 /\ a[Len(s) + 1] = e
        /\ \A j \in 1..Len(s) : a[j] = s[j]
    BY AppendProperties
  <2>2. Len(s) + 1 \in 1..Len(s) + 1
    BY <1>1
  <2>3. w \in Seq(Slot) /\ Len(w) = Len(s) + 1
        /\ \A j \in 1..Len(s) + 1 : w[j] = IF j < Len(s) + 1 THEN s[j]
                                           ELSE IF j = Len(s) + 1 THEN e ELSE s[j - 1]
    BY <2>2, Inserted
  <2> HIDE DEF a, w
  <2>4. \A j \in 1..Len(s) + 1 : a[j] = w[j]
    BY <2>1, <2>3, <1>1
  <2> QED
    BY <2>1, <2>3, <2>4 DEF a, w
<1>4. ASSUME s # <<>>
      PROVE  Front(s) = RemoveAt(s, Len(s)) /\ Last(s) = s[Len(s)] /\ Len(s) \in DOMAIN s
  <2> DEFINE f == Front(s)
             r == RemoveAt(s, Len(s))
  <2>1. Len(s) \in DOMAIN s
    BY <1>1, <1>4
  <2>2. f \in Seq(Slot) /\ Len(f) = Len(s) - 1 /\ \A j \in 1..Len(s) - 1 : f[j] = s[j]
    BY <1>1, <2>1 DEF Front
  <2>3. r \in Seq(Slot) /\ Len(r) = Len(s) - 1
        /\ \A j \in 1..Len(s) - 1 : r[j] = IF j < Len(s) THEN s[j] ELSE s[j + 1]
    BY <2>1, Removed
  <2> HIDE DEF f, r
  <2>4. \A j \in 1..Len(s) - 1 : f[j] = r[j]
    BY <2>2, <2>3, <1>1
  <2>5. f = r
    BY <2>2, <2>3, <2>4
  <2> QED
    BY <2>1, <2>5 DEF f, r, Last
<1> QED
  BY <1>2, <1>4

-----------------------------------------------------------------------------
(* The operations of the program, which run while no deletion does. *)

(* A new object without elements. *)
LEMMA EmptyIsSound ==
    ASSUME CountersSuffice, RInv, Idle, NEW o \in Objs, heap[o] = Free,
           NEW kind \in {"box", "list", "stack"}, NEW p \in Policies \cup {"NOOP"},
           kind \in {"list", "stack"} => p \in Policies
    PROVE  Sound([heap EXCEPT ![o] = Object(kind, p, <<>>)], <<>>)
<1> DEFINE new == Object(kind, p, <<>>)
           h == [heap EXCEPT ![o] = new]
<1>1. Sound(heap, <<>>) /\ heap \in [Objs -> Cells] /\ heap[o].kind = "free"
  BY DEF RInv, Idle, Sound, Typed, Free
<1>2. new \in Cells /\ new.kind = kind /\ new.slots = <<>> /\ new.rc = 0 /\ new.retained = FALSE
      /\ new.pol = p /\ Len(new.slots) = 0 /\ DOMAIN new.slots = {}
  BY RefsAssumption DEF Object, Cells
<1>4. h \in [Objs -> Cells] /\ h[o] = new /\ \A x \in Objs \ {o} : h[x] = heap[x]
  BY <1>1, <1>2
<1> HIDE DEF new, h
<1>5. Typed(h, <<>>)
  <2>1. \A x \in Objs : /\ Len(h[x].slots) <= MaxSlots + 4
                        /\ h[x].kind \in {"list", "stack"} => h[x].pol \in Policies
    BY <1>1, <1>2, <1>4, RefsAssumption DEF Sound, Typed
  <2> QED
    BY <2>1, <1>4 DEF Typed
<1>6. Adds(heap, h, o)
  BY <1>1, <1>2, <1>4, <1>5 DEF Adds, Sound
<1>7. Welcomed(heap, h, o) /\ Apart(h[o].slots, h[o].kind)
  BY <1>2, <1>4 DEF Welcomed, Apart
<1>8. CountsAdded(heap, h, o)
  <2> SUFFICES ASSUME NEW e \in Objs
               PROVE  h[e].rc = ((IF e = o THEN 0 ELSE heap[e].rc)
                        + IF h[o].kind = "env" THEN 0
                          ELSE Cardinality({i \in DOMAIN h[o].slots :
                                   h[o].slots[i] = [ref |-> e, pol |-> "RC"]})) % RcMod
    BY DEF CountsAdded
  <2>1. {i \in DOMAIN h[o].slots : h[o].slots[i] = [ref |-> e, pol |-> "RC"]} = {}
    BY <1>2, <1>4
  <2>2. Cardinality({i \in DOMAIN h[o].slots : h[o].slots[i] = [ref |-> e, pol |-> "RC"]}) = 0
    BY <2>1, FS_EmptySet
  <2>3. h[e].rc = (IF e = o THEN 0 ELSE heap[e].rc) /\ h[e].rc \in Nat /\ h[e].rc < RcMod
    <3>1. h[e] \in Cells
      BY <1>4
    <3> QED
      BY <3>1, <1>2, <1>4, RefsAssumption DEF Cells
  <2> QED
    BY <2>2, <2>3, NoWrap
<1>9. RetainsAdded(heap, h, o)
  BY <1>1, <1>2, <1>4 DEF RetainsAdded, Cells
<1> QED
  BY <1>1, <1>6, <1>7, <1>8, <1>9, AddingIsSound DEF h, new

(* The elements offered to a new object. *)
LEMMA FillingsAre ==
    ASSUME NEW n \in Nat, NEW kind, NEW s \in Fillings(n, kind)
    PROVE  s \in Seq(Slot) /\ Len(s) = n
<1>1. UNION {{[ref |-> e, pol |-> p] : e \in {x \in Live : MayRefer(kind, x, p)}} :
                p \in IF Idle THEN Policies ELSE {}} \subseteq Slot
  BY DEF Live, Slot
<1>2. s \in [1..n -> Slot]
  BY <1>1 DEF Fillings
<1> QED
  BY <1>2

(* The fixed-size containers. *)
LEMMA ProductIsSound ==
    ASSUME Freedoms = {}, CountersSuffice, RInv, NEW o \in Objs,
           NEW s \in Seq(Slot), Len(s) <= MaxSlots + 4, MkProduct(o, s)
    PROVE  RInv'
<1> DEFINE new == Object("product", "NOOP", s)
           g == [heap EXCEPT ![o] = new]
           h == Incr(g, s)
<1>1. Sound(heap, <<>>) /\ heap \in [Objs -> Cells] /\ heap[o].kind = "free" /\ Idle
      /\ frames = <<>> /\ frames' = <<>> /\ heap' = h
  BY DEF RInv, Idle, Sound, Typed, Free, MkProduct
<1>2. new \in Cells /\ new.kind = "product" /\ new.slots = s /\ new.rc = 0 /\ new.retained = FALSE
  BY RefsAssumption DEF Object, Cells
<1>4. g \in [Objs -> Cells] /\ g[o] = new /\ \A x \in Objs \ {o} : g[x] = heap[x]
  BY <1>1, <1>2
<1>5. \A i \in DOMAIN s : s[i] \in Slot
  OBVIOUS
<1>6. \A i \in DOMAIN s : s[i].pol # "NOOP" =>
         s[i].pol \in {"RC", "DEL"} /\ Welcome(heap, "product", s[i].ref, s[i].pol)
  <2> SUFFICES ASSUME NEW i \in DOMAIN s, s[i].pol # "NOOP"
               PROVE  s[i].pol \in {"RC", "DEL"} /\ Welcome(heap, "product", s[i].ref, s[i].pol)
    OBVIOUS
  <2>1. s[i].pol \in {"RC", "DEL"}
    BY <1>5, RefsAssumption DEF Slot
  <2>2. MayRefer("product", s[i].ref, s[i].pol)
    BY DEF MkProduct
  <2> QED
    BY <2>1, <2>2, <1>1, MayReferWelcomes
<1>7. \A i, j \in DOMAIN s : i # j /\ s[i].ref = s[j].ref =>
         \/ s[i].pol = "NOOP" \/ s[j].pol = "NOOP"
         \/ s[i].pol = "RC" /\ s[j].pol = "RC"
  BY DEF MkProduct
<1> HIDE DEF new, g, h
<1>8. /\ h \in [Objs -> Cells] /\ Alike(g, h)
      /\ \A e \in Objs :
            /\ h[e].pol = g[e].pol
            /\ h[e].rc = (g[e].rc + Cardinality(CountedIn(g, s, e))) % RcMod
            /\ h[e].retained <=>
                  g[e].retained \/ \E i \in DOMAIN s : s[i] = [ref |-> e, pol |-> "DEL"]
  BY <1>4, IncrGives DEF h
<1>9. /\ h[o].kind = "product" /\ h[o].slots = s
      /\ \A x \in Objs \ {o} : h[x].kind = heap[x].kind /\ h[x].slots = heap[x].slots
                               /\ h[x].pol = heap[x].pol
  BY <1>2, <1>4, <1>8 DEF Alike
<1>10. Typed(h, <<>>)
  <2>1. \A x \in Objs : /\ Len(h[x].slots) <= MaxSlots + 4
                        /\ h[x].kind \in {"list", "stack"} => h[x].pol \in Policies
    BY <1>1, <1>9 DEF Sound, Typed
  <2> QED
    BY <2>1, <1>8 DEF Typed
<1>11. Adds(heap, h, o)
  BY <1>1, <1>9, <1>10 DEF Adds, Sound
<1>12. Welcomed(heap, h, o)
  BY <1>6, <1>9 DEF Welcomed
<1>13. Apart(h[o].slots, h[o].kind)
  BY <1>7, <1>9 DEF Apart
<1>14. CountsAdded(heap, h, o)
  <2> SUFFICES ASSUME NEW e \in Objs
               PROVE  h[e].rc = ((IF e = o THEN 0 ELSE heap[e].rc)
                        + Cardinality({i \in DOMAIN s : s[i] = [ref |-> e, pol |-> "RC"]})) % RcMod
    BY <1>9 DEF CountsAdded
  <2>1. g[e].rc = IF e = o THEN 0 ELSE heap[e].rc
    BY <1>2, <1>4
  <2>2. CountedIn(g, s, e) = {i \in DOMAIN s : s[i] = [ref |-> e, pol |-> "RC"]}
    <3> SUFFICES ASSUME NEW i \in DOMAIN s, s[i] = [ref |-> e, pol |-> "RC"]
                 PROVE  ~ g[e].retained /\ \A j \in 1..i-1 : s[j] # [ref |-> e, pol |-> "DEL"]
      BY DEF CountedIn
    <3>1. s[i].ref = e /\ s[i].pol = "RC"
      OBVIOUS
    <3>2. Welcome(heap, "product", e, "RC")
      BY <3>1, <1>6
    <3>3. heap[e].kind # "free" /\ RefsIn(heap, <<>>, e, "DEL") = {}
      BY <3>2 DEF Welcome, OwningIn
    <3>4. ~ heap[e].retained /\ e # o
      BY <3>3, <1>1 DEF Sound, RetainedRight
    <3>5. ASSUME NEW j \in 1..i-1, s[j] = [ref |-> e, pol |-> "DEL"] PROVE FALSE
      <4>1. j \in DOMAIN s /\ j # i
        OBVIOUS
      <4>2. s[j].ref = e /\ s[j].pol = "DEL"
        BY <3>5
      <4> QED
        BY <4>1, <4>2, <3>1, <1>7
    <3> QED
      BY <3>4, <3>5, <1>4
  <2> QED
    BY <2>1, <2>2, <1>8
<1>15. RetainsAdded(heap, h, o)
  <2> SUFFICES ASSUME NEW e \in Objs
               PROVE  h[e].retained <=>
                         \/ e # o /\ heap[e].retained
                         \/ \E i \in DOMAIN s : s[i] = [ref |-> e, pol |-> "DEL"]
    BY <1>9 DEF RetainsAdded
  <2>1. g[e].retained <=> e # o /\ heap[e].retained
    BY <1>2, <1>4
  <2> QED
    BY <2>1, <1>8
<1>16. Sound(h, <<>>)
  BY <1>1, <1>11, <1>12, <1>13, <1>14, <1>15, AddingIsSound
<1> QED
  BY <1>1, <1>16 DEF RInv

(* The environment, which counts nothing. *)
LEMMA EnvIsSound ==
    ASSUME Freedoms = {}, CountersSuffice, RInv, NEW o \in Objs,
           NEW s \in Seq(Slot), Len(s) <= MaxSlots + 4, MkEnv(o, s)
    PROVE  RInv'
<1> DEFINE new == Object("env", "NOOP", s)
           h == [heap EXCEPT ![o] = new]
<1>1. Sound(heap, <<>>) /\ heap \in [Objs -> Cells] /\ heap[o].kind = "free" /\ Idle
      /\ frames' = <<>> /\ heap' = h
  BY DEF RInv, Idle, Sound, Typed, Free, MkEnv
<1>2. new \in Cells /\ new.kind = "env" /\ new.slots = s /\ new.rc = 0 /\ new.retained = FALSE
  BY RefsAssumption DEF Object, Cells
<1>4. h \in [Objs -> Cells] /\ h[o] = new /\ \A x \in Objs \ {o} : h[x] = heap[x]
  BY <1>1, <1>2
<1>5. \A i \in DOMAIN s : s[i] \in Slot
  OBVIOUS
<1>6. \A i \in DOMAIN s : s[i].pol # "NOOP" => Welcome(heap, "env", s[i].ref, s[i].pol)
  <2> SUFFICES ASSUME NEW i \in DOMAIN s, s[i].pol # "NOOP"
               PROVE  Welcome(heap, "env", s[i].ref, s[i].pol)
    OBVIOUS
  <2>1. s[i].pol \in {"RC", "DEL"}
    BY <1>5, RefsAssumption DEF Slot
  <2>2. MayRefer("env", s[i].ref, s[i].pol)
    BY DEF MkEnv
  <2> QED
    BY <2>1, <2>2, <1>1, MayReferWelcomes
<1>7. \A i, j \in DOMAIN s : s[i].ref = s[j].ref => i = j
  BY DEF MkEnv, IsInjective
<1> HIDE DEF new, h
<1>8. Typed(h, <<>>)
  <2>1. \A x \in Objs : /\ Len(h[x].slots) <= MaxSlots + 4
                        /\ h[x].kind \in {"list", "stack"} => h[x].pol \in Policies
    BY <1>1, <1>2, <1>4 DEF Sound, Typed
  <2> QED
    BY <2>1, <1>4 DEF Typed
<1>9. Adds(heap, h, o)
  BY <1>1, <1>2, <1>4, <1>8 DEF Adds, Sound
<1>10. Welcomed(heap, h, o)
  BY <1>2, <1>4, <1>6 DEF Welcomed
<1>11. Apart(h[o].slots, h[o].kind)
  BY <1>2, <1>4, <1>7 DEF Apart
<1>12. CountsAdded(heap, h, o)
  <2> SUFFICES ASSUME NEW e \in Objs
               PROVE  h[e].rc = ((IF e = o THEN 0 ELSE heap[e].rc) + 0) % RcMod
    BY <1>2, <1>4 DEF CountsAdded
  <2>1. h[e].rc = (IF e = o THEN 0 ELSE heap[e].rc) /\ h[e].rc \in Nat /\ h[e].rc < RcMod
    <3>1. h[e] \in Cells
      BY <1>4
    <3> QED
      BY <3>1, <1>2, <1>4, RefsAssumption DEF Cells
  <2> QED
    BY <2>1, NoWrap
<1>13. RetainsAdded(heap, h, o)
  BY <1>1, <1>2, <1>4 DEF RetainsAdded, Cells
<1>14. Sound(h, <<>>)
  BY <1>1, <1>9, <1>10, <1>11, <1>12, <1>13, AddingIsSound
<1> QED
  BY <1>1, <1>14 DEF RInv

(* cee_list_insert and cee_stack_push. *)
LEMMA PuttingInIsSound ==
    ASSUME Freedoms = {}, CountersSuffice, RInv, Idle, NEW l \in Objs,
           heap[l].kind \in {"list", "stack"}, Len(heap[l].slots) < MaxSlots,
           NEW e \in Objs, MayRefer(heap[l].kind, e, heap[l].pol),
           NEW i \in 1..Len(heap[l].slots) + 1, NEW s, s = [ref |-> e, pol |-> heap[l].pol]
    PROVE  Sound(Incr([heap EXCEPT ![l].slots = InsertAt(@, i, s)], <<s>>), <<>>)
<1> DEFINE a == heap[l].slots
           w == InsertAt(a, i, s)
           g == [heap EXCEPT ![l].slots = w]
           q == <<s>>
           h == Incr(g, q)
<1>1. Sound(heap, <<>>) /\ heap \in [Objs -> Cells] /\ heap[l].pol \in Policies
  BY DEF RInv, Idle, Sound, Typed
<1>2. s \in Slot /\ s.ref = e /\ s.pol = heap[l].pol
  BY <1>1 DEF Slot
<1>4. a \in Seq(Slot) /\ Len(a) \in Nat
  BY <1>1 DEF Cells
<1>5. w \in Seq(Slot) /\ Len(w) = Len(a) + 1
  BY <1>2, <1>4, Inserted
<1> HIDE DEF w
<1>6. g \in [Objs -> Cells] /\ g[l] = [heap[l] EXCEPT !.slots = w]
      /\ \A x \in Objs \ {l} : g[x] = heap[x]
  BY <1>1, <1>5 DEF Cells
<1>7. /\ g[l].slots = w
      /\ \A x \in Objs : /\ g[x].kind = heap[x].kind /\ g[x].pol = heap[x].pol
                         /\ g[x].rc = heap[x].rc /\ g[x].retained = heap[x].retained
                         /\ x # l => g[x].slots = heap[x].slots
  BY <1>1, <1>6 DEF Cells
<1>8. q \in Seq(Slot) /\ DOMAIN q = {1} /\ q[1] = s
  BY <1>2
<1> HIDE DEF g, q, h
<1>9. /\ h \in [Objs -> Cells] /\ Alike(g, h)
      /\ \A x \in Objs :
            /\ h[x].pol = g[x].pol
            /\ h[x].rc = (g[x].rc + Cardinality(CountedIn(g, q, x))) % RcMod
            /\ h[x].retained <=>
                  g[x].retained \/ \E j \in DOMAIN q : q[j] = [ref |-> x, pol |-> "DEL"]
  BY <1>6, <1>8, IncrGives DEF h
<1>10. Typed(h, <<>>)
  <2>1. \A x \in Objs : /\ Len(h[x].slots) <= MaxSlots + 4
                        /\ h[x].kind \in {"list", "stack"} => h[x].pol \in Policies
    <3>1. \A x \in Objs : Len(heap[x].slots) <= MaxSlots + 4
             /\ (heap[x].kind \in {"list", "stack"} => heap[x].pol \in Policies)
      BY <1>1 DEF Sound, Typed
    <3>2. Len(w) <= MaxSlots + 4
      BY <1>4, <1>5, RefsAssumption DEF a
    <3> QED
      BY <3>1, <3>2, <1>7, <1>9 DEF Alike
  <2> QED
    BY <2>1, <1>9 DEF Typed
<1>11. Inserts(heap, h, l, i, s)
  BY <1>1, <1>2, <1>7, <1>9, <1>10 DEF Inserts, Sound, Alike, w
<1>12. s.pol # "NOOP" => s.pol \in {"RC", "DEL"} /\ Welcome(heap, heap[l].kind, e, s.pol)
  <2>1. s.pol # "NOOP" => s.pol \in {"RC", "DEL"}
    BY <1>1, <1>2, RefsAssumption
  <2> QED
    BY <2>1, <1>2, MayReferWelcomes
<1>13. ASSUME NEW x \in Objs
       PROVE  h[x].rc = (heap[x].rc + IF s.ref = x /\ s.pol = "RC" THEN 1 ELSE 0) % RcMod
  <2>1. CASE s.ref = x /\ s.pol = "RC"
    <3>1. heap[x].kind # "free" /\ RefsIn(heap, <<>>, x, "DEL") = {}
      BY <2>1, <1>2, <1>12 DEF Welcome, OwningIn
    <3>2. ~ g[x].retained
      BY <3>1, <1>1, <1>7 DEF Sound, RetainedRight
    <3>3. s = [ref |-> x, pol |-> "RC"]
      BY <2>1, <1>2
    <3>4. CountedIn(g, q, x) = {1}
      BY <3>2, <3>3, <1>8 DEF CountedIn
    <3>5. Cardinality(CountedIn(g, q, x)) = 1
      BY <3>4, FS_Singleton
    <3> QED
      BY <2>1, <3>5, <1>7, <1>9
  <2>2. CASE ~ (s.ref = x /\ s.pol = "RC")
    <3>1. s # [ref |-> x, pol |-> "RC"]
      BY <2>2
    <3>2. CountedIn(g, q, x) = {}
      BY <3>1, <1>8 DEF CountedIn
    <3>3. Cardinality(CountedIn(g, q, x)) = 0
      BY <3>2, FS_EmptySet
    <3> QED
      BY <2>2, <3>3, <1>7, <1>9
  <2> QED
    BY <2>1, <2>2
<1>14. ASSUME NEW x \in Objs
       PROVE  h[x].retained <=> heap[x].retained \/ (s.ref = x /\ s.pol = "DEL")
  <2>1. s = [ref |-> x, pol |-> "DEL"] <=> s.ref = x /\ s.pol = "DEL"
    BY <1>2 DEF Slot
  <2> QED
    BY <2>1, <1>7, <1>8, <1>9
<1>15. Sound(h, <<>>)
  BY <1>1, <1>2, <1>11, <1>12, <1>13, <1>14, InsertingIsSound
<1> QED
  BY <1>15 DEF h, g, q, w

(* What no DEL container has is not retained. *)
LEMMA NotRetained ==
    ASSUME NEW h, Sound(h, <<>>), NEW e \in Objs, h[e].kind # "free",
           RefsIn(h, <<>>, e, "DEL") = {}
    PROVE  ~ h[e].retained
<1>1. \A f \in DOMAIN <<>> : <<>>[f].obj # e
  OBVIOUS
<1>2. h[e].retained <=> \E x \in RefsIn(h, <<>>, e, "DEL") : h[x[1]].kind # "env"
  BY <1>1 DEF Sound, RetainedRight
<1> QED
  BY <1>2

(* cee_list_remove and cee_stack_pop. *)
LEMMA TakingOutIsSound ==
    ASSUME CountersSuffice, RInv, Idle, NEW l \in Objs, heap[l].kind \in {"list", "stack"},
           NEW i \in DOMAIN heap[l].slots
    PROVE  Sound(Decr([heap EXCEPT ![l].slots = RemoveAt(@, i)], heap[l].slots[i]), <<>>)
<1> DEFINE a == heap[l].slots
           s == a[i]
           r == RemoveAt(a, i)
           g == [heap EXCEPT ![l].slots = r]
           h == Decr(g, s)
<1>1. Sound(heap, <<>>) /\ heap \in [Objs -> Cells] /\ heap[l].kind \notin {"free", "env"}
  BY DEF RInv, Idle, Sound, Typed
<1>2. a \in Seq(Slot) /\ i \in DOMAIN a /\ Len(a) \in Nat /\ Len(a) <= MaxSlots + 4
  BY <1>1 DEF Sound, Typed, Cells
<1>4. s \in Slot
  BY <1>2
<1>5. r \in Seq(Slot) /\ Len(r) = Len(a) - 1 /\ InsertAt(r, i, s) = a /\ i \in 1..Len(r) + 1
  BY <1>2, Removed, InsertUndoes
<1>6. s.ref \in Objs /\ s.pol \in {"RC", "DEL", "NOOP"}
  BY <1>4, RefsAssumption DEF Slot
<1>7. \A p \in {"RC", "DEL"} : s.pol = p => <<l, i>> \in RefsIn(heap, <<>>, s.ref, p)
  <2>1. <<l, i>> \in Places /\ <<l, i>>[1] = l /\ <<l, i>>[2] = i
    BY <1>2, RefsAssumption DEF Places
  <2> QED
    BY <2>1, <1>1, <1>2, <1>6, InRefs DEF Sound
<1> HIDE DEF s, r, a
<1>8. g \in [Objs -> Cells] /\ g[l] = [heap[l] EXCEPT !.slots = r]
      /\ \A x \in Objs \ {l} : g[x] = heap[x]
  BY <1>1, <1>5 DEF Cells
<1>9. /\ g[l].slots = r
      /\ \A x \in Objs : /\ g[x].kind = heap[x].kind /\ g[x].pol = heap[x].pol
                         /\ g[x].rc = heap[x].rc /\ g[x].retained = heap[x].retained
                         /\ x # l => g[x].slots = heap[x].slots
  BY <1>1, <1>8 DEF Cells
<1>10. s.pol = "RC" => ~ g[s.ref].retained /\ g[s.ref].rc > 0 /\ heap[s.ref].kind # "free"
  <2> SUFFICES ASSUME s.pol = "RC"
               PROVE  ~ g[s.ref].retained /\ g[s.ref].rc > 0 /\ heap[s.ref].kind # "free"
    OBVIOUS
  <2>1. <<l, i>> \in RefsIn(heap, <<>>, s.ref, "RC")
    BY <1>7
  <2>2. <<l, i>> \in CountingIn(heap, <<>>, s.ref)
    BY <2>1, <1>1 DEF CountingIn
  <2>3. heap[s.ref].kind # "free"
    BY <2>1, <1>1, <1>6 DEF Sound, OwnedIsLive, OwningIn
  <2>4. heap[s.ref].rc = Cardinality(CountingIn(heap, <<>>, s.ref))
    BY <2>3, <1>1, <1>6 DEF Sound, CountsRight
  <2>5. Cardinality(CountingIn(heap, <<>>, s.ref)) # 0
    BY <2>2, CountingFits, FS_EmptySet
  <2>6. heap[s.ref].rc > 0
    BY <2>4, <2>5, CountingFits
  <2>7. ASSUME NEW y \in RefsIn(heap, <<>>, s.ref, "DEL") PROVE FALSE
    <3>1. y = <<l, i>>
      BY <2>1, <1>1, <1>6 DEF Sound, LoneOwner, OwningIn
    <3> QED
      BY <3>1, <2>1 DEF RefsIn
  <2>8. ~ heap[s.ref].retained
    <3>1. RefsIn(heap, <<>>, s.ref, "DEL") = {}
      BY <2>7
    <3> QED
      BY <2>3, <3>1, <1>1, <1>6, NotRetained
  <2> QED
    BY <2>3, <2>6, <2>8, <1>6, <1>9
<1> HIDE DEF g
<1>11. h = CASE s.pol = "RC" -> [g EXCEPT ![s.ref].rc = @ - 1]
             [] s.pol = "DEL" -> [g EXCEPT ![s.ref].retained = FALSE]
             [] OTHER -> g
  BY <1>10 DEF Decr
<1>12. /\ h \in [Objs -> Cells] /\ Alike(g, h)
       /\ \A x \in Objs :
             /\ h[x].pol = g[x].pol
             /\ h[x].rc = g[x].rc - IF s.ref = x /\ s.pol = "RC" THEN 1 ELSE 0
             /\ h[x].retained <=> g[x].retained /\ ~ (s.ref = x /\ s.pol = "DEL")
  <2> HIDE DEF h
  <2>1. CASE s.pol = "RC"
    <3>1. h = [g EXCEPT ![s.ref].rc = @ - 1]
      BY <2>1, <1>11
    <3>2. g[s.ref].rc - 1 \in 0..RcMod - 1
      BY <2>1, <1>6, <1>8, <1>10, RefsAssumption DEF Cells
    <3>3. h[s.ref] = [g[s.ref] EXCEPT !.rc = @ - 1] /\ \A x \in Objs \ {s.ref} : h[x] = g[x]
      BY <3>1, <1>6, <1>8
    <3>4. /\ h[s.ref] \in Cells
          /\ h[s.ref].pol = g[s.ref].pol /\ h[s.ref].kind = g[s.ref].kind
          /\ h[s.ref].slots = g[s.ref].slots /\ h[s.ref].retained = g[s.ref].retained
          /\ h[s.ref].rc = g[s.ref].rc - 1
      BY ZenonT(40), <3>2, <3>3, <1>6, <1>8 DEF Cells
    <3>5. h \in [Objs -> Cells]
      BY <3>1, <3>3, <3>4, <1>8
    <3>6. \A x \in Objs : g[x].rc \in Int
      BY <1>8, RefsAssumption DEF Cells
    <3>7. \A x \in Objs : h[x].rc = g[x].rc - IF s.ref = x THEN 1 ELSE 0
      <4>1. \A x \in Objs \ {s.ref} : h[x].rc = g[x].rc /\ h[x].rc - 0 = g[x].rc
        BY <3>3, <3>6
      <4>2. \A x \in Objs : x = s.ref => h[x].rc = g[x].rc - 1
        BY <3>4
      <4>3. \A x \in Objs : g[x].rc - 0 = g[x].rc
        BY <3>6
      <4> QED
        BY <4>1, <4>2, <4>3
    <3>8. \A x \in Objs : h[x].kind = g[x].kind /\ h[x].slots = g[x].slots
                         /\ h[x].pol = g[x].pol /\ h[x].retained = g[x].retained
      BY <3>3, <3>4
    <3> QED
      BY <3>5, <3>7, <3>8, <2>1 DEF Alike
  <2>2. CASE s.pol = "DEL"
    <3>1. h = [g EXCEPT ![s.ref].retained = FALSE]
      BY <2>2, <1>11
    <3>2. h[s.ref] = [g[s.ref] EXCEPT !.retained = FALSE] /\ \A x \in Objs \ {s.ref} : h[x] = g[x]
      BY <3>1, <1>6, <1>8
    <3>3. /\ h[s.ref] \in Cells
          /\ h[s.ref].pol = g[s.ref].pol /\ h[s.ref].kind = g[s.ref].kind
          /\ h[s.ref].slots = g[s.ref].slots /\ h[s.ref].rc = g[s.ref].rc
          /\ h[s.ref].retained = FALSE
      BY ZenonT(40), <3>2, <1>6, <1>8 DEF Cells
    <3>4. h \in [Objs -> Cells]
      BY <3>1, <3>2, <3>3, <1>8
    <3>5. \A x \in Objs : g[x].rc \in Int
      BY <1>8, RefsAssumption DEF Cells
    <3>6. \A x \in Objs : h[x].retained <=> g[x].retained /\ ~ (s.ref = x /\ s.pol = "DEL")
      BY <3>2, <3>3, <2>2
    <3>7. \A x \in Objs : h[x].kind = g[x].kind /\ h[x].slots = g[x].slots
                         /\ h[x].pol = g[x].pol /\ h[x].rc = g[x].rc
      BY <3>2, <3>3
    <3> QED
      BY <3>4, <3>5, <3>6, <3>7, <2>2 DEF Alike
  <2>3. CASE s.pol = "NOOP"
    <3>1. h = g
      BY <2>3, <1>11
    <3>2. \A x \in Objs : g[x].rc \in Int
      BY <1>8, RefsAssumption DEF Cells
    <3> QED
      BY <3>1, <3>2, <2>3, <1>8 DEF Alike
  <2> QED
    BY <2>1, <2>2, <2>3, <1>6
<1> HIDE DEF h
<1>13. Typed(h, <<>>)
  <2>1. \A x \in Objs : /\ Len(h[x].slots) <= MaxSlots + 4
                        /\ h[x].kind \in {"list", "stack"} => h[x].pol \in Policies
    <3>1. \A x \in Objs : Len(heap[x].slots) <= MaxSlots + 4
             /\ (heap[x].kind \in {"list", "stack"} => heap[x].pol \in Policies)
      BY <1>1 DEF Sound, Typed
    <3>2. Len(r) <= MaxSlots + 4
      BY <1>2, <1>5, RefsAssumption
    <3> QED
      BY <3>1, <3>2, <1>9, <1>12 DEF Alike
  <2> QED
    BY <2>1, <1>12 DEF Typed
<1>14. Inserts(h, heap, l, i, s)
  <2>1. h[l].slots = r /\ \A x \in Objs : h[x].kind = heap[x].kind
                                       /\ (x # l => h[x].slots = heap[x].slots)
    BY <1>9, <1>12 DEF Alike
  <2>2. heap[l].slots = InsertAt(h[l].slots, i, s) /\ i \in 1..Len(h[l].slots) + 1
    BY <2>1, <1>5 DEF a
  <2> QED
    BY <2>1, <2>2, <1>1, <1>4, <1>13 DEF Inserts, Sound
<1>15. Sound(h, <<>>)
  BY <1>1, <1>9, <1>12, <1>14, RemovingIsSound
<1> QED
  BY <1>15 DEF h, g, r, s, a

-----------------------------------------------------------------------------
(* The steps of a deletion. *)

(* The place the innermost call looks at. *)
Place == <<frames[Len(frames)].obj, frames[Len(frames)].at>>

(* What cee_del looks at while it walks through a container. *)
LEMMA TopLooks ==
    ASSUME RInv, NEW p, AtElement(p)
    PROVE  /\ Sound(heap, frames) /\ Looks(heap, frames, Place)
           /\ Current = heap[Place[1]].slots[Place[2]]
           /\ Current \in Slot /\ Current.ref \in Objs /\ Current.pol = p
           /\ Advanced = Advance(frames) /\ \A e : Call(e) = Enter(frames, e)
<1>1. Sound(heap, frames)
  BY DEF RInv
<1>2. frames # <<>> /\ Top = frames[Len(frames)] /\ Top.at <= Len(heap[Top.obj].slots) /\ Current.pol = p
  BY DEF AtElement, Idle, Top, Last
<1>3. Looks(heap, frames, Place)
  BY <1>2 DEF Looks, Place
<1>4. Place[1] = Top.obj /\ Place[2] = Top.at
  BY <1>2 DEF Place
<1>5. Current = heap[Place[1]].slots[Place[2]]
  BY <1>4 DEF Current
<1>6. Current \in Slot
  BY <1>1, <1>3, <1>5, LooksAt
<1>7. Current.ref \in Objs
  BY <1>6 DEF Slot
<1>8. Advanced = Advance(frames) /\ \A e : Call(e) = Enter(frames, e)
  BY DEF Advanced, Advance, Call, Enter
<1> QED
  BY <1>1, <1>2, <1>3, <1>5, <1>6, <1>7, <1>8

(* DelNoop: del_e passes over an element its container does not own. *)
LEMMA NoopGoesOn ==
    ASSUME RInv, DelNoop PROVE GoesOn(heap, frames, heap', frames', Place)
<1>1. AtElement("NOOP") /\ frames' = Advanced /\ heap' = heap
  BY DEF DelNoop
<1> DEFINE x == Place
<1>2. /\ Sound(heap, frames) /\ Looks(heap, frames, x) /\ frames' = Advance(frames)
      /\ heap[x[1]].slots[x[2]].pol = "NOOP"
  BY <1>1, TopLooks
<1> HIDE DEF x
<1>3. \A e \in Objs, p \in {"RC", "DEL"} : x \notin RefsIn(heap, frames, e, p)
  BY <1>2, LooksAt
<1>4. \A e \in Objs : x \notin CountingIn(heap, frames, e)
  BY <1>3 DEF CountingIn
<1>5. heap \in [Objs -> Cells] /\ Alike(heap, heap) /\ \A e \in Objs : heap[e].rc = heap[e].rc - 0
  BY <1>2, RefsAssumption DEF Sound, Typed, Alike, Cells
<1>6. \A e \in Objs : x \notin RefsIn(heap, frames, e, "DEL") /\ OwningIn(heap, frames, e) # {x}
  BY <1>3 DEF OwningIn
<1>7. GoesOn(heap, frames, heap, Advance(frames), x)
  BY <1>2, <1>4, <1>5, <1>6 DEF GoesOn
<1> QED
  BY <1>1, <1>2, <1>7 DEF x

(* DelOwned: the element of a DEL container goes with its container. *)
LEMMA OwnedGoesOn ==
    ASSUME RInv, DelOwned PROVE GoesOn(heap, frames, heap', frames', Place)
<1> DEFINE x == Place
           b == Current.ref
<1>1. AtElement("DEL") /\ frames' = Call(b) /\ heap' = heap
  BY DEF DelOwned
<1>2. /\ Sound(heap, frames) /\ Looks(heap, frames, x) /\ frames' = Enter(frames, b) /\ b \in Objs
      /\ heap[x[1]].slots[x[2]].ref = b /\ heap[x[1]].slots[x[2]].pol = "DEL"
  BY <1>1, TopLooks
<1> HIDE DEF x, b
<1>3. x \in RefsIn(heap, frames, b, "DEL") /\ \A e \in Objs : x \notin RefsIn(heap, frames, e, "RC")
  BY <1>2, LooksAt
<1>4. OwningIn(heap, frames, b) = {x}
  <2>1. x \in OwningIn(heap, frames, b)
    BY <1>3 DEF OwningIn
  <2>2. \A y \in OwningIn(heap, frames, b) : x = y
    BY <2>1, <1>2, <1>3 DEF Sound, LoneOwner
  <2> QED
    BY <2>1, <2>2
<1>5. heap \in [Objs -> Cells] /\ Alike(heap, heap) /\ \A e \in Objs : heap[e].rc = heap[e].rc - 0
  BY <1>2, RefsAssumption DEF Sound, Typed, Alike, Cells
<1>6. \A e \in Objs : x \notin CountingIn(heap, frames, e)
  BY <1>3 DEF CountingIn
<1>7. GoesOn(heap, frames, heap, Enter(frames, b), x)
  BY <1>2, <1>4, <1>5, <1>6 DEF GoesOn
<1> QED
  BY <1>1, <1>2, <1>7 DEF x

(* DelCounted: in_degree falls, and at 0 an element not retained goes. *)
LEMMA CountedGoesOn ==
    ASSUME CountersSuffice, RInv, DelCounted
    PROVE  GoesOn(heap, frames, heap', frames', Place)
<1> DEFINE x == Place
           b == Current.ref
           n == IF heap[b].rc > 0 THEN heap[b].rc - 1 ELSE 0
           k == [heap EXCEPT ![b].rc = n]
<1>1. AtElement("RC") /\ heap' = k
      /\ frames' = IF heap[b].retained \/ n > 0 THEN Advanced ELSE Call(b)
  BY DEF DelCounted
<1>2. /\ Sound(heap, frames) /\ Looks(heap, frames, x) /\ b \in Objs
      /\ frames' = IF heap[b].retained \/ n > 0 THEN Advance(frames) ELSE Enter(frames, b)
      /\ heap[x[1]].slots[x[2]].ref = b /\ heap[x[1]].slots[x[2]].pol = "RC"
  BY <1>1, TopLooks
<1>3. heap \in [Objs -> Cells] /\ \A e \in Objs : heap[e].rc \in Nat /\ heap[e].rc < RcMod
  BY <1>2, RefsAssumption DEF Sound, Typed, Cells
<1>4. n \in 0..RcMod - 1
  BY <1>2, <1>3, RefsAssumption
<1> HIDE DEF x, b, n
<1>5. k = [heap EXCEPT ![b] = [heap[b] EXCEPT !.rc = n]]
  OBVIOUS
<1> HIDE DEF k
<1>6. k[b] \in Cells /\ k[b].rc = n /\ k[b].kind = heap[b].kind /\ k[b].slots = heap[b].slots
      /\ k[b].pol = heap[b].pol /\ k[b].retained = heap[b].retained
      /\ k \in [Objs -> Cells] /\ \A e \in Objs \ {b} : k[e] = heap[e]
  <2>1. heap[b] \in Cells
    BY <1>2, <1>3
  <2> DEFINE r == [heap[b] EXCEPT !.rc = n]
  <2>2. r \in Cells /\ r.rc = n /\ r.kind = heap[b].kind /\ r.slots = heap[b].slots
        /\ r.pol = heap[b].pol /\ r.retained = heap[b].retained
    BY <2>1, <1>4 DEF Cells
  <2>3. k = [heap EXCEPT ![b] = r]
    BY <1>5
  <2> HIDE DEF r
  <2>4. k[b] = r /\ k \in [Objs -> Cells] /\ \A e \in Objs \ {b} : k[e] = heap[e]
    BY <2>2, <2>3, <1>2, <1>3
  <2> QED
    BY <2>2, <2>4
<1>7. k \in [Objs -> Cells] /\ \A e \in Objs \ {b} : k[e] = heap[e]
  BY <1>6
<1>8. Alike(heap, k) /\ \A o \in Objs : k[o].pol = heap[o].pol /\ k[o].retained = heap[o].retained
  BY <1>6, <1>7 DEF Alike
<1>9. x \in RefsIn(heap, frames, b, "RC")
      /\ (\A e \in Objs : x \notin RefsIn(heap, frames, e, "DEL"))
      /\ (\A e \in Objs : x \in RefsIn(heap, frames, e, "RC") => e = b)
  BY <1>2, LooksAt
<1>10. RefsIn(heap, frames, b, "DEL") = {}
  BY <1>2, <1>9 DEF Sound, LoneOwner, OwningIn
<1>11. heap[b].kind # "free" /\ heap[b].rc = Cardinality(CountingIn(heap, frames, b))
  BY <1>2, <1>9 DEF Sound, OwnedIsLive, CountsRight, OwningIn
<1>12. ~ heap[b].retained
  <2>1. \A f \in DOMAIN frames : frames[f].obj # b
    BY <1>2, <1>9 DEF Sound, BeingDeleted, OwningIn
  <2> QED
    BY <2>1, <1>2, <1>10, <1>11 DEF Sound, RetainedRight
<1>13. \A e \in Objs : x \in CountingIn(heap, frames, e) <=> e = b /\ heap[x[1]].kind # "env"
  BY <1>9 DEF CountingIn
<1>14. n = heap[b].rc - IF x \in CountingIn(heap, frames, b) THEN 1 ELSE 0
  <2>1. CASE x \in CountingIn(heap, frames, b)
    <3>1. Cardinality(CountingIn(heap, frames, b)) # 0
      BY <2>1, CountingFits, FS_EmptySet
    <3> QED
      BY <3>1, <2>1, <1>2, <1>3, <1>11 DEF n
  <2>2. CASE x \notin CountingIn(heap, frames, b)
    <3>1. heap[x[1]].kind = "env"
      BY <2>2, <1>2, <1>13
    <3>2. \A y \in OwningIn(heap, frames, b) : x = y
      BY <3>1, <1>2, <1>9 DEF Sound, LoneOwner, OwningIn
    <3>3. CountingIn(heap, frames, b) = {}
      BY <2>2, <3>2 DEF CountingIn, OwningIn
    <3>4. heap[b].rc = 0
      BY <3>3, <1>11, FS_EmptySet
    <3>5. n = 0 /\ heap[b].rc - 0 = 0
      BY <3>4 DEF n
    <3> QED
      BY <3>4, <3>5, <2>2
  <2> QED
    BY <2>1, <2>2
<1>15. \A e \in Objs : k[e].rc = heap[e].rc - IF x \in CountingIn(heap, frames, e) THEN 1 ELSE 0
  <2>1. \A e \in Objs \ {b} : k[e].rc = heap[e].rc /\ heap[e].rc - 0 = heap[e].rc
    BY <1>3, <1>7
  <2> QED
    BY <2>1, <1>6, <1>13, <1>14
<1>16. n = 0 => OwningIn(heap, frames, b) = {x}
  <2> SUFFICES ASSUME n = 0, NEW y \in OwningIn(heap, frames, b) PROVE y = x
    BY <1>9 DEF OwningIn
  <2>1. y \in RefsIn(heap, frames, b, "RC")
    BY <1>10 DEF OwningIn
  <2>2. CASE heap[y[1]].kind = "env" \/ heap[x[1]].kind = "env"
    BY <2>1, <2>2, <1>2, <1>9 DEF Sound, LoneOwner, OwningIn
  <2>3. CASE heap[y[1]].kind # "env" /\ heap[x[1]].kind # "env"
    <3> DEFINE C == CountingIn(heap, frames, b)
    <3>1. x \in C /\ y \in C
      BY <2>1, <2>3, <1>9 DEF CountingIn
    <3>2. IsFiniteSet(C) /\ Cardinality(C) = 1
      BY <3>1, <1>3, <1>2, <1>11, <1>14, CountingFits
    <3> HIDE DEF C
    <3>3. PICK z : C = {z}
      BY <3>2, FS_Singleton
    <3> QED
      BY <3>1, <3>3
  <2> QED
    BY <2>2, <2>3
<1>17. n > 0 => \A e \in Objs : OwningIn(heap, frames, e) # {x}
  <2> SUFFICES ASSUME n > 0, NEW e \in Objs, OwningIn(heap, frames, e) = {x} PROVE FALSE
    OBVIOUS
  <2> DEFINE C == CountingIn(heap, frames, b)
  <2>1. e = b
    BY <1>9 DEF OwningIn
  <2>2. C \subseteq {x}
    BY <2>1 DEF CountingIn, OwningIn
  <2>3. heap[b].rc = Cardinality(C) /\ n = heap[b].rc - IF x \in C THEN 1 ELSE 0
    BY <1>11, <1>14
  <2> HIDE DEF C
  <2>4. CASE x \in C
    <3>1. C = {x}
      BY <2>2, <2>4
    <3>2. Cardinality(C) = 1
      BY <3>1, FS_Singleton
    <3> QED
      BY <2>3, <2>4, <3>2
  <2>5. CASE x \notin C
    <3>1. C = {}
      BY <2>2, <2>5
    <3>2. Cardinality(C) = 0
      BY <3>1, FS_EmptySet
    <3> QED
      BY <2>3, <2>5, <3>2
  <2> QED
    BY <2>4, <2>5
<1>18. CASE n > 0
  <2>1. frames' = Advance(frames)
    BY <1>2, <1>18
  <2>2. \A e \in Objs : x \notin RefsIn(heap, frames, e, "DEL") /\ OwningIn(heap, frames, e) # {x}
    BY <1>9, <1>17, <1>18
  <2>3. GoesOn(heap, frames, k, Advance(frames), x)
    BY <1>2, <1>7, <1>8, <1>15, <2>2 DEF GoesOn
  <2> QED
    BY <2>1, <2>3, <1>1 DEF x
<1>19. CASE n = 0
  <2>1. frames' = Enter(frames, b)
    BY <1>2, <1>12, <1>19
  <2>2. GoesOn(heap, frames, k, Enter(frames, b), x)
    BY <1>2, <1>7, <1>8, <1>15, <1>16, <1>19 DEF GoesOn
  <2> QED
    BY <2>1, <2>2, <1>1 DEF x
<1> QED
  BY <1>4, <1>18, <1>19

(* DelDone: the block is freed and the deletion returns to its caller. *)
LEMMA DoneReturns ==
    ASSUME RInv, DelDone PROVE Returns(heap, frames, heap', frames', frames[Len(frames)].obj)
<1>1. frames # <<>> /\ Top = frames[Len(frames)] /\ Top.at > Len(heap[Top.obj].slots)
      /\ heap' = [heap EXCEPT ![Top.obj] = Free] /\ frames' = Front(frames)
  BY DEF DelDone, Idle, Top, Last
<1> QED
  BY <1>1 DEF Returns

-----------------------------------------------------------------------------
(* The invariant holds initially. *)
LEMMA InitSound == Init => RInv
<1> SUFFICES ASSUME Init PROVE RInv
  OBVIOUS
<1>1. Free \in Cells /\ Free.kind = "free" /\ Len(Free.slots) = 0
  BY RefsAssumption DEF Free, Cells
<1>2. heap \in [Objs -> Cells] /\ \A o \in Objs : heap[o] = Free
  BY <1>1 DEF Init
<1>3. frames = <<>>
  BY DEF Init
<1>4. \A e, p : RefsIn(heap, <<>>, e, p) = {}
  BY <1>1, <1>2 DEF RefsIn
<1>5. Typed(heap, <<>>)
  BY <1>1, <1>2, RefsAssumption DEF Typed
<1>6. OwnedIsLive(heap, <<>>) /\ CountsRight(heap, <<>>) /\ RetainedRight(heap, <<>>)
      /\ LoneOwner(heap, <<>>) /\ BeingDeleted(heap, <<>>)
  BY <1>1, <1>2, <1>4 DEF OwnedIsLive, CountsRight, RetainedRight, LoneOwner, BeingDeleted, OwningIn
<1> QED
  BY <1>3, <1>5, <1>6 DEF RInv, Sound

(* Every step keeps it. *)
LEMMA NextSound ==
    ASSUME Freedoms = {}, CountersSuffice, RInv, [Next]_vars PROVE RInv'
<1>0. MaxSlots \in Nat
  BY RefsAssumption
<1>1. CASE UNCHANGED vars
  BY <1>1 DEF vars, RInv
<1>2. ASSUME NEW o \in Objs, MkBox(o) PROVE RInv'
  BY <1>2, EmptyIsSound DEF MkBox, RInv, Idle
<1>3. ASSUME NEW o \in Objs, Del(o) PROVE RInv'
  <2>1. Sound(heap, <<>>) /\ heap[o].kind # "free" /\ OwningIn(heap, <<>>, o) = {}
    BY <1>3, RefsNow DEF Del, RInv, Idle, Live
  <2>2. heap' = heap /\ frames' = <<[obj |-> o, at |-> 1]>>
    BY <1>3 DEF Del
  <2> QED
    BY <2>1, <2>2, StartingIsSound DEF RInv
<1>4. ASSUME NEW o \in Objs, NEW k \in {"list", "stack"}, NEW p \in Policies, MkSequence(o, k, p)
      PROVE  RInv'
  BY <1>4, EmptyIsSound DEF MkSequence, RInv, Idle
<1>5. ASSUME NEW o \in Objs, MkTagged(o) \/ MkTuple(o) \/ MkTriple(o) \/ MkQuadruple(o) \/ MkNTuple(o)
      PROVE  RInv'
  <2>1. PICK n \in Nat : n <= MaxSlots + 4 /\ \E s \in Fillings(n, "product") : MkProduct(o, s)
    BY <1>0, <1>5 DEF MkTagged, MkTuple, MkTriple, MkQuadruple, MkNTuple
  <2>2. PICK s \in Fillings(n, "product") : MkProduct(o, s)
    BY <2>1
  <2>3. s \in Seq(Slot) /\ Len(s) <= MaxSlots + 4
    BY <2>1, FillingsAre
  <2> QED
    BY <2>2, <2>3, ProductIsSound
<1>6. ASSUME NEW o \in Objs, NEW n \in 1..2, NEW s \in Fillings(n, "env"), MkEnv(o, s)
      PROVE  RInv'
  <2>1. n \in Nat /\ n <= MaxSlots + 4
    BY <1>0
  <2>2. s \in Seq(Slot) /\ Len(s) <= MaxSlots + 4
    BY <2>1, FillingsAre
  <2> QED
    BY <2>2, <1>6, EnvIsSound
<1>7. ASSUME NEW l \in Live, NEW e \in Live, NEW i \in 1..Len(heap[l].slots) + 1, Insert(l, i, e)
      PROVE  RInv'
  <2> DEFINE s == [ref |-> e, pol |-> heap[l].pol]
  <2>1. l \in Objs /\ e \in Objs /\ frames = <<>> /\ frames' = <<>> /\ Idle /\ heap[l].kind = "list"
        /\ Len(heap[l].slots) < MaxSlots /\ MayRefer(heap[l].kind, e, heap[l].pol)
        /\ heap' = Incr([heap EXCEPT ![l].slots = InsertAt(@, i, s)], <<s>>)
    BY <1>7 DEF Insert, Idle, Live
  <2> HIDE DEF s
  <2>2. Sound(Incr([heap EXCEPT ![l].slots = InsertAt(@, i, s)], <<s>>), <<>>)
    BY <2>1, PuttingInIsSound DEF s
  <2> QED
    BY <2>1, <2>2 DEF RInv
<1>8. ASSUME NEW l \in Live, NEW i \in DOMAIN heap[l].slots, RemoveElement(l, i)
      PROVE  RInv'
  <2>1. l \in Objs /\ frames' = <<>> /\ Idle /\ heap[l].kind = "list"
        /\ heap' = Decr([heap EXCEPT ![l].slots = RemoveAt(@, i)], heap[l].slots[i])
    BY <1>8 DEF RemoveElement, Idle, Live
  <2>2. Sound(Decr([heap EXCEPT ![l].slots = RemoveAt(@, i)], heap[l].slots[i]), <<>>)
    BY <2>1, TakingOutIsSound
  <2> QED
    BY <2>1, <2>2 DEF RInv
<1>9. ASSUME NEW l \in Live, NEW e \in Live, Push(l, e) PROVE RInv'
  <2> DEFINE s == [ref |-> e, pol |-> heap[l].pol]
             a == heap[l].slots
  <2>1. l \in Objs /\ e \in Objs /\ frames = <<>> /\ frames' = <<>> /\ Idle /\ heap[l].kind = "stack"
        /\ Len(a) < MaxSlots /\ MayRefer(heap[l].kind, e, heap[l].pol)
        /\ heap' = Incr([heap EXCEPT ![l].slots = Append(a, s)], <<s>>)
    BY <1>9 DEF Push, Idle, Live
  <2>2. a \in Seq(Slot) /\ s \in Slot /\ Len(a) + 1 \in 1..Len(a) + 1
    <3>1. a \in Seq(Slot) /\ heap[l].pol \in Policies
      BY <2>1 DEF RInv, Sound, Typed, Cells
    <3>2. Len(a) \in Nat
      BY <3>1
    <3> QED
      BY <2>1, <3>1, <3>2 DEF Slot
  <2>3. Append(a, s) = InsertAt(a, Len(a) + 1, s)
    BY <2>2, AtTheEnd
  <2> HIDE DEF s
  <2>4. Sound(Incr([heap EXCEPT ![l].slots = InsertAt(a, Len(a) + 1, s)], <<s>>), <<>>)
    BY <2>1, <2>2, PuttingInIsSound DEF s
  <2> QED
    BY <2>1, <2>3, <2>4 DEF RInv
<1>10. ASSUME NEW l \in Live, Pop(l) PROVE RInv'
  <2> DEFINE a == heap[l].slots
  <2>1. l \in Objs /\ frames' = <<>> /\ Idle /\ heap[l].kind = "stack" /\ a # <<>>
        /\ heap' = Decr([heap EXCEPT ![l].slots = Front(a)], Last(a))
    BY <1>10 DEF Pop, Idle, Live
  <2>2. a \in Seq(Slot) /\ Slot # {}
    <3>1. a \in Seq(Slot)
      BY <2>1 DEF RInv, Sound, Typed, Cells
    <3>2. heap[l].pol \in Policies
      BY <2>1 DEF RInv, Sound, Typed
    <3>3. [ref |-> l, pol |-> heap[l].pol] \in Slot
      BY <2>1, <3>2 DEF Slot
    <3> QED
      BY <3>1, <3>3
  <2>3. Front(a) = RemoveAt(a, Len(a)) /\ Last(a) = a[Len(a)] /\ Len(a) \in DOMAIN a
    BY <2>1, <2>2, AtTheEnd
  <2>4. Sound(Decr([heap EXCEPT ![l].slots = RemoveAt(a, Len(a))], a[Len(a)]), <<>>)
    BY <2>1, <2>3, TakingOutIsSound
  <2> QED
    BY <2>1, <2>3, <2>4 DEF RInv
<1>11. ASSUME GoesOn(heap, frames, heap', frames', Place) PROVE RInv'
  BY <1>11, GoingOnIsSound DEF RInv
<1>12. ASSUME DelDone PROVE RInv'
  BY <1>12, DoneReturns, ReturningIsSound DEF RInv
<1>13. CASE DelStep
  BY <1>11, <1>12, <1>13, NoopGoesOn, OwnedGoesOn, CountedGoesOn DEF DelStep
<1> QED
  BY <1>1, <1>2, <1>3, <1>4, <1>5, <1>6, <1>7, <1>8, <1>9, <1>10, <1>13 DEF Next

(* What the invariant says in the words of CeeRefs. *)
LEMMA SoundIsSafe == RInv => DeletionSafe /\ CountsExact
<1> SUFFICES ASSUME RInv PROVE DeletionSafe /\ CountsExact
  OBVIOUS
<1>1. Sound(heap, frames)
  BY DEF RInv
<1>2. TypeOK
  BY <1>1 DEF Sound, Typed, TypeOK, Cells, Calls
<1>3. NoDanglingElement
  <2> SUFFICES ASSUME NEW o \in Live, NEW i \in Held(o), heap[o].slots[i].pol # "NOOP"
               PROVE  heap[o].slots[i].ref \in Live
    BY DEF NoDanglingElement
  <2> DEFINE s == heap[o].slots
             x == <<o, i>>
  <2>1. o \in Objs /\ heap[o].kind # "free" /\ s \in Seq(Slot) /\ Len(s) <= MaxSlots + 4
        /\ i \in DOMAIN s
    BY <1>1 DEF Sound, Typed, Cells, Live, Held
  <2>2. i \in 1..MaxSlots + 4 /\ s[i] \in Slot
    BY <2>1, RefsAssumption
  <2>3. s[i].ref \in Objs /\ s[i].pol \in {"RC", "DEL"} /\ s[i] = [ref |-> s[i].ref, pol |-> s[i].pol]
    BY <2>2, RefsAssumption DEF Slot
  <2>4. x \in {q \in Objs : heap[q].kind # "free"} \X (1..MaxSlots + 4) /\ x[1] = o /\ x[2] = i
    BY <2>1, <2>2
  <2>5. \A f \in DOMAIN frames : frames[f].obj = o => i >= frames[f].at
    BY DEF Held
  <2> HIDE DEF x
  <2>6. x \in RefsIn(heap, frames, s[i].ref, s[i].pol)
    BY <2>1, <2>3, <2>4, <2>5 DEF RefsIn
  <2> QED
    BY <2>3, <2>6, <1>1 DEF Sound, OwnedIsLive, OwningIn, Live
<1>4. NoDoubleDelete
  <2>1. \A f \in DOMAIN frames : frames[f].obj \in Objs
    <3>1. frames \in Seq(Calls)
      BY <1>1 DEF Sound, Typed
    <3>2. \A f \in DOMAIN frames : frames[f] \in Calls
      BY <3>1
    <3> QED
      BY <3>2 DEF Calls
  <2> QED
    BY <2>1, <1>1 DEF Sound, BeingDeleted, NoDoubleDelete, Live
<1>5. InDegreeIsOwners
  <2> SUFFICES ASSUME NEW e \in Live
               PROVE  heap[e].rc = Cardinality({x \in RefsTo(e, "RC") : heap[x[1]].kind # "env"})
    BY DEF InDegreeIsOwners
  <2>1. {x \in RefsTo(e, "RC") : heap[x[1]].kind # "env"} = CountingIn(heap, frames, e)
    BY RefsNow DEF CountingIn
  <2> QED
    BY <2>1, <1>1 DEF Sound, CountsRight, Live
<1>6. RetainedIsOwned
  BY <1>1, RefsNow DEF Sound, RetainedRight, RetainedIsOwned, Live
<1> QED
  BY <1>2, <1>3, <1>4, <1>5, <1>6 DEF DeletionSafe, CountsExact

(* A program that keeps RC and DEL owners apart and gives what an env      *)
(* refers to no other owner meets, in every deletion, allocated objects    *)
(* only, and each of them once.                                            *)
THEOREM DeletionMeetsLiveObjectsOnce ==
    ASSUME Freedoms = {}, CountersSuffice
    PROVE  Spec => []DeletionSafe
<1>1. RInv /\ [Next]_vars => RInv'
  BY NextSound
<1> QED
  BY InitSound, <1>1, SoundIsSafe, PTL DEF Spec

(* For such a program in_degree of an object that no DEL container has is  *)
(* at any time the number of counting references, and an object is retained*)
(* exactly while a counting DEL container has it.                          *)
THEOREM InDegreeCountsReferences ==
    ASSUME Freedoms = {}, CountersSuffice
    PROVE  Spec => []CountsExact
<1>1. RInv /\ [Next]_vars => RInv'
  BY NextSound
<1> QED
  BY InitSound, <1>1, SoundIsSafe, PTL DEF Spec

-----------------------------------------------------------------------------
(***************************************************************************)
(* The refinement of CeeOwnership.  What a deletion in progress is going   *)
(* to free is the least set closed under ownership (DoomedIn), so each     *)
(* step is one question: does it change which sets are closed?  Looking at *)
(* an element gives up one reference, held by an object that is in every   *)
(* closed set; returning takes an object without references out of all of  *)
(* them.                                                                   *)
(***************************************************************************)

(* Allocated objects, objects being deleted, and the owners of an object.  *)
LiveIn(h) == {o \in Objs : h[o].kind # "free"}
CalledIn(c) == {c[f].obj : f \in DOMAIN c}
HoldersIn(h, c, e) == {x[1] : x \in OwningIn(h, c, e)}

(* A set that deletion may not leave: it has the objects that are being    *)
(* deleted and whatever only objects of the set own.                       *)
ClosedIn(h, c, S) ==
    /\ CalledIn(c) \subseteq S
    /\ \A e \in LiveIn(h) \ S : HoldersIn(h, c, e) \ S # {} \/ HoldersIn(h, c, e) = {}

(* The least such set: what the deletions in progress free.                *)
DoomedIn(h, c) ==
    {e \in LiveIn(h) : \A S \in SUBSET LiveIn(h) : ClosedIn(h, c, S) => e \in S}

(* The owners of e in a set of pairs of owner and owned.                   *)
OwnersOf(owns, e) == {x[1] : x \in {y \in owns : y[2] = e}}

(* The least closed set of CeeOwnership is the one defined here.           *)
LEMMA CondemnedAreDoomed ==
    ASSUME NEW h, NEW c, NEW owns,
           \A e \in LiveIn(h) : OwnersOf(owns, e) = HoldersIn(h, c, e)
    PROVE  /\ Heap!Condemned(LiveIn(h), owns, CalledIn(c)) = DoomedIn(h, c)
           /\ Ownership!Condemned(LiveIn(h), owns, CalledIn(c)) = DoomedIn(h, c)
<1>1. \A S : ClosedIn(h, c, S) <=>
        /\ CalledIn(c) \subseteq S
        /\ \A e \in LiveIn(h) \ S : OwnersOf(owns, e) \ S # {} \/ OwnersOf(owns, e) = {}
  BY DEF ClosedIn
<1>2. Heap!Condemned(LiveIn(h), owns, CalledIn(c)) = DoomedIn(h, c)
  BY <1>1 DEF Heap!Condemned, DoomedIn, OwnersOf
<1>3. Ownership!Condemned(LiveIn(h), owns, CalledIn(c)) = DoomedIn(h, c)
  BY <1>1 DEF Ownership!Condemned, DoomedIn, OwnersOf
<1> QED
  BY <1>2, <1>3

(* OwnsNow relates an object to the holders of its owning references.      *)
LEMMA OwnersNow ==
    ASSUME RInv, NEW e \in Objs
    PROVE  OwnersOf(OwnsNow, e) = HoldersIn(heap, frames, e)
<1>1. ASSUME NEW a \in OwnersOf(OwnsNow, e) PROVE a \in HoldersIn(heap, frames, e)
  <2>1. a \in Live /\ \E i \in Held(a) : heap[a].slots[i].pol # "NOOP" /\ heap[a].slots[i].ref = e
    BY DEF OwnersOf, OwnsNow
  <2>2. PICK i \in Held(a) : heap[a].slots[i].pol # "NOOP" /\ heap[a].slots[i].ref = e
    BY <2>1
  <2>3. i \in DOMAIN heap[a].slots /\ i \in 1..MaxSlots + 4 /\ heap[a].slots[i] \in Slot
    <3>1. heap[a].slots \in Seq(Slot) /\ Len(heap[a].slots) <= MaxSlots + 4
      BY <2>1 DEF RInv, Sound, Typed, Cells, Live
    <3> QED
      BY <3>1, <2>2, RefsAssumption DEF Held
  <2>4. PICK p \in {"RC", "DEL"} : heap[a].slots[i] = [ref |-> e, pol |-> p]
    BY <2>2, <2>3, RefsAssumption DEF Slot
  <2> DEFINE x == <<a, i>>
  <2>5. x[1] = a /\ x[2] = i /\ x \in {o \in Objs : heap[o].kind # "free"} \X (1..MaxSlots + 4)
    BY <2>1, <2>3 DEF Live
  <2> HIDE DEF x
  <2>6. x \in RefsIn(heap, frames, e, p)
    BY <2>2, <2>3, <2>4, <2>5 DEF RefsIn, Held
  <2> QED
    BY <2>5, <2>6 DEF HoldersIn, OwningIn
<1>2. ASSUME NEW x \in OwningIn(heap, frames, e) PROVE x[1] \in OwnersOf(OwnsNow, e)
  <2>1. /\ x[1] \in Live /\ x[2] \in Held(x[1])
        /\ heap[x[1]].slots[x[2]].ref = e /\ heap[x[1]].slots[x[2]].pol # "NOOP"
    BY DEF OwningIn, RefsIn, Live, Held
  <2> DEFINE y == <<x[1], heap[x[1]].slots[x[2]].ref>>
  <2>2. y \in OwnsNow
    BY <2>1 DEF OwnsNow
  <2>3. y[1] = x[1] /\ y[2] = e
    BY <2>1
  <2> QED
    BY <2>2, <2>3 DEF OwnersOf
<1> QED
  BY <1>1, <1>2 DEF HoldersIn

(* What CeeOwnership sees: the elements of the objects that will survive.  *)
ReferencesIn(h, c) == [o \in LiveIn(h) \ DoomedIn(h, c) |-> h[o].slots]

(* The refinement mapping as a function of the heap and the calls.         *)
LEMMA ReferencesNow == ASSUME RInv PROVE References = ReferencesIn(heap, frames)
<1>1. Live = LiveIn(heap) /\ Deleting = CalledIn(frames)
  BY DEF Live, LiveIn, Deleting, CalledIn
<1>2. \A e \in LiveIn(heap) : OwnersOf(OwnsNow, e) = HoldersIn(heap, frames, e)
  BY OwnersNow DEF LiveIn
<1>3. Heap!Condemned(LiveIn(heap), OwnsNow, CalledIn(frames)) = DoomedIn(heap, frames)
  BY <1>2, CondemnedAreDoomed
<1> QED
  BY <1>1, <1>3 DEF References, Surviving, ReferencesIn

(* The same of the state after a step.                                     *)
LEMMA ReferencesThen == RInv' => References' = ReferencesIn(heap', frames')
<1>1. RInv => References = ReferencesIn(heap, frames)
  BY ReferencesNow
<1>2. RInv' => (References = ReferencesIn(heap, frames))'
  BY <1>1, PTL
<1> QED
  BY <1>2

-----------------------------------------------------------------------------
(* The steps of a deletion change no list of references. *)

(* Going on to the next element, and calling cee_del on this one if it has *)
(* no other owner, changes nothing CeeOwnership sees.                      *)
LEMMA GoingOnKeeps ==
    ASSUME NEW h, NEW c, NEW k, NEW d, NEW x, Sound(h, c), GoesOn(h, c, k, d, x)
    PROVE  ReferencesIn(k, d) = ReferencesIn(h, c)
<1>1. Looks(h, c, x) /\ Alike(h, k) /\ c \in Seq(Calls) /\ c # <<>>
  BY DEF GoesOn, Looks, Sound, Typed
<1>2. LiveIn(k) = LiveIn(h)
  BY <1>1 DEF LiveIn, Alike
<1>3. x[1] \in CalledIn(c)
  <2>1. Len(c) \in DOMAIN c
    BY <1>1, CallsAre
  <2>2. x[1] = c[Len(c)].obj
    BY <1>1, LooksAt
  <2> QED
    BY <2>1, <2>2 DEF CalledIn
<1>4. \A e : OwningIn(k, d, e) = OwningIn(h, c, e) \ {x}
  <2>1. PICK b \in Objs : d \in {Advance(c), Enter(c, b)}
    <3>1. x[1] \in Objs
      BY <1>1, LooksAt DEF Places
    <3> QED
      BY <3>1 DEF GoesOn
  <2>2. \A e, p : RefsIn(h, d, e, p) = RefsIn(h, c, e, p) \ {x}
    BY <2>1, <1>1, StepRefs
  <2>3. \A e, p : RefsIn(k, d, e, p) = RefsIn(h, d, e, p)
    BY <1>1, AlikeRefs
  <2> QED
    BY <2>2, <2>3 DEF OwningIn
<1>5. \/ /\ CalledIn(d) = CalledIn(c)
         /\ \A e \in Objs : OwningIn(h, c, e) # {x}
      \/ \E b \in Objs : CalledIn(d) = CalledIn(c) \cup {b} /\ OwningIn(h, c, b) = {x}
  <2>1. CASE /\ d = Advance(c)
             /\ \A e \in Objs : OwningIn(h, c, e) # {x}
    <3>1. DOMAIN d = DOMAIN c /\ \A f \in DOMAIN c : d[f].obj = c[f].obj
      BY <2>1, <1>1, AdvancedCalls, CallsAre
    <3> QED
      BY <3>1, <2>1 DEF CalledIn
  <2>2. ASSUME NEW b \in Objs, d = Enter(c, b), OwningIn(h, c, b) = {x}
        PROVE  CalledIn(d) = CalledIn(c) \cup {b}
    <3> DEFINE n == Len(c)
    <3>1. n \in Nat /\ DOMAIN c = 1..n /\ DOMAIN d = 1..n + 1 /\ d[n + 1].obj = b
      BY <2>2, <1>1, EnteredCalls, CallsAre
    <3>2. \A f \in 1..n : d[f].obj = c[f].obj
      BY <2>2, <1>1, EnteredCalls
    <3> HIDE DEF n
    <3>3. DOMAIN d = DOMAIN c \cup {n + 1}
      BY <3>1
    <3> QED
      BY <3>1, <3>2, <3>3 DEF CalledIn
  <2> QED
    BY <2>1, <2>2 DEF GoesOn
<1>6. \A e, g \in Objs : x \in OwningIn(h, c, e) /\ x \in OwningIn(h, c, g) => e = g
  BY <1>1, LooksAt DEF OwningIn
<1>7. ASSUME NEW S \in SUBSET LiveIn(h)
      PROVE  ClosedIn(h, c, S) <=> ClosedIn(k, d, S)
  <2>1. ASSUME ClosedIn(h, c, S) PROVE ClosedIn(k, d, S)
    <3>1. CalledIn(c) \subseteq S /\ x[1] \in S
      BY <2>1, <1>3 DEF ClosedIn
    <3>2. ASSUME NEW b \in Objs, OwningIn(h, c, b) = {x} PROVE b \in S
      <4>1. b \in LiveIn(h)
        BY <3>2 DEF LiveIn, Sound, OwnedIsLive
      <4>2. HoldersIn(h, c, b) = {x[1]}
        BY <3>2 DEF HoldersIn
      <4> QED
        BY <4>1, <4>2, <3>1, <2>1 DEF ClosedIn
    <3>3. CalledIn(d) \subseteq S
      BY <3>1, <3>2, <1>5
    <3>4. ASSUME NEW e \in LiveIn(h) \ S
          PROVE  HoldersIn(k, d, e) \ S # {} \/ HoldersIn(k, d, e) = {}
      <4>1. HoldersIn(h, c, e) \ S # {} \/ HoldersIn(h, c, e) = {}
        BY <2>1 DEF ClosedIn
      <4> QED
        BY <4>1, <3>1, <1>4 DEF HoldersIn
    <3> QED
      BY <3>3, <3>4, <1>2 DEF ClosedIn
  <2>2. ASSUME ClosedIn(k, d, S) PROVE ClosedIn(h, c, S)
    <3>1. CalledIn(d) \subseteq S /\ CalledIn(c) \subseteq S
      BY <2>2, <1>5 DEF ClosedIn
    <3>2. ASSUME NEW e \in LiveIn(h) \ S
          PROVE  HoldersIn(h, c, e) \ S # {} \/ HoldersIn(h, c, e) = {}
      <4>1. HoldersIn(k, d, e) \ S # {} \/ HoldersIn(k, d, e) = {}
        BY <2>2, <1>2 DEF ClosedIn
      <4>2. CASE HoldersIn(k, d, e) \ S # {}
        BY <4>2, <1>4 DEF HoldersIn
      <4>3. CASE HoldersIn(k, d, e) = {}
        <5>1. OwningIn(h, c, e) = {} \/ OwningIn(h, c, e) = {x}
          <6>1. OwningIn(k, d, e) = {}
            BY <4>3 DEF HoldersIn
          <6> DEFINE O == OwningIn(h, c, e)
          <6>2. O \ {x} = {}
            BY <6>1, <1>4
          <6> HIDE DEF O
          <6>3. O = {} \/ O = {x}
            BY <6>2
          <6> QED
            BY <6>3 DEF O
        <5>2. OwningIn(h, c, e) # {x}
          BY <3>1, <1>5, <1>6 DEF LiveIn
        <5> QED
          BY <5>1, <5>2 DEF HoldersIn
      <4> QED
        BY <4>1, <4>2, <4>3
    <3> QED
      BY <3>1, <3>2 DEF ClosedIn
  <2> QED
    BY <2>1, <2>2
<1>8. DoomedIn(k, d) = DoomedIn(h, c)
  BY <1>2, <1>7 DEF DoomedIn
<1>9. \A o \in LiveIn(h) : k[o].slots = h[o].slots
  BY <1>1 DEF Alike, LiveIn
<1> QED
  BY <1>2, <1>8, <1>9 DEF ReferencesIn

(* Nor does freeing the object whose deletion is over.                     *)
LEMMA ReturningKeeps ==
    ASSUME NEW h, NEW c, NEW k, NEW d, NEW t, Sound(h, c), Returns(h, c, k, d, t)
    PROVE  ReferencesIn(k, d) = ReferencesIn(h, c)
<1>1. t \in Objs /\ h[t].kind # "free" /\ k[t] = Free /\ \A o \in Objs \ {t} : k[o] = h[o]
  BY ReturnedRefs
<1>2. \A e : HoldersIn(k, d, e) = HoldersIn(h, c, e) /\ t \notin HoldersIn(h, c, e)
  <2>1. \A e, p : /\ RefsIn(k, d, e, p) = RefsIn(h, c, e, p)
                 /\ \A z \in RefsIn(h, c, e, p) : z[1] \in Objs \ {t}
    BY ReturnedRefs
  <2> QED
    BY <2>1 DEF HoldersIn, OwningIn
<1>3. LiveIn(k) = LiveIn(h) \ {t} /\ t \in LiveIn(h)
  <2>1. Free.kind = "free"
    BY DEF Free
  <2> QED
    BY <2>1, <1>1 DEF LiveIn
<1>4. CalledIn(d) = CalledIn(c) \ {t} /\ t \in CalledIn(c)
  <2>1. /\ \A f \in DOMAIN d : f \in DOMAIN c /\ d[f] = c[f] /\ c[f].obj # t
        /\ \A f \in DOMAIN c : c[f].obj # t => f \in DOMAIN d
    BY ReturnedRefs
  <2>2. Len(c) \in DOMAIN c /\ t = c[Len(c)].obj
    <3>1. c \in Seq(Calls) /\ c # <<>> /\ t = c[Len(c)].obj
      BY DEF Sound, Typed, Returns
    <3> QED
      BY <3>1, CallsAre
  <2> QED
    BY <2>1, <2>2 DEF CalledIn
<1>5. ASSUME NEW S \in SUBSET LiveIn(k), ClosedIn(k, d, S)
      PROVE  S \cup {t} \in SUBSET LiveIn(h) /\ ClosedIn(h, c, S \cup {t})
  BY <1>2, <1>3, <1>4, <1>5 DEF ClosedIn
<1>6. ASSUME NEW S \in SUBSET LiveIn(h), ClosedIn(h, c, S)
      PROVE  S \ {t} \in SUBSET LiveIn(k) /\ ClosedIn(k, d, S \ {t})
  BY <1>2, <1>3, <1>4, <1>6 DEF ClosedIn
<1>7. ASSUME NEW e \in LiveIn(k) PROVE e \in DoomedIn(h, c) <=> e \in DoomedIn(k, d)
  <2>1. e \in LiveIn(h) /\ e # t
    BY <1>3
  <2>2. ASSUME e \in DoomedIn(h, c), NEW S \in SUBSET LiveIn(k), ClosedIn(k, d, S) PROVE e \in S
    BY <2>1, <2>2, <1>5 DEF DoomedIn
  <2>3. ASSUME e \in DoomedIn(k, d), NEW S \in SUBSET LiveIn(h), ClosedIn(h, c, S) PROVE e \in S
    BY <2>1, <2>3, <1>6 DEF DoomedIn
  <2> QED
    BY <2>1, <2>2, <2>3 DEF DoomedIn
<1>8. t \in DoomedIn(h, c)
  BY <1>3, <1>4 DEF DoomedIn, ClosedIn
<1>9. LiveIn(k) \ DoomedIn(k, d) = LiveIn(h) \ DoomedIn(h, c)
  BY <1>3, <1>7, <1>8
<1>10. \A o \in LiveIn(k) : k[o].slots = h[o].slots
  BY <1>1, <1>3 DEF LiveIn
<1> QED
  BY <1>9, <1>10 DEF ReferencesIn

-----------------------------------------------------------------------------
(* Between deletions: every allocated object has its references. *)

(* With no deletion in progress nothing is doomed.                         *)
LEMMA ReferencesIdle ==
    ASSUME NEW h
    PROVE  ReferencesIn(h, <<>>) = [o \in LiveIn(h) |-> h[o].slots]
<1>1. ClosedIn(h, <<>>, {})
  BY DEF ClosedIn, CalledIn
<1>2. DoomedIn(h, <<>>) = {}
  BY <1>1 DEF DoomedIn
<1> QED
  BY <1>2 DEF ReferencesIn

(* So CeeOwnership then sees the elements of every allocated object.       *)
LEMMA IdleNow ==
    ASSUME RInv, Idle
    PROVE  /\ References = [o \in LiveIn(heap) |-> heap[o].slots]
           /\ Ownership!Live = LiveIn(heap)
<1>1. frames = <<>> /\ References = ReferencesIn(heap, frames)
  BY ReferencesNow DEF Idle
<1>2. References = [o \in LiveIn(heap) |-> heap[o].slots]
  BY <1>1, ReferencesIdle
<1> QED
  BY <1>2 DEF Ownership!Live

(* The same of the state after a step.                                     *)
LEMMA IdleThen == RInv' /\ frames' = <<>> => References' = [o \in LiveIn(heap') |-> heap'[o].slots]
  BY ReferencesThen, ReferencesIdle

(* Heaps that differ in the object l at most.                              *)
Elsewhere(h, k, l) ==
    \A o \in Objs \ {l} : k[o].kind = h[o].kind /\ k[o].slots = h[o].slots

(* A new object and no other change: Make of CeeOwnership.                 *)
LEMMA MadeIsMake ==
    ASSUME RInv, RInv', Idle, frames' = <<>>, NEW o \in Objs, heap[o] = Free,
           heap'[o].kind # "free", Elsewhere(heap, heap', o)
    PROVE  o \in Objs \ Ownership!Live /\ Ownership!Make(o)
<1>1. /\ References = [q \in LiveIn(heap) |-> heap[q].slots]
      /\ Ownership!Live = LiveIn(heap)
  BY IdleNow
<1>2. References' = [q \in LiveIn(heap') |-> heap'[q].slots]
  BY IdleThen
<1>3. o \notin LiveIn(heap) /\ LiveIn(heap') = LiveIn(heap) \cup {o}
  BY DEF LiveIn, Elsewhere, Free
<1>4. heap'[o].slots \in Seq(Slot) /\ Slot = Ownership!Slot
  BY DEF RInv, Sound, Typed, Cells, Slot, Ownership!Slot
<1>5. \A q \in LiveIn(heap) \ {o} : heap'[q].slots = heap[q].slots
  BY DEF LiveIn, Elsewhere
<1>6. /\ DOMAIN References' = LiveIn(heap) \cup {o}
      /\ References'[o] \in Seq(Ownership!Slot)
      /\ \A q \in LiveIn(heap) \ {o} : References'[q] = References[q]
  BY <1>1, <1>2, <1>3, <1>4, <1>5
<1> QED
  BY <1>1, <1>3, <1>6 DEF Ownership!Make, Ownership!Others

(* RemoveAt as CeeOwnership has it from SequencesExt.                      *)
LEMMA SameRemoveAt == ASSUME NEW s, NEW i PROVE Ownership!RemoveAt(s, i) = RemoveAt(s, i)
  BY DEF Ownership!RemoveAt, RemoveAt

(* One element more in l and no other change: Insert of CeeOwnership.      *)
LEMMA MoreIsInsert ==
    ASSUME RInv, RInv', Idle, frames' = <<>>, NEW l \in Objs, heap[l].kind # "free",
           heap'[l].kind # "free", Elsewhere(heap, heap', l),
           NEW i \in DOMAIN heap'[l].slots, heap[l].slots = RemoveAt(heap'[l].slots, i)
    PROVE  l \in Ownership!Live /\ Ownership!Insert(l)
<1>1. /\ References = [q \in LiveIn(heap) |-> heap[q].slots]
      /\ Ownership!Live = LiveIn(heap)
  BY IdleNow
<1>2. References' = [q \in LiveIn(heap') |-> heap'[q].slots]
  BY IdleThen
<1>3. l \in LiveIn(heap) /\ LiveIn(heap') = LiveIn(heap)
  BY DEF LiveIn, Elsewhere
<1>4. heap'[l].slots \in Seq(Slot) /\ Slot = Ownership!Slot
  BY DEF RInv, Sound, Typed, Cells, Slot, Ownership!Slot
<1>5. \A q \in LiveIn(heap) \ {l} : heap'[q].slots = heap[q].slots
  BY DEF LiveIn, Elsewhere
<1>6. /\ DOMAIN References' = LiveIn(heap) /\ References'[l] \in Seq(Ownership!Slot)
      /\ \A q \in LiveIn(heap) \ {l} : References'[q] = References[q]
      /\ i \in DOMAIN References'[l] /\ References[l] = RemoveAt(References'[l], i)
  BY <1>1, <1>2, <1>3, <1>4, <1>5
<1> QED
  BY <1>1, <1>3, <1>6, SameRemoveAt DEF Ownership!Insert, Ownership!Others

(* One element less in l and no other change: Drop of CeeOwnership.        *)
LEMMA LessIsDrop ==
    ASSUME RInv, RInv', Idle, frames' = <<>>, NEW l \in Objs, heap[l].kind # "free",
           heap'[l].kind # "free", Elsewhere(heap, heap', l),
           NEW i \in DOMAIN heap[l].slots, heap'[l].slots = RemoveAt(heap[l].slots, i)
    PROVE  l \in Ownership!Live /\ Ownership!Drop(l)
<1>1. /\ References = [q \in LiveIn(heap) |-> heap[q].slots]
      /\ Ownership!Live = LiveIn(heap)
  BY IdleNow
<1>2. References' = [q \in LiveIn(heap') |-> heap'[q].slots]
  BY IdleThen
<1>3. l \in LiveIn(heap) /\ LiveIn(heap') = LiveIn(heap)
  BY DEF LiveIn, Elsewhere
<1>4. \A q \in LiveIn(heap) \ {l} : heap'[q].slots = heap[q].slots
  BY DEF LiveIn, Elsewhere
<1>5. References' = [References EXCEPT ![l] = RemoveAt(@, i)]
  BY <1>1, <1>2, <1>3, <1>4
<1>6. i \in DOMAIN References[l]
  BY <1>1, <1>3
<1> QED
  BY <1>1, <1>3, <1>5, <1>6, SameRemoveAt DEF Ownership!Drop

(* The call of cee_del: what it is going to free goes at once, the Delete  *)
(* of CeeOwnership.                                                        *)
LEMMA DelIsDelete ==
    ASSUME RInv, RInv', NEW o \in Objs, Del(o)
    PROVE  o \in Ownership!Live /\ Ownership!Delete(o)
<1> DEFINE d == <<[obj |-> o, at |-> 1]>>
<1>1. frames = <<>> /\ frames' = d /\ heap' = heap /\ o \in LiveIn(heap) /\ Idle
  BY DEF Del, Idle, Live, LiveIn
<1>2. /\ References = [q \in LiveIn(heap) |-> heap[q].slots]
      /\ Ownership!Live = LiveIn(heap)
  BY <1>1, IdleNow
<1>3. References' = ReferencesIn(heap, d)
  BY <1>1, ReferencesThen
<1>4. CalledIn(d) = {o}
  BY DEF CalledIn
<1>5. \A e : HoldersIn(heap, d, e) = HoldersIn(heap, frames, e)
  <2>1. DOMAIN d = {1} /\ d[1].at = 1
    OBVIOUS
  <2> HIDE DEF d
  <2>2. \A e, p : RefsIn(heap, d, e, p) = RefsIn(heap, frames, e, p)
    BY <2>1, <1>1 DEF RefsIn
  <2> QED
    BY <2>2 DEF HoldersIn, OwningIn
<1>6. Ownership!Owns = OwnsNow
  <2>1. Live = LiveIn(heap) /\ \A q \in LiveIn(heap) : Held(q) = DOMAIN References[q]
    BY <1>1, <1>2 DEF Live, LiveIn, Held
  <2>2. \A q \in LiveIn(heap) : References[q] = heap[q].slots
    BY <1>2
  <2> QED
    BY <2>1, <2>2, <1>2 DEF Ownership!Owns, Ownership!OwnsIn, OwnsNow
<1>7. \A e \in LiveIn(heap) : OwnersOf(Ownership!Owns, e) = HoldersIn(heap, d, e)
  BY <1>5, <1>6, OwnersNow DEF LiveIn
<1> HIDE DEF d
<1>8. Ownership!Condemned(LiveIn(heap), Ownership!Owns, {o}) = DoomedIn(heap, d)
  BY <1>4, <1>7, CondemnedAreDoomed
<1>9. References' = [q \in LiveIn(heap) \ DoomedIn(heap, d) |-> References[q]]
  BY <1>2, <1>3 DEF ReferencesIn
<1> QED
  BY <1>1, <1>2, <1>8, <1>9 DEF Ownership!Delete

-----------------------------------------------------------------------------
(* The operations of the program. *)

(* Removing undoes inserting.                                              *)
LEMMA RemoveUndoes ==
    ASSUME NEW s \in Seq(Slot), NEW i \in 1..Len(s) + 1, NEW e \in Slot
    PROVE  i \in DOMAIN InsertAt(s, i, e) /\ s = RemoveAt(InsertAt(s, i, e), i)
<1> DEFINE w == InsertAt(s, i, e)
           r == RemoveAt(w, i)
<1>1. Len(s) \in Nat /\ i \in Int /\ \A j \in 1..Len(s) : s[j] \in Slot
  OBVIOUS
<1>2. w \in Seq(Slot) /\ Len(w) = Len(s) + 1
      /\ \A j \in 1..Len(s) + 1 : w[j] = IF j < i THEN s[j] ELSE IF j = i THEN e ELSE s[j - 1]
  BY Inserted
<1> HIDE DEF w
<1>3. i \in DOMAIN w
  BY <1>2
<1>4. r \in Seq(Slot) /\ Len(r) = Len(w) - 1
      /\ \A j \in 1..Len(w) - 1 : r[j] = IF j < i THEN w[j] ELSE w[j + 1]
  BY <1>2, <1>3, Removed
<1> HIDE DEF r
<1>5. Len(r) = Len(s)
  BY <1>1, <1>2, <1>4
<1>6. ASSUME NEW j \in 1..Len(s) PROVE r[j] = s[j]
  <2>1. CASE j < i
    BY <2>1, <1>1, <1>2, <1>4
  <2>2. CASE j >= i
    <3>1. PICK m \in 1..Len(s) + 1 : m = j + 1
      BY <1>1
    <3>2. r[j] = w[m]
      BY <3>1, <2>2, <1>1, <1>2, <1>4
    <3>3. w[m] = s[j]
      BY <3>1, <2>2, <1>1, <1>2
    <3> QED
      BY <3>2, <3>3
  <2> QED
    BY <2>1, <2>2, <1>1
<1>7. r = s
  BY <1>1, <1>4, <1>5, <1>6
<1> QED
  BY <1>3, <1>7 DEF r, w

(* What cee_decr_indegree leaves alone.                                    *)
LEMMA DecrGives ==
    ASSUME NEW h \in [Objs -> Cells], NEW s \in Slot
    PROVE  Alike(h, Decr(h, s))
<1>1. s.ref \in Objs
  BY DEF Slot
<1>2. /\ Alike(h, [h EXCEPT ![s.ref].rc = @ - 1])
      /\ Alike(h, [h EXCEPT ![s.ref].retained = FALSE]) /\ Alike(h, h)
  BY <1>1 DEF Alike, Cells
<1> QED
  BY <1>2 DEF Decr

(* The constructors, which may also count the elements.                    *)
LEMMA NewIsMake ==
    ASSUME RInv, RInv', Idle, frames' = <<>>, NEW o \in Objs, heap[o] = Free,
           NEW kind, kind # "free", NEW p, NEW s,
           Alike([heap EXCEPT ![o] = Object(kind, p, s)], heap')
    PROVE  \E q \in Objs \ Ownership!Live : Ownership!Make(q)
<1> DEFINE g == [heap EXCEPT ![o] = Object(kind, p, s)]
<1>1. heap \in [Objs -> Cells]
  BY DEF RInv, Sound, Typed
<1>2. g[o].kind = kind /\ Elsewhere(heap, g, o)
  BY <1>1 DEF Object, Elsewhere
<1> HIDE DEF g
<1>3. heap'[o].kind # "free" /\ Elsewhere(heap, heap', o)
  BY <1>2 DEF Elsewhere, Alike, g
<1> QED
  BY <1>3, MadeIsMake

(* The fixed-size containers.                                              *)
LEMMA ProductIsMake ==
    ASSUME RInv, RInv', NEW o \in Objs, NEW s \in Seq(Slot), MkProduct(o, s)
    PROVE  \E q \in Objs \ Ownership!Live : Ownership!Make(q)
<1> DEFINE new == Object("product", "NOOP", s)
           g == [heap EXCEPT ![o] = new]
<1>1. Idle /\ frames' = <<>> /\ heap[o] = Free /\ heap' = Incr(g, s)
  BY DEF MkProduct, Idle
<1>2. heap \in [Objs -> Cells] /\ new \in Cells
  BY RefsAssumption DEF RInv, Sound, Typed, Object, Cells
<1>3. g \in [Objs -> Cells]
  BY <1>2
<1>4. Alike(g, heap')
  <2> HIDE DEF g
  <2> QED
    BY <1>1, <1>3, IncrGives
<1> QED
  BY <1>1, <1>4, NewIsMake

(* cee_list_insert and cee_stack_push.                                     *)
LEMMA PutIsInsert ==
    ASSUME RInv, RInv', Idle, frames' = <<>>, NEW l \in Objs, heap[l].kind # "free",
           NEW i \in 1..Len(heap[l].slots) + 1, NEW s \in Slot,
           heap' = Incr([heap EXCEPT ![l].slots = InsertAt(@, i, s)], <<s>>)
    PROVE  l \in Ownership!Live /\ Ownership!Insert(l)
<1> DEFINE a == heap[l].slots
           w == InsertAt(a, i, s)
           g == [heap EXCEPT ![l].slots = w]
           q == <<s>>
<1>1. heap \in [Objs -> Cells] /\ a \in Seq(Slot)
  BY DEF RInv, Sound, Typed, Cells
<1>2. w \in Seq(Slot) /\ i \in DOMAIN w /\ a = RemoveAt(w, i)
  BY <1>1, RemoveUndoes, Inserted
<1> HIDE DEF w
<1>3. /\ g \in [Objs -> Cells] /\ g[l].slots = w /\ g[l].kind = heap[l].kind
      /\ Elsewhere(heap, g, l)
  BY <1>1, <1>2 DEF Cells, Elsewhere
<1>4. q \in Seq(Slot) /\ heap' = Incr(g, q)
  BY DEF w
<1> HIDE DEF g, q
<1>5. Alike(g, heap')
  BY <1>3, <1>4, IncrGives
<1>6. heap'[l].kind # "free" /\ heap'[l].slots = w /\ Elsewhere(heap, heap', l)
  BY <1>3, <1>5 DEF Alike, Elsewhere
<1> QED
  BY <1>2, <1>6, MoreIsInsert

(* cee_list_remove and cee_stack_pop.                                      *)
LEMMA TakeIsDrop ==
    ASSUME RInv, RInv', Idle, frames' = <<>>, NEW l \in Objs, heap[l].kind # "free",
           NEW i \in DOMAIN heap[l].slots,
           heap' = Decr([heap EXCEPT ![l].slots = RemoveAt(@, i)], heap[l].slots[i])
    PROVE  l \in Ownership!Live /\ Ownership!Drop(l)
<1> DEFINE a == heap[l].slots
           r == RemoveAt(a, i)
           s == a[i]
           g == [heap EXCEPT ![l].slots = r]
<1>1. heap \in [Objs -> Cells] /\ a \in Seq(Slot)
  BY DEF RInv, Sound, Typed, Cells
<1>2. r \in Seq(Slot) /\ s \in Slot
  BY <1>1, Removed
<1> HIDE DEF r, s
<1>3. /\ g \in [Objs -> Cells] /\ g[l].slots = r /\ g[l].kind = heap[l].kind
      /\ Elsewhere(heap, g, l)
  BY <1>1, <1>2 DEF Cells, Elsewhere
<1>4. heap' = Decr(g, s)
  BY DEF r, s
<1> HIDE DEF g
<1>5. Alike(g, heap')
  BY <1>2, <1>3, <1>4, DecrGives
<1>6. heap'[l].kind # "free" /\ heap'[l].slots = r /\ Elsewhere(heap, heap', l)
  BY <1>3, <1>5 DEF Alike, Elsewhere
<1> QED
  BY <1>6, LessIsDrop DEF r

-----------------------------------------------------------------------------
(* The refinement. *)

(* Initially nothing is allocated.                                         *)
LEMMA InitOwns == ASSUME Init PROVE Ownership!Init
<1>1. RInv /\ Idle /\ LiveIn(heap) = {}
  BY InitSound DEF Init, Idle, LiveIn, Free
<1>2. References = [o \in {} |-> heap[o].slots]
  BY <1>1, IdleNow
<1>3. [o \in {} |-> heap[o].slots] = << >>
  OBVIOUS
<1> QED
  BY <1>2, <1>3 DEF Ownership!Init

(* Every step is one of CeeOwnership, or changes nothing CeeOwnership sees.*)
LEMMA NextOwns ==
    ASSUME Freedoms = {}, CountersSuffice, RInv, [Next]_vars
    PROVE  [Ownership!Next]_References
<1>0. RInv' /\ MaxSlots \in Nat
  BY NextSound, RefsAssumption
<1> DEFINE Goal == [Ownership!Next]_References
<1>1. ASSUME \E q \in Objs \ Ownership!Live : Ownership!Make(q) PROVE Goal
  BY <1>1 DEF Ownership!Next
<1>2. ASSUME NEW q \in Ownership!Live, Ownership!Insert(q) \/ Ownership!Drop(q) \/ Ownership!Delete(q)
      PROVE  Goal
  BY <1>2 DEF Ownership!Next
<1>3. ASSUME ReferencesIn(heap', frames') = ReferencesIn(heap, frames) PROVE Goal
  BY <1>0, <1>3, ReferencesNow, ReferencesThen
<1> HIDE DEF Goal
<1>4. ASSUME UNCHANGED vars PROVE Goal
  BY <1>3, <1>4 DEF vars
<1>5. ASSUME NEW o \in Objs, MkBox(o) PROVE Goal
  <2>1. Idle /\ frames' = <<>> /\ heap[o] = Free
        /\ heap' = [heap EXCEPT ![o] = Object("box", "NOOP", <<>>)]
    BY <1>5 DEF MkBox, Idle
  <2>2. Alike(heap', heap')
    BY DEF Alike
  <2> QED
    BY <2>1, <2>2, <1>0, <1>1, NewIsMake
<1>6. ASSUME NEW o \in Objs, Del(o) PROVE Goal
  BY <1>0, <1>2, <1>6, DelIsDelete
<1>7. ASSUME NEW o \in Objs, NEW k \in {"list", "stack"}, NEW p \in Policies, MkSequence(o, k, p)
      PROVE  Goal
  <2>1. Idle /\ frames' = <<>> /\ heap[o] = Free /\ k # "free"
        /\ heap' = [heap EXCEPT ![o] = Object(k, p, <<>>)]
    BY <1>7 DEF MkSequence, Idle
  <2>2. Alike(heap', heap')
    BY DEF Alike
  <2> QED
    BY <2>1, <2>2, <1>0, <1>1, NewIsMake
<1>8. ASSUME NEW o \in Objs, MkTagged(o) \/ MkTuple(o) \/ MkTriple(o) \/ MkQuadruple(o) \/ MkNTuple(o)
      PROVE  Goal
  <2>1. PICK n \in Nat : \E s \in Fillings(n, "product") : MkProduct(o, s)
    BY <1>0, <1>8 DEF MkTagged, MkTuple, MkTriple, MkQuadruple, MkNTuple
  <2>2. PICK s \in Fillings(n, "product") : MkProduct(o, s)
    BY <2>1
  <2>3. s \in Seq(Slot)
    BY FillingsAre
  <2> QED
    BY <2>2, <2>3, <1>0, <1>1, ProductIsMake
<1>9. ASSUME NEW o \in Objs, NEW n \in 1..2, NEW s \in Fillings(n, "env"), MkEnv(o, s)
      PROVE  Goal
  <2>1. Idle /\ frames' = <<>> /\ heap[o] = Free
        /\ heap' = [heap EXCEPT ![o] = Object("env", "NOOP", s)]
    BY <1>9 DEF MkEnv, Idle
  <2>2. Alike(heap', heap')
    BY DEF Alike
  <2> QED
    BY <2>1, <2>2, <1>0, <1>1, NewIsMake
<1>10. ASSUME NEW l \in Live, NEW e \in Live, NEW i \in 1..Len(heap[l].slots) + 1, Insert(l, i, e)
       PROVE  Goal
  <2> DEFINE s == [ref |-> e, pol |-> heap[l].pol]
  <2>1. /\ l \in Objs /\ e \in Objs /\ frames' = <<>> /\ Idle /\ heap[l].kind = "list"
        /\ heap' = Incr([heap EXCEPT ![l].slots = InsertAt(@, i, s)], <<s>>)
    BY <1>10 DEF Insert, Idle, Live
  <2>2. s \in Slot
    BY <2>1 DEF RInv, Sound, Typed, Slot
  <2> HIDE DEF s
  <2>3. l \in Ownership!Live /\ Ownership!Insert(l)
    BY <2>1, <2>2, <1>0, PutIsInsert
  <2> QED
    BY <2>3, <1>2
<1>11. ASSUME NEW l \in Live, NEW i \in DOMAIN heap[l].slots, RemoveElement(l, i)
       PROVE  Goal
  <2>1. /\ l \in Objs /\ frames' = <<>> /\ Idle /\ heap[l].kind = "list"
        /\ heap' = Decr([heap EXCEPT ![l].slots = RemoveAt(@, i)], heap[l].slots[i])
    BY <1>11 DEF RemoveElement, Idle, Live
  <2>2. l \in Ownership!Live /\ Ownership!Drop(l)
    BY <2>1, <1>0, TakeIsDrop
  <2> QED
    BY <2>2, <1>2
<1>12. ASSUME NEW l \in Live, NEW e \in Live, Push(l, e) PROVE Goal
  <2> DEFINE s == [ref |-> e, pol |-> heap[l].pol]
             a == heap[l].slots
  <2>1. /\ l \in Objs /\ e \in Objs /\ frames' = <<>> /\ Idle /\ heap[l].kind = "stack"
        /\ heap' = Incr([heap EXCEPT ![l].slots = Append(a, s)], <<s>>)
    BY <1>12 DEF Push, Idle, Live
  <2>2. a \in Seq(Slot) /\ s \in Slot
    BY <2>1 DEF RInv, Sound, Typed, Cells, Slot
  <2>3. Append(a, s) = InsertAt(a, Len(a) + 1, s) /\ Len(a) + 1 \in 1..Len(a) + 1
    <3>1. Len(a) \in Nat
      BY <2>2
    <3> QED
      BY SMTT(20), <3>1, <2>2, AtTheEnd
  <2> HIDE DEF s
  <2>4. l \in Ownership!Live /\ Ownership!Insert(l)
    BY <2>1, <2>2, <2>3, <1>0, PutIsInsert
  <2> QED
    BY <2>4, <1>2
<1>13. ASSUME NEW l \in Live, Pop(l) PROVE Goal
  <2> DEFINE a == heap[l].slots
  <2>1. /\ l \in Objs /\ frames' = <<>> /\ Idle /\ heap[l].kind = "stack" /\ a # <<>>
        /\ heap' = Decr([heap EXCEPT ![l].slots = Front(a)], Last(a))
    BY <1>13 DEF Pop, Idle, Live
  <2>2. a \in Seq(Slot) /\ Slot # {}
    <3>1. a \in Seq(Slot) /\ [ref |-> l, pol |-> heap[l].pol] \in Slot
      BY <2>1 DEF RInv, Sound, Typed, Cells, Slot
    <3> QED
      BY <3>1
  <2>3. Front(a) = RemoveAt(a, Len(a)) /\ Last(a) = a[Len(a)] /\ Len(a) \in DOMAIN a
    BY <2>1, <2>2, AtTheEnd
  <2>4. l \in Ownership!Live /\ Ownership!Drop(l)
    BY <2>1, <2>3, <1>0, TakeIsDrop
  <2> QED
    BY <2>4, <1>2
<1>14. ASSUME GoesOn(heap, frames, heap', frames', Place) PROVE Goal
  BY <1>3, <1>14, GoingOnKeeps DEF RInv
<1>15. ASSUME DelDone PROVE Goal
  BY <1>3, <1>15, DoneReturns, ReturningKeeps DEF RInv
<1>16. ASSUME DelStep PROVE Goal
  BY <1>14, <1>15, <1>16, NoopGoesOn, OwnedGoesOn, CountedGoesOn DEF DelStep
<1>17. Goal
  BY <1>4, <1>5, <1>6, <1>7, <1>8, <1>9, <1>10, <1>11, <1>12, <1>13, <1>16 DEF Next
<1> QED
  BY <1>17 DEF Goal

(* Counting references implements ownership: a program that keeps RC and   *)
(* DEL owners apart, and gives what an env refers to no other owner, gets  *)
(* from every cee_del exactly what the delete policies promise, that is,   *)
(* the object is freed and with it exactly those whose last owning         *)
(* reference it, or an object freed with it, held.                         *)
THEOREM CountingImplementsOwnership ==
    ASSUME Freedoms = {}, CountersSuffice
    PROVE  Spec => ImplementsOwnership
<1>1. RInv /\ [Next]_vars => RInv'
  BY NextSound
<1>2. RInv /\ [Next]_vars => [Ownership!Next]_References
  BY NextOwns
<1> QED
  BY InitSound, InitOwns, <1>1, <1>2, PTL DEF Spec, ImplementsOwnership, Ownership!Spec
=============================================================================
