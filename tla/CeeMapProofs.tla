----------------------------- MODULE CeeMapProofs -----------------------------
(***************************************************************************)
(* Proofs about CeeMap for any keys, any values, any order of the keys and *)
(* any number of maps: no sequence of calls makes the memory unsafe, and   *)
(* the tree and the list of keys are one ordered map.  The trees           *)
(* underneath are those of MuslTsearchProofs.                              *)
(***************************************************************************)
EXTENDS CeeMap, TLAPS, FiniteSetTheorems, SequenceTheorems

Tree == INSTANCE MuslTsearchProofs WITH Elements <- Pairs, Rank <- PairRank

-----------------------------------------------------------------------------
(* The trees of this module are the trees of those proofs. *)
LEMMA RankIs == PairRank \in [Pairs -> Nat]
BY MapAssumption DEF PairRank, Pairs

LEMMA SameRelinked == \A t, nodes, subtrees : T!Relinked(t, nodes, subtrees) = Tree!Relinked(t, nodes, subtrees)
BY DEF T!Relinked, Tree!Relinked, T!Paths, Tree!Paths, T!IsPrefix, Tree!IsPrefix

LEMMA SameFind == \A t, e : T!Find(t, e) = Tree!Find(t, e)
BY DEF T!Find, Tree!Find, T!Descend, Tree!Descend, T!Paths, Tree!Paths

LEMMA SameBalance == \A t, p : T!Balance(t, p) = Tree!Balance(t, p)
<1>1. \A t, p, dir : T!Rot(t, p, dir) = Tree!Rot(t, p, dir)
  BY DEF T!Rot, Tree!Rot, T!Relinked, Tree!Relinked, T!Height, Tree!Height, T!Paths, Tree!Paths,
         T!IsPrefix, Tree!IsPrefix
<1> QED
  BY <1>1 DEF T!Balance, Tree!Balance, T!Height, Tree!Height, T!Paths, Tree!Paths

LEMMA SameRebalanced ==
    ASSUME NEW t, NEW path
    PROVE  T!Rebalanced(t, path) = Tree!Rebalanced(t, path)
<1> DEFINE This(f) == [n \in 0..Len(path) |->
                         LET p == SubSeq(path, 1, n)
                             below == f[n + 1]
                             b == T!Balance(below.tree, p)
                         IN  IF n = Len(path) THEN [tree |-> t, go |-> TRUE]
                             ELSE IF below.go THEN [tree |-> b, go |-> b[p].h # below.tree[p].h]
                             ELSE below]
           That(f) == [n \in 0..Len(path) |->
                         LET p == SubSeq(path, 1, n)
                             below == f[n + 1]
                             b == Tree!Balance(below.tree, p)
                         IN  IF n = Len(path) THEN [tree |-> t, go |-> TRUE]
                             ELSE IF below.go THEN [tree |-> b, go |-> b[p].h # below.tree[p].h]
                             ELSE below]
<1>1. T!Rebalanced(t, path) = (CHOOSE f : f = This(f))[0].tree
  BY DEF T!Rebalanced
<1>2. Tree!Rebalanced(t, path) = (CHOOSE f : f = That(f))[0].tree
  BY DEF Tree!Rebalanced
<1>3. ASSUME NEW f PROVE This(f) = That(f)
  BY SameBalance, Zenon
<1> HIDE DEF This, That
<1> QED
  BY <1>1, <1>2, <1>3

LEMMA SameInserted == \A t, e : T!Inserted(t, e) = Tree!Inserted(t, e)
BY SameFind, SameRebalanced DEF T!Inserted, Tree!Inserted, T!Paths, Tree!Paths

LEMMA SameDeleted == \A t, e : T!Deleted(t, e) = Tree!Deleted(t, e)
<1>1. \A t, p : T!Victim(t, p) = Tree!Victim(t, p)
  BY DEF T!Victim, Tree!Victim, T!Descend, Tree!Descend, T!Paths, Tree!Paths, T!Front, Tree!Front
<1> SUFFICES ASSUME NEW t, NEW e PROVE T!Deleted(t, e) = Tree!Deleted(t, e)
  OBVIOUS
<1> DEFINE This(P, p, v) ==
             IF p \notin P THEN t
             ELSE T!Rebalanced(T!Relinked([q \in P \ {v} |-> [t EXCEPT ![p].key = t[v].key][q]], << >>,
                                          {<<Append(v, IF v = p THEN 1 ELSE 0), v>>}), v)
           That(P, p, v) ==
             IF p \notin P THEN t
             ELSE Tree!Rebalanced(Tree!Relinked([q \in P \ {v} |-> [t EXCEPT ![p].key = t[v].key][q]], << >>,
                                                {<<Append(v, IF v = p THEN 1 ELSE 0), v>>}), v)
<1>2. T!Deleted(t, e) = This(T!Paths(t), T!Find(t, e), T!Victim(t, T!Find(t, e)))
  BY Zenon DEF T!Deleted
<1>3. Tree!Deleted(t, e) = That(Tree!Paths(t), Tree!Find(t, e), Tree!Victim(t, Tree!Find(t, e)))
  BY Zenon DEF Tree!Deleted
<1>4. ASSUME NEW P, NEW p, NEW v PROVE This(P, p, v) = That(P, p, v)
  BY SameRebalanced, SameRelinked, Zenon
<1>5. T!Paths(t) = Tree!Paths(t)
  BY DEF T!Paths, Tree!Paths
<1> HIDE DEF This, That
<1> QED
  BY <1>1, <1>2, <1>3, <1>4, <1>5, SameFind

LEMMA SameWalk == \A t : T!Walk(t) = Tree!Walk(t)
BY DEF T!Walk, Tree!Walk, T!Paths, Tree!Paths, T!Cardinality, Tree!Cardinality,
       T!IsStrictPrefix, Tree!IsStrictPrefix, T!Prefixes, Tree!Prefixes, T!IsPrefix, Tree!IsPrefix

LEMMA SameContents == \A t : T!Contents(t) = Tree!Contents(t)
BY DEF T!Contents, Tree!Contents, T!Paths, Tree!Paths

(* A tree as the proofs about trees leave it. *)
Trees == UNION {[P -> [key : Pairs, h : Nat]] : P \in SUBSET Seq({0, 1})}
Upright(t) == t \in Trees /\ Tree!Upright(t)

Held(t) == T!Contents(t)
Named(A, k) == {e \in A : Name[e.key] = Name[k]}

LEMMA UprightIs == \A u : Tree!Upright(u) => Upright(u)
<1> SUFFICES ASSUME NEW u, Tree!Upright(u) PROVE u \in Trees
  BY DEF Upright
<1>1. DOMAIN u \subseteq Seq({0, 1}) /\ u \in [DOMAIN u -> [key : Pairs, h : Nat]]
  BY DEF Tree!Upright, Tree!Formed, Tree!Paths, Tree!Links, Tree!Bits
<1> QED
  BY <1>1 DEF Trees

(* Inserting and deleting a pair, in terms of what the tree contains.      *)
LEMMA TreeIs ==
    ASSUME NEW t, Upright(t), NEW e \in Pairs
    PROVE  /\ Held(t) \subseteq Pairs /\ IsFiniteSet(Held(t))
           /\ \A a, b \in Held(t) : Name[a.key] = Name[b.key] => a = b
           /\ T!Find(t, e) \in DOMAIN t <=> Named(Held(t), e.key) # {}
           /\ T!Find(t, e) \in DOMAIN t => /\ t[T!Find(t, e)].key \in Held(t)
                                          /\ Name[t[T!Find(t, e)].key.key] = Name[e.key]
           /\ Named(Held(t), e.key) = {} => /\ Upright(T!Inserted(t, e))
                                           /\ Held(T!Inserted(t, e)) = Held(t) \cup {e}
           /\ Upright(T!Deleted(t, e))
           /\ Held(T!Deleted(t, e)) = Held(t) \ Named(Held(t), e.key)
<1>1. Tree!Upright(t)
  BY DEF Upright
<1>2. \A S : Tree!IsFiniteSet(S) <=> IsFiniteSet(S)
  BY DEF Tree!IsFiniteSet, IsFiniteSet
<1>3. \A f \in Pairs : PairRank[f] = Name[f.key]
  BY DEF PairRank
<1> DEFINE C == Tree!Contents(t)
<1>4. /\ C \subseteq Pairs /\ IsFiniteSet(C)
      /\ \A p, q \in Tree!Paths(t) : PairRank[t[p].key] = PairRank[t[q].key] => p = q
      /\ Tree!Find(t, e) \in Tree!Paths(t) <=> \E k \in C : PairRank[k] = PairRank[e]
      /\ Tree!Find(t, e) \in Tree!Paths(t) => PairRank[t[Tree!Find(t, e)].key] = PairRank[e]
      /\ Tree!Upright(Tree!Inserted(t, e))
      /\ Tree!Contents(Tree!Inserted(t, e)) = IF \E k \in C : PairRank[k] = PairRank[e] THEN C ELSE C \cup {e}
      /\ Tree!Upright(Tree!Deleted(t, e))
      /\ Tree!Contents(Tree!Deleted(t, e)) = {k \in C : PairRank[k] # PairRank[e]}
  BY <1>1, <1>2, RankIs, Tree!TreeIs
<1>5. \A p \in Tree!Paths(t) : t[p].key \in C
  BY DEF Tree!Contents
<1>6. \A a, b \in C : PairRank[a] = PairRank[b] => a = b
  BY <1>4 DEF Tree!Contents
<1> HIDE DEF C
<1>7. Held(t) = C /\ T!Find(t, e) = Tree!Find(t, e) /\ DOMAIN t = Tree!Paths(t)
  BY SameContents, SameFind DEF Held, Tree!Paths, C
<1>8. \A k \in C : (PairRank[k] = PairRank[e] <=> Name[k.key] = Name[e.key])
  BY <1>3, <1>4
<1>9. Named(C, e.key) # {} <=> \E k \in C : PairRank[k] = PairRank[e]
  BY <1>8 DEF Named
<1>10. {k \in C : PairRank[k] # PairRank[e]} = C \ Named(C, e.key)
  BY <1>8 DEF Named
<1>11. Upright(T!Inserted(t, e)) /\ (Named(C, e.key) = {} => Held(T!Inserted(t, e)) = C \cup {e})
  BY <1>4, <1>9, SameInserted, SameContents, UprightIs DEF Held
<1>12. Upright(T!Deleted(t, e)) /\ Held(T!Deleted(t, e)) = C \ Named(C, e.key)
  BY <1>4, <1>10, SameDeleted, SameContents, UprightIs DEF Held
<1>13. \A a, b \in C : Name[a.key] = Name[b.key] => a = b
  BY <1>3, <1>4, <1>6
<1>14. T!Find(t, e) \in DOMAIN t => /\ t[T!Find(t, e)].key \in C
                                   /\ Name[t[T!Find(t, e)].key.key] = Name[e.key]
  BY <1>3, <1>4, <1>5, <1>7
<1> QED
  BY <1>4, <1>7, <1>9, <1>11, <1>12, <1>13, <1>14

(* A pair may get another value. *)
LEMMA RevaluedIs ==
    ASSUME NEW t, Upright(t), NEW p \in DOMAIN t, NEW v \in Values, NEW u, u = [t EXCEPT ![p].key.val = v]
    PROVE  /\ Upright(u) /\ t[p].key \in Held(t)
           /\ Held(u) = (Held(t) \ {t[p].key}) \cup {[key |-> t[p].key.key, val |-> v]}
<1> DEFINE e == [key |-> t[p].key.key, val |-> v]
<1>1. Tree!Upright(t) /\ p \in Tree!Paths(t)
  BY DEF Upright, Tree!Paths
<1>2. t \in [DOMAIN t -> [key : Pairs, h : Nat]]
  BY <1>1 DEF Tree!Upright, Tree!Formed, Tree!Paths
<1>3. t[p].key \in Pairs /\ e = [t[p].key EXCEPT !.val = v] /\ e \in Pairs
  BY <1>2 DEF Pairs
<1>4. u = Tree!Rekeyed(t, p, e)
  BY <1>3 DEF Tree!Rekeyed
<1>5. PairRank[e] = PairRank[t[p].key]
  BY <1>3 DEF PairRank
<1> HIDE DEF e
<1>6. /\ Tree!Upright(u) /\ Tree!Paths(u) = Tree!Paths(t)
      /\ \A q \in Tree!Paths(t) : u[q].key = IF q = p THEN e ELSE t[q].key
  <2>1. t[p].key \in Pairs /\ e \in Pairs
    BY <1>3
  <2> DEFINE w == Tree!Rekeyed(t, p, e)
  <2>2. /\ Tree!Upright(w) /\ Tree!Paths(w) = Tree!Paths(t)
        /\ \A q \in Tree!Paths(t) : w[q].key = IF q = p THEN e ELSE t[q].key
    BY ONLY <1>1, <1>5, <2>1, RankIs, Tree!RekeyIs
  <2> QED
    BY <1>4, <2>2
<1>7. \A q, r \in Tree!Paths(t) : t[q].key = t[r].key => q = r
  BY <1>1, <1>3, RankIs, Tree!TreeIs
<1>8. Tree!Contents(u) = (Tree!Contents(t) \ {t[p].key}) \cup {e}
  BY <1>1, <1>6, <1>7 DEF Tree!Contents
<1>9. t[p].key \in Tree!Contents(t)
  BY <1>1 DEF Tree!Contents
<1> QED
  BY <1>6, <1>8, <1>9, UprightIs, SameContents DEF Held, e

(* What a walk lists: every pair once. *)
LEMMA WalkedIs ==
    ASSUME NEW t, Upright(t)
    PROVE  /\ Walked(t) \in Seq(Pairs) /\ Len(Walked(t)) = Cardinality(DOMAIN t)
           /\ {Walked(t)[i] : i \in 1..Len(Walked(t))} = Held(t)
           /\ \A i, j \in 1..Len(Walked(t)) : Name[Walked(t)[i].key] = Name[Walked(t)[j].key] => i = j
<1> DEFINE list == Walked(t)
<1>1. list = Tree!Listing(t)
  BY SameWalk DEF Walked, Tree!Listing
<1> HIDE DEF list
<1>2. Tree!Upright(t)
  BY DEF Upright
<1>3. /\ list \in Seq(Pairs) /\ Len(list) = Tree!Cardinality(Tree!Paths(t))
      /\ {list[i] : i \in 1..Len(list)} = Tree!Contents(t)
      /\ \A i, j \in 1..Len(list) : PairRank[list[i]] = PairRank[list[j]] => i = j
  BY <1>1, <1>2, RankIs, Tree!ListingIs
<1>4. \A i \in 1..Len(list) : PairRank[list[i]] = Name[list[i].key]
  BY <1>3 DEF PairRank
<1>5. Tree!Cardinality(Tree!Paths(t)) = Cardinality(DOMAIN t)
  BY DEF Tree!Cardinality, Cardinality, Tree!Paths
<1> QED
  BY <1>3, <1>4, <1>5, SameContents DEF Held, list

LEMMA EmptyIs == Upright(T!Empty) /\ Held(T!Empty) = {} /\ DOMAIN T!Empty = {}
<1>1. T!Empty = Tree!Empty
  BY DEF T!Empty, Tree!Empty
<1>2. Tree!Upright(Tree!Empty) /\ Tree!Contents(Tree!Empty) = {}
  BY RankIs, Tree!EmptyUpright
<1>3. DOMAIN T!Empty = {}
  BY DEF T!Empty
<1>4. Held(T!Empty) = Tree!Contents(T!Empty)
  BY SameContents DEF Held
<1>5. Upright(Tree!Empty)
  BY <1>2, UprightIs
<1> QED
  BY <1>1, <1>2, <1>3, <1>4, <1>5

-----------------------------------------------------------------------------
(* Counts.  A tally says how often each object is referred to; the memory  *)
(* is sound for it if keys are counted exactly and values at least.        *)
Memory == [live : SUBSET Objs, rc : [Objs -> Nat], fault : BOOLEAN]
Tallies == [Objs -> Nat]

Sound(c, W) == /\ c \in Memory /\ ~ c.fault
               /\ \A k \in Keys \cap c.live : c.rc[k] = W[k]
               /\ \A v \in Values \cap c.live : c.rc[v] >= W[v]
               /\ \A o \in Objs : W[o] > 0 => o \in c.live
               /\ \A o \in Objs \ c.live : c.rc[o] = 0

More(W, o) == [x \in Objs |-> IF x = o THEN W[x] + 1 ELSE W[x]]
Less(W, o) == [x \in Objs |-> IF x = o THEN W[x] - 1 ELSE W[x]]

LEMMA UsedIs == ASSUME NEW c \in Memory, ~ c.fault, NEW o \in c.live PROVE Used(c, o) = c
<1>1. (c.fault \/ o \notin c.live) = c.fault
  BY DEF Memory
<1>2. Used(c, o) = [c EXCEPT !.fault = c.fault]
  BY <1>1 DEF Used
<1> QED
  BY <1>2 DEF Memory

LEMMA IncrIs ==
    ASSUME NEW c, NEW W \in Tallies, Sound(c, W), NEW o \in c.live
    PROVE  /\ Sound(Incr(c, o), More(W, o)) /\ More(W, o) \in Tallies
           /\ Incr(c, o).live = c.live
<1>1. c \in Memory /\ ~ c.fault /\ o \in Objs
  BY DEF Sound, Memory
<1>2. Incr(c, o) = [c EXCEPT !.rc = [c.rc EXCEPT ![o] = c.rc[o] + 1]]
  BY <1>1, UsedIs DEF Incr
<1> DEFINE d == Incr(c, o)
<1>3. /\ d \in Memory /\ d.live = c.live /\ d.fault = c.fault
      /\ \A x \in Objs : d.rc[x] = IF x = o THEN c.rc[x] + 1 ELSE c.rc[x]
  BY <1>1, <1>2 DEF Memory
<1> HIDE DEF d
<1>4. Keys \subseteq Objs /\ Values \subseteq Objs
  BY DEF Objs
<1>5. \A x \in Objs : W[x] \in Nat /\ c.rc[x] \in Nat
  BY <1>1 DEF Tallies, Memory
<1>6. Sound(d, More(W, o))
  BY <1>1, <1>3, <1>4, <1>5 DEF Sound, More
<1>7. More(W, o) \in Tallies
  BY <1>5 DEF More, Tallies
<1> QED
  BY <1>3, <1>6, <1>7 DEF d

LEMMA DecrIs ==
    ASSUME NEW c, NEW W \in Tallies, Sound(c, W), NEW o \in Objs, W[o] > 0
    PROVE  /\ Sound(Decr(c, o), Less(W, o)) /\ Less(W, o) \in Tallies
           /\ Decr(c, o).live = c.live
<1>1. c \in Memory /\ ~ c.fault /\ o \in c.live
  BY DEF Sound
<1>2. c.rc[o] \in Nat /\ c.rc[o] > 0
  BY <1>1 DEF Sound, Memory, Objs, Tallies
<1>3. Decr(c, o) = [c EXCEPT !.rc = [c.rc EXCEPT ![o] = c.rc[o] - 1]]
  BY <1>1, <1>2, UsedIs DEF Decr
<1> DEFINE d == Decr(c, o)
<1>4. /\ d \in Memory /\ d.live = c.live /\ d.fault = c.fault
      /\ \A x \in Objs : d.rc[x] = IF x = o THEN c.rc[x] - 1 ELSE c.rc[x]
  BY <1>1, <1>2, <1>3 DEF Memory
<1> HIDE DEF d
<1>5. Keys \subseteq Objs /\ Values \subseteq Objs
  BY DEF Objs
<1>6. \A x \in Objs : W[x] \in Nat /\ c.rc[x] \in Nat
  BY <1>1 DEF Tallies, Memory
<1>7. Sound(d, Less(W, o))
  BY <1>1, <1>2, <1>4, <1>5, <1>6 DEF Sound, Less
<1>8. Less(W, o) \in Tallies
  BY <1>6 DEF Less, Tallies
<1> QED
  BY <1>4, <1>7, <1>8 DEF d

LEMMA DelRefIs ==
    ASSUME NEW c, NEW W \in Tallies, Sound(c, W), NEW o \in Objs, W[o] > 0
    PROVE  /\ Sound(DelRef(c, o), Less(W, o)) /\ Less(W, o) \in Tallies
           /\ DelRef(c, o).live \subseteq c.live /\ c.live \ {o} \subseteq DelRef(c, o).live
<1> DEFINE d == Decr(c, o)
           V == Less(W, o)
<1>1. Sound(d, V) /\ V \in Tallies /\ d.live = c.live
  BY DecrIs
<1>2. DelRef(c, o) = IF d.rc[o] = 0 THEN [d EXCEPT !.live = d.live \ {o}] ELSE d
  BY DEF DelRef
<1> HIDE DEF d, V
<1>3. CASE d.rc[o] = 0
  <2> DEFINE b == [d EXCEPT !.live = d.live \ {o}]
  <2>1. DelRef(c, o) = b
    BY <1>2, <1>3
  <2>2. b \in Memory /\ b.live = d.live \ {o} /\ b.rc = d.rc /\ b.fault = d.fault
    BY <1>1 DEF Sound, Memory
  <2>3. V[o] = 0
    <3>1. o \in d.live => V[o] <= d.rc[o]
      BY <1>1 DEF Sound, Objs, Tallies
    <3> QED
      BY <1>1, <1>3, <3>1 DEF Sound, Tallies
  <2> HIDE DEF b
  <2>4. Sound(b, V)
    BY <1>1, <1>3, <2>2, <2>3 DEF Sound
  <2> QED
    BY <1>1, <2>1, <2>2, <2>4 DEF V
<1>4. CASE d.rc[o] # 0
  BY <1>1, <1>2, <1>4 DEF V
<1> QED
  BY <1>3, <1>4

(* What counts fewer references of values is right as well. *)
LEMMA FewerIs ==
    ASSUME NEW c, NEW W \in Tallies, NEW V \in Tallies, Sound(c, W),
           \A k \in Keys : V[k] = W[k], \A v \in Values : V[v] <= W[v]
    PROVE  Sound(c, V)
<1>1. \A o \in Objs : V[o] \in Nat /\ W[o] \in Nat /\ V[o] <= W[o]
  BY DEF Objs, Tallies
<1>2. c \in Memory /\ \A o \in Objs : c.rc[o] \in Nat
  BY DEF Sound, Memory
<1>3. Keys \subseteq Objs /\ Values \subseteq Objs
  BY DEF Objs
<1> QED
  BY <1>1, <1>2, <1>3 DEF Sound

(* The pairs that refer to an object. *)
Bit(b) == IF b THEN 1 ELSE 0
Uses(A, o) == Cardinality({e \in A : e.key = o}) + Cardinality({e \in A : e.val = o})

LEMMA UsesIs ==
    ASSUME NEW A, IsFiniteSet(A), NEW o
    PROVE  /\ Uses(A, o) \in Nat
           /\ \A e \in A : (e.key = o \/ e.val = o) => Uses(A, o) > 0
<1> DEFINE K == {f \in A : f.key = o}
           V == {f \in A : f.val = o}
<1>1. IsFiniteSet(K) /\ IsFiniteSet(V)
  BY FS_Subset
<1>2. Cardinality(K) \in Nat /\ Cardinality(V) \in Nat
  BY <1>1, FS_CardinalityType
<1>3. (Cardinality(K) = 0 <=> K = {}) /\ (Cardinality(V) = 0 <=> V = {})
  BY <1>1, FS_EmptySet
<1>4. Uses(A, o) = Cardinality(K) + Cardinality(V)
  BY DEF Uses
<1>5. ASSUME NEW e \in A, e.key = o \/ e.val = o PROVE K # {} \/ V # {}
  BY <1>5
<1> HIDE DEF K, V
<1> QED
  BY <1>2, <1>3, <1>4, <1>5

LEMMA UsesOfMore ==
    ASSUME NEW A, IsFiniteSet(A), NEW e, e \notin A, NEW o
    PROVE  Uses(A \cup {e}, o) = Uses(A, o) + Bit(e.key = o) + Bit(e.val = o)
<1> DEFINE K == {f \in A : f.key = o}
           V == {f \in A : f.val = o}
<1>1. IsFiniteSet(K) /\ IsFiniteSet(V) /\ e \notin K /\ e \notin V
  BY FS_Subset
<1>2. {f \in A \cup {e} : f.key = o} = (IF e.key = o THEN K \cup {e} ELSE K)
      /\ {f \in A \cup {e} : f.val = o} = (IF e.val = o THEN V \cup {e} ELSE V)
  OBVIOUS
<1>3. Uses(A, o) = Cardinality(K) + Cardinality(V)
      /\ Uses(A \cup {e}, o) = Cardinality(IF e.key = o THEN K \cup {e} ELSE K)
                               + Cardinality(IF e.val = o THEN V \cup {e} ELSE V)
  BY <1>2 DEF Uses
<1> HIDE DEF K, V
<1>4. Cardinality(K) \in Nat /\ Cardinality(V) \in Nat
  BY <1>1, FS_CardinalityType
<1>5. Cardinality(K \cup {e}) = Cardinality(K) + 1 /\ Cardinality(V \cup {e}) = Cardinality(V) + 1
  BY <1>1, FS_AddElement
<1> QED
  BY <1>3, <1>4, <1>5 DEF Bit

(* The tally of a map with the pairs A and the listed keys M, when R is    *)
(* that of the other maps.                                                 *)
Tally(R, A, M) == [o \in Objs |-> R[o] + Uses(A, o) + Bit(o \in M)]

LEMMA TallyIs ==
    ASSUME NEW R \in Tallies, NEW A, IsFiniteSet(A), NEW M
    PROVE  /\ Tally(R, A, M) \in Tallies
           /\ \A o \in Objs : /\ Tally(R, A, M)[o] >= R[o]
                              /\ Tally(R, A, M)[o] > R[o] <=> (o \in M \/ Uses(A, o) > 0)
           /\ \A e \in A : Uses(A, e.key) > 0 /\ Uses(A, e.val) > 0
<1>1. \A o \in Objs : Uses(A, o) \in Nat /\ R[o] \in Nat /\ Bit(o \in M) \in Nat /\ (Bit(o \in M) > 0 <=> o \in M)
  BY UsesIs DEF Bit, Tallies
<1>2. \A e \in A : Uses(A, e.key) > 0 /\ Uses(A, e.val) > 0
  BY UsesIs
<1> QED
  BY <1>1, <1>2 DEF Tally, Tallies

LEMMA TallyOfMore ==
    ASSUME NEW R \in Tallies, NEW A, IsFiniteSet(A), NEW M, NEW e \in Pairs, e \notin A, e.key \notin M
    PROVE  Tally(R, A \cup {e}, M \cup {e.key}) = More(More(More(Tally(R, A, M), e.key), e.val), e.key)
<1>1. e.key \in Objs /\ e.val \in Objs /\ e.key # e.val
  BY MapAssumption DEF Pairs, Objs
<1>2. \A o \in Objs : Uses(A, o) \in Nat /\ R[o] \in Nat
  BY UsesIs DEF Tallies
<1>3. \A o \in Objs : Uses(A \cup {e}, o) = Uses(A, o) + Bit(e.key = o) + Bit(e.val = o)
  BY UsesOfMore
<1> QED
  BY <1>1, <1>2, <1>3 DEF Tally, More, Bit

LEMMA TallyOfLess ==
    ASSUME NEW R \in Tallies, NEW A, IsFiniteSet(A), NEW M, NEW e \in Pairs, e \in A
    PROVE  Tally(R, A \ {e}, M) = Less(Less(Tally(R, A, M), e.key), e.val)
<1>1. e.key \in Objs /\ e.val \in Objs /\ e.key # e.val
  BY MapAssumption DEF Pairs, Objs
<1> DEFINE B == A \ {e}
<1>2. IsFiniteSet(B) /\ e \notin B /\ A = B \cup {e}
  BY FS_RemoveElement
<1> HIDE DEF B
<1>3. \A o \in Objs : Uses(B, o) \in Nat /\ R[o] \in Nat
  BY <1>2, UsesIs DEF Tallies
<1>4. \A o \in Objs : Uses(A, o) = Uses(B, o) + Bit(e.key = o) + Bit(e.val = o)
  BY <1>2, UsesOfMore
<1>5. Tally(R, B, M) = Less(Less(Tally(R, A, M), e.key), e.val)
  BY <1>1, <1>3, <1>4 DEF Tally, Less, Bit
<1> QED
  BY <1>5 DEF B

LEMMA TallyUnlisted ==
    ASSUME NEW R \in Tallies, NEW A, IsFiniteSet(A), NEW M, NEW k \in M
    PROVE  Tally(R, A, M \ {k}) = Less(Tally(R, A, M), k)
<1>1. \A o \in Objs : Uses(A, o) \in Nat /\ R[o] \in Nat
  BY UsesIs DEF Tallies
<1> QED
  BY <1>1 DEF Tally, Less, Bit

-----------------------------------------------------------------------------
(* A map and the memory, as the functions of map.c find and leave them:    *)
(* the tree and the list have the same keys, and the counts are right when *)
(* R is what the other maps refer to.                                      *)
Once(list) == list \in Seq(Keys) /\ \A i, j \in 1..Len(list) : list[i] = list[j] => i = j
Members(list) == {list[i] : i \in 1..Len(list)}
KeysOf(A) == {e.key : e \in A}
States == [tree : Trees, order : Seq(Keys), mem : Memory]

Whole(x, R) ==
    /\ x \in States /\ Upright(x.tree) /\ Once(x.order) /\ Members(x.order) = KeysOf(Held(x.tree))
    /\ Sound(x.mem, Tally(R, Held(x.tree), Members(x.order)))

LEMMA HeldIs ==
    ASSUME NEW t, Upright(t)
    PROVE  /\ Held(t) \subseteq Pairs /\ IsFiniteSet(Held(t))
           /\ \A a, b \in Held(t) : Name[a.key] = Name[b.key] => a = b
           /\ \A e \in Held(t) : e.key \in Keys /\ e.val \in Values /\ e = [key |-> e.key, val |-> e.val]
<1>1. CASE Keys = {}
  <2>1. Held(t) \subseteq Pairs
    BY WalkedIs
  <2>2. Held(t) = {}
    BY <1>1, <2>1 DEF Pairs
  <2> QED
    BY <2>2, FS_EmptySet
<1>2. CASE Keys # {}
  <2>1. PICK k \in Keys, v \in Values : TRUE
    BY <1>2, MapAssumption
  <2>2. [key |-> k, val |-> v] \in Pairs
    BY DEF Pairs
  <2>3. /\ Held(t) \subseteq Pairs /\ IsFiniteSet(Held(t))
        /\ \A a, b \in Held(t) : Name[a.key] = Name[b.key] => a = b
    BY <2>2, TreeIs
  <2> QED
    BY <2>3 DEF Pairs
<1> QED
  BY <1>1, <1>2

(* Looking for a name. *)
LEMMA HasIs ==
    ASSUME NEW x, Upright(x.tree), NEW k \in Keys
    PROVE  /\ Has(x, k) <=> Named(Held(x.tree), k) # {}
           /\ Path(x, k) \in DOMAIN x.tree <=> Has(x, k)
           /\ Has(x, k) => /\ Named(Held(x.tree), k) = {x.tree[Path(x, k)].key}
                           /\ x.tree[Path(x, k)].key \in Held(x.tree)
<1> DEFINE e == [key |-> k, val |-> CHOOSE v \in Values : TRUE]
<1>1. e \in Pairs /\ e.key = k
  BY MapAssumption DEF Pairs
<1>2. Path(x, k) = T!Find(x.tree, e)
  BY DEF Path
<1>3. Has(x, k) <=> Path(x, k) \in DOMAIN x.tree
  BY DEF Has
<1> HIDE DEF e
<1> DEFINE t == x.tree
           A == Held(t)
<1>4. Upright(t)
  OBVIOUS
<1> HIDE DEF t
<1>5. /\ \A a, b \in A : Name[a.key] = Name[b.key] => a = b
      /\ T!Find(t, e) \in DOMAIN t <=> Named(A, k) # {}
      /\ T!Find(t, e) \in DOMAIN t => /\ t[T!Find(t, e)].key \in A
                                     /\ Name[t[T!Find(t, e)].key.key] = Name[k]
  BY <1>1, <1>4, TreeIs
<1>6. T!Find(t, e) \in DOMAIN t => Named(A, k) = {t[T!Find(t, e)].key}
  BY <1>5 DEF Named
<1> QED
  BY <1>2, <1>3, <1>5, <1>6 DEF t

LEMMA RecordOfTwo ==
    ASSUME NEW x \in States, NEW t, NEW c, NEW u, u = [x EXCEPT !.tree = t, !.mem = c]
    PROVE  u = [tree |-> t, order |-> x.order, mem |-> c]
BY DEF States

LEMMA AppendIs ==
    ASSUME NEW list, Once(list), NEW k \in Keys, k \notin Members(list)
    PROVE  Once(Append(list, k)) /\ Members(Append(list, k)) = Members(list) \cup {k}
<1>1. list \in Seq(Keys) /\ Len(list) \in Nat
  BY DEF Once
<1> DEFINE w == Append(list, k)
<1>2. /\ w \in Seq(Keys) /\ Len(w) = Len(list) + 1 /\ w[Len(list) + 1] = k
      /\ \A i \in 1..Len(list) : w[i] = list[i]
  BY <1>1
<1>3. 1..Len(list) + 1 = 1..Len(list) \cup {Len(list) + 1} /\ Len(list) + 1 \notin 1..Len(list)
  BY <1>1
<1> HIDE DEF w
<1>4. \A i \in 1..Len(list) : list[i] # k
  BY DEF Members
<1>5. Members(w) = Members(list) \cup {k}
  BY <1>2, <1>3 DEF Members
<1>6. Once(w)
  BY <1>2, <1>3, <1>4 DEF Once
<1> QED
  BY <1>5, <1>6 DEF w

(* A new name. *)
LEMMA EnteredIs ==
    ASSUME NEW R \in Tallies, NEW x, Whole(x, R), NEW k \in Keys \cap x.mem.live, NEW v \in Values \cap x.mem.live,
           Named(Held(x.tree), k) = {}
    PROVE  /\ Whole(Entered(x, k, v), R) /\ Entered(x, k, v).order = Append(x.order, k)
           /\ Held(Entered(x, k, v).tree) = Held(x.tree) \cup {[key |-> k, val |-> v]}
<1> DEFINE e == [key |-> k, val |-> v]
           A == Held(x.tree)
           M == Members(x.order)
           W == Tally(R, A, M)
           t == T!Inserted(x.tree, e)
           l == Append(x.order, k)
           c1 == Incr(x.mem, k)
           c2 == Incr(c1, v)
           c3 == Incr(c2, k)
           y == Entered(x, k, v)
<1>1. /\ x \in States /\ Upright(x.tree) /\ Once(x.order) /\ M = KeysOf(A) /\ Sound(x.mem, W)
  BY DEF Whole
<1>2. e \in Pairs /\ e.key = k /\ e.val = v /\ k \in Objs /\ v \in Objs
  BY DEF Pairs, Objs
<1>3. y = [tree |-> t, order |-> l, mem |-> c3]
  <2>1. y = [x EXCEPT !.tree = t, !.order = l, !.mem = c3]
    BY DEF Entered
  <2>2. x \in States
    BY <1>1
  <2> HIDE DEF t, l, c3, y
  <2> QED
    BY ONLY <2>1, <2>2 DEF States
<1> HIDE DEF e, A, M, W, t, l, c1, c2, c3, y
<1>4. Upright(t) /\ Held(t) = A \cup {e}
  BY <1>1, <1>2, TreeIs DEF t, A
<1>5. IsFiniteSet(A) /\ e \notin A /\ k \notin M
  <2>1. IsFiniteSet(A) /\ Named(A, k) = {}
    BY <1>1, HeldIs DEF A
  <2>2. \A f \in A : f.key # k
    BY <2>1 DEF Named
  <2> QED
    BY <1>1, <1>2, <2>1, <2>2 DEF KeysOf
<1>6. Once(l) /\ Members(l) = M \cup {k}
  BY <1>1, <1>5, AppendIs DEF l, M
<1>7. W \in Tallies
  BY <1>5, TallyIs DEF W
<1>8. Sound(c1, More(W, k)) /\ More(W, k) \in Tallies /\ c1.live = x.mem.live
  BY <1>1, <1>7, IncrIs DEF c1
<1>9. Sound(c2, More(More(W, k), v)) /\ More(More(W, k), v) \in Tallies /\ c2.live = x.mem.live
  BY <1>8, IncrIs DEF c2
<1>10. Sound(c3, More(More(More(W, k), v), k))
  BY <1>9, IncrIs DEF c3
<1>11. Tally(R, A \cup {e}, M \cup {k}) = More(More(More(W, k), v), k)
  BY <1>2, <1>5, TallyOfMore DEF W
<1>12. KeysOf(A \cup {e}) = M \cup {k}
  BY <1>1, <1>2 DEF KeysOf
<1>13. y \in States
  <2>1. c3 \in Memory
    BY <1>10 DEF Sound
  <2> QED
    BY <1>3, <1>4, <1>6, <2>1 DEF States, Upright, Once
<1>14. y.tree = t /\ y.order = l /\ y.mem = c3
  BY <1>3
<1>15. Whole(y, R)
  BY <1>4, <1>6, <1>10, <1>11, <1>12, <1>13, <1>14 DEF Whole
<1> QED
  BY <1>4, <1>14, <1>15 DEF y, l, A, e

(* A name that is there. *)
LEMMA ReplacedIs ==
    ASSUME NEW R \in Tallies, NEW x, Whole(x, R), NEW k \in Keys \cap x.mem.live, NEW v \in Values \cap x.mem.live,
           NEW e \in Named(Held(x.tree), k), NEW new \in {v, e.val}
    PROVE  /\ Whole(Replaced(x, k, v, new), R) /\ Replaced(x, k, v, new).order = x.order
           /\ Held(Replaced(x, k, v, new).tree) = (Held(x.tree) \ {e}) \cup {[key |-> e.key, val |-> new]}
<1> DEFINE A == Held(x.tree)
           M == Members(x.order)
           W == Tally(R, A, M)
           p == Path(x, k)
           f == [key |-> e.key, val |-> new]
           t == [x.tree EXCEPT ![p].key.val = new]
           c1 == Incr(x.mem, k)
           c2 == Incr(c1, v)
           c3 == IF new = e.val THEN c2 ELSE Decr(c2, e.val)
           c4 == DelRef(c3, k)
           y == Replaced(x, k, v, new)
<1>1. /\ x \in States /\ Upright(x.tree) /\ Once(x.order) /\ M = KeysOf(A) /\ Sound(x.mem, W)
  BY DEF Whole
<1>2. /\ p \in DOMAIN x.tree /\ x.tree[p].key = e /\ e \in A /\ IsFiniteSet(A)
      /\ e \in Pairs /\ e.key \in Keys /\ e.val \in Values /\ e = [key |-> e.key, val |-> e.val]
      /\ \A a, b \in A : Name[a.key] = Name[b.key] => a = b
  <2>1. Named(A, k) = {x.tree[p].key} /\ p \in DOMAIN x.tree
    BY <1>1, HasIs
  <2>2. e \in A
    BY DEF Named
  <2>3. /\ A \subseteq Pairs /\ IsFiniteSet(A)
        /\ e.key \in Keys /\ e.val \in Values /\ e = [key |-> e.key, val |-> e.val]
        /\ \A a, b \in A : Name[a.key] = Name[b.key] => a = b
    BY <1>1, <2>2, HeldIs
  <2> QED
    BY <2>1, <2>2, <2>3
<1>3. f \in Pairs /\ new \in Values /\ k \in Objs /\ v \in Objs /\ e.val \in Objs /\ e.key \in Objs
  BY <1>2 DEF Pairs, Objs
<1>4. y = [tree |-> t, order |-> x.order, mem |-> c4]
  <2>1. y = [x EXCEPT !.tree = t, !.mem = c4]
    <3>1. y = [x EXCEPT !.tree[p].key.val = new,
                        !.mem = DelRef(IF new = x.tree[p].key.val THEN c2 ELSE Decr(c2, x.tree[p].key.val), k)]
      BY DEF Replaced
    <3>2. DelRef(IF new = x.tree[p].key.val THEN c2 ELSE Decr(c2, x.tree[p].key.val), k) = c4
      BY <1>2
    <3> HIDE DEF c4, c2
    <3> QED
      BY <3>1, <3>2
  <2> HIDE DEF t, c4, y
  <2> QED
    BY <1>1, <2>1, RecordOfTwo
<1> HIDE DEF A, M, W, p, f, t, c1, c2, c3, c4, y
<1>5. Upright(t) /\ Held(t) = (A \ {e}) \cup {f}
  BY <1>1, <1>2, <1>3, RevaluedIs DEF t, A, f
<1>6. W \in Tallies /\ W[e.val] > 0
  <2>1. W \in Tallies /\ Uses(A, e.val) > 0 /\ (W[e.val] > R[e.val] <=> (e.val \in M \/ Uses(A, e.val) > 0))
    BY <1>2, <1>3, TallyIs DEF W
  <2> QED
    BY <1>3, <2>1 DEF Tallies
<1>7. Sound(c1, More(W, k)) /\ More(W, k) \in Tallies /\ c1.live = x.mem.live
  BY <1>1, <1>6, IncrIs DEF c1
<1> DEFINE W2 == More(More(W, k), v)
<1>8. Sound(c2, W2) /\ W2 \in Tallies /\ c2.live = x.mem.live
  BY <1>7, IncrIs DEF c2
<1>9. \A o \in Objs : W[o] \in Nat /\ W2[o] = W[o] + Bit(o = k) + Bit(o = v)
  BY <1>6 DEF More, Bit, Tallies
<1> HIDE DEF W2
<1>10. k # v /\ k # e.val
  BY <1>2, MapAssumption
<1>11. CASE new = e.val
  <2>1. W2[k] > 0
    BY <1>3, <1>9 DEF Bit
  <2>2. c4 = DelRef(c2, k)
    BY <1>11 DEF c3, c4
  <2>3. Sound(c4, Less(W2, k)) /\ Less(W2, k) \in Tallies
    BY <1>3, <1>8, <2>1, <2>2, DelRefIs
  <2>4. \A o \in Objs : Less(W2, k)[o] = W[o] + Bit(o = v)
    BY <1>9, <1>10 DEF Less, Bit
  <2>5. (\A o \in Keys : W[o] = Less(W2, k)[o]) /\ \A o \in Values : W[o] <= Less(W2, k)[o]
    BY <1>9, <2>4, MapAssumption DEF Bit, Objs
  <2>6. Sound(c4, W)
    BY <1>6, <2>3, <2>5, FewerIs
  <2>7. (A \ {e}) \cup {f} = A
    BY <1>2, <1>11 DEF f
  <2> QED
    <3>1. Sound(c4, Tally(R, (A \ {e}) \cup {f}, M))
      BY <2>6, <2>7 DEF W
    <3> HIDE DEF Whole
    <3>2. y \in States /\ y.tree = t /\ y.order = x.order /\ y.mem = c4
      BY <1>1, <1>4, <1>5, <2>6 DEF States, Upright, Sound
    <3>3. Whole(y, R)
      BY <1>1, <1>5, <2>7, <3>1, <3>2 DEF Whole, M
    <3> QED
      BY <1>5, <3>2, <3>3 DEF y, A, f
<1>12. CASE new # e.val
  <2>1. new = v
    BY <1>12
  <2>2. W2[e.val] > 0
    BY <1>3, <1>6, <1>9 DEF Bit
  <2>3. c3 = Decr(c2, e.val)
    BY <1>12 DEF c3
  <2> DEFINE W3 == Less(W2, e.val)
  <2>4. Sound(c3, W3) /\ W3 \in Tallies
    BY <1>3, <1>8, <2>2, <2>3, DecrIs
  <2>5. \A o \in Objs : W3[o] = W[o] + Bit(o = k) + Bit(o = v) - Bit(o = e.val)
    BY <1>9 DEF Less, Bit
  <2> HIDE DEF W3
  <2>6. W3[k] > 0
    BY <1>3, <1>9, <1>10, <2>5 DEF Bit
  <2>7. Sound(c4, Less(W3, k)) /\ Less(W3, k) \in Tallies
    BY <1>3, <2>4, <2>6, DelRefIs DEF c4
  <2>8. \A o \in Objs : Less(W3, k)[o] = W[o] + Bit(o = v) - Bit(o = e.val)
    BY <1>9, <1>10, <2>5 DEF Less, Bit
  <2> DEFINE B == A \ {e}
             V == Tally(R, B \cup {f}, M)
  <2>9. IsFiniteSet(B) /\ e \notin B /\ A = B \cup {e} /\ f \notin B /\ f.key = e.key /\ f.val = v
    BY <1>2, <2>1, FS_RemoveElement DEF f
  <2> HIDE DEF B
  <2>10. \A o \in Objs : /\ Uses(A, o) = Uses(B, o) + Bit(e.key = o) + Bit(e.val = o)
                         /\ Uses(B \cup {f}, o) = Uses(B, o) + Bit(e.key = o) + Bit(v = o)
                         /\ Uses(B, o) \in Nat /\ R[o] \in Nat
    BY <2>9, UsesIs, UsesOfMore DEF Tallies
  <2>11. \A o \in Objs : V[o] = W[o] + Bit(o = v) - Bit(o = e.val)
    <3>1. \A o \in Objs : V[o] = R[o] + Uses(B \cup {f}, o) + Bit(o \in M)
      BY DEF Tally
    <3>2. \A o \in Objs : W[o] = R[o] + Uses(A, o) + Bit(o \in M)
      BY DEF Tally, W
    <3> HIDE DEF V
    <3> SUFFICES ASSUME NEW o \in Objs PROVE V[o] = W[o] + Bit(o = v) - Bit(o = e.val)
      OBVIOUS
    <3> DEFINE uB == Uses(B, o)
               uF == Uses(B \cup {f}, o)
               uA == Uses(A, o)
               r == R[o]
               b == Bit(o \in M)
    <3>3. V[o] = r + uF + b /\ W[o] = r + uA + b /\ r \in Nat /\ uB \in Nat /\ b \in {0, 1}
      <4>1. b \in {0, 1}
        BY DEF Bit
      <4>2. V[o] = r + uF + b
        BY <3>1
      <4>3. W[o] = r + uA + b
        BY <3>2
      <4> HIDE DEF b
      <4> QED
        BY <2>10, <4>1, <4>2, <4>3
    <3>4. uA = uB + Bit(e.key = o) + Bit(e.val = o) /\ uF = uB + Bit(e.key = o) + Bit(v = o)
      BY <2>10
    <3> HIDE DEF uB, uF, uA, r, b
    <3> QED
      BY <3>3, <3>4 DEF Bit
  <2>12. V = Less(W3, k)
    <3>1. V = [o \in Objs |-> V[o]] /\ Less(W3, k) = [o \in Objs |-> Less(W3, k)[o]]
      BY DEF Tally, Less
    <3> HIDE DEF V
    <3> QED
      BY <2>8, <2>11, <3>1
  <2> HIDE DEF V
  <2>13. Sound(c4, V)
    BY <2>7, <2>12
  <2>14. Held(t) = B \cup {f} /\ KeysOf(B \cup {f}) = M
    <3>1. KeysOf(B \cup {f}) = KeysOf(A)
      BY <2>9 DEF KeysOf
    <3> QED
      BY <1>1, <1>5, <3>1 DEF B
  <2>15. y \in States /\ y.tree = t /\ y.order = x.order /\ y.mem = c4
    BY <1>1, <1>4, <1>5, <2>13 DEF States, Upright, Sound
  <2>16. Whole(y, R)
    BY <1>1, <1>5, <2>13, <2>14, <2>15 DEF Whole, M, V
  <2> QED
    BY <1>5, <2>15, <2>16 DEF y, A, f
<1> QED
  BY <1>11, <1>12

Both(f, e, keep) == [key |-> f.key, val |-> IF keep THEN f.val ELSE e.val]
Offered(x, k, v) == {v} \cup {e.val : e \in Named(Held(x.tree), k)}

(* What becomes of x when the name of k is new, and when it is there. *)
Enters(x, y, k, v) == Named(Held(x.tree), k) = {} =>
    y.order = Append(x.order, k) /\ Held(y.tree) = Held(x.tree) \cup {[key |-> k, val |-> v]}
Meets(x, y, k, new) == \A f \in Named(Held(x.tree), k) :
    y.order = x.order /\ Held(y.tree) = (Held(x.tree) \ {f}) \cup {[key |-> f.key, val |-> new]}

LEMMA PutIs ==
    ASSUME NEW R \in Tallies, NEW x, Whole(x, R), NEW k \in Keys, k \in x.mem.live, NEW v \in Values, v \in x.mem.live,
           NEW new \in Offered(x, k, v)
    PROVE  Whole(Put(x, k, v, new), R) /\ Enters(x, Put(x, k, v, new), k, v) /\ Meets(x, Put(x, k, v, new), k, new)
<1>1. Upright(x.tree)
  BY DEF Whole
<1>2. Has(x, k) <=> Named(Held(x.tree), k) # {}
  BY <1>1, HasIs
<1>3. CASE Named(Held(x.tree), k) = {}
  <2>1. Put(x, k, v, new) = Entered(x, k, v)
    BY <1>2, <1>3 DEF Put
  <2> QED
    BY <1>3, <2>1, EnteredIs DEF Enters, Meets
<1>4. CASE Named(Held(x.tree), k) # {}
  <2>1. Put(x, k, v, new) = Replaced(x, k, v, new)
    BY <1>2, <1>4 DEF Put
  <2>2. \A a, b \in Held(x.tree) : Name[a.key] = Name[b.key] => a = b
    BY <1>1, HeldIs
  <2>3. \A e \in Named(Held(x.tree), k) : new \in {v, e.val}
    BY <2>2 DEF Named, Offered
  <2>4. ASSUME NEW e \in Named(Held(x.tree), k)
        PROVE  /\ Whole(Put(x, k, v, new), R) /\ Put(x, k, v, new).order = x.order
               /\ Held(Put(x, k, v, new).tree) = (Held(x.tree) \ {e}) \cup {[key |-> e.key, val |-> new]}
    BY <2>1, <2>3, ReplacedIs
  <2> QED
    BY <1>4, <2>4 DEF Enters, Meets
<1> QED
  BY <1>3, <1>4

(* Taking one key out of the list. *)
LEMMA RemoveAtIs ==
    ASSUME NEW S, NEW list \in Seq(S), NEW i \in 1..Len(list)
    PROVE  /\ RemoveAt(list, i) \in Seq(S) /\ Len(RemoveAt(list, i)) = Len(list) - 1
           /\ \A j \in 1..Len(list) - 1 : RemoveAt(list, i)[j] = IF j < i THEN list[j] ELSE list[j + 1]
<1> DEFINE n == Len(list)
<1>1. n \in Nat /\ i \in Nat /\ i >= 1 /\ i <= n
  OBVIOUS
<1> DEFINE a == SubSeq(list, 1, i - 1)
           b == SubSeq(list, i + 1, n)
<1>2. RemoveAt(list, i) = a \o b
  BY DEF RemoveAt
<1>3. a \in Seq(S) /\ Len(a) = i - 1 /\ \A j \in 1..i - 1 : a[j] = list[j]
  <2>1. \A j \in 1..i - 1 : list[j] \in S /\ (1 + j) - 1 = j
    BY <1>1
  <2> QED
    BY <1>1, <2>1
<1>4. b \in Seq(S) /\ Len(b) = n - i /\ \A j \in 1..n - i : b[j] = list[i + j]
  <2>1. \A j \in 1..n - i : list[i + j] \in S /\ ((i + 1) + j) - 1 = i + j
    BY <1>1
  <2> QED
    BY <1>1, <2>1
<1> HIDE DEF a, b, n
<1>5. a \o b \in Seq(S) /\ Len(a \o b) = n - 1
  <2>1. Len(a \o b) = Len(a) + Len(b) /\ a \o b \in Seq(S)
    BY <1>3, <1>4, ConcatProperties
  <2>2. Len(a) + Len(b) = n - 1
    BY <1>1, <1>3, <1>4
  <2> QED
    BY <1>3, <1>4, <2>1, <2>2
<1>6. ASSUME NEW j \in 1..n - 1 PROVE (a \o b)[j] = IF j < i THEN list[j] ELSE list[j + 1]
  <2>1. j \in 1..Len(a) + Len(b)
    BY <1>1, <1>3, <1>4
  <2>2. (a \o b)[j] = IF j <= Len(a) THEN a[j] ELSE b[j - Len(a)]
    BY <1>3, <1>4, <2>1
  <2>3. CASE j < i
    <3>1. j \in 1..i - 1 /\ j <= Len(a)
      BY <1>1, <1>3, <2>3
    <3> QED
      BY <1>3, <2>2, <2>3, <3>1
  <2>4. CASE ~ (j < i)
    <3>1. j - (i - 1) \in 1..n - i /\ i + (j - (i - 1)) = j + 1 /\ ~ (j <= Len(a)) /\ j - Len(a) = j - (i - 1)
      BY <1>1, <1>3, <2>4
    <3>2. b[j - (i - 1)] = list[j + 1]
      BY <1>4, <3>1
    <3> QED
      BY <2>2, <2>4, <3>1, <3>2
  <2> QED
    BY <2>3, <2>4
<1> QED
  BY <1>2, <1>5, <1>6 DEF n

LEMMA RemovedIs ==
    ASSUME NEW list, Once(list), NEW i \in 1..Len(list)
    PROVE  Once(RemoveAt(list, i)) /\ Members(RemoveAt(list, i)) = Members(list) \ {list[i]}
<1> DEFINE n == Len(list)
           w == RemoveAt(list, i)
<1>1. list \in Seq(Keys) /\ n \in Nat /\ \A j, m \in 1..n : list[j] = list[m] => j = m
  BY DEF Once
<1>2. w \in Seq(Keys) /\ Len(w) = n - 1 /\ \A j \in 1..n - 1 : w[j] = IF j < i THEN list[j] ELSE list[j + 1]
  BY <1>1, RemoveAtIs
<1> HIDE DEF n, w
<1>3. i \in 1..n
  BY DEF n
<1>4. Members(w) \subseteq Members(list) \ {list[i]}
  <2> SUFFICES ASSUME NEW j \in 1..n - 1 PROVE w[j] \in Members(list) \ {list[i]}
    BY <1>2 DEF Members
  <2>1. CASE j < i
    <3>1. j \in 1..n /\ j # i /\ w[j] = list[j]
      BY <1>1, <1>2, <1>3, <2>1
    <3> QED
      BY <1>1, <1>3, <3>1 DEF Members, n
  <2>2. CASE ~ (j < i)
    <3>1. j + 1 \in 1..n /\ j + 1 # i /\ w[j] = list[j + 1]
      BY <1>1, <1>2, <1>3, <2>2
    <3> QED
      BY <1>1, <1>3, <3>1 DEF Members, n
  <2> QED
    BY <2>1, <2>2
<1>5. ASSUME NEW j \in 1..n, j # i PROVE list[j] \in Members(w)
  <2>1. CASE j < i
    <3>1. j \in 1..n - 1 /\ w[j] = list[j]
      BY <1>1, <1>2, <1>3, <2>1
    <3> QED
      BY <1>2, <3>1 DEF Members
  <2>2. CASE ~ (j < i)
    <3>1. j - 1 \in 1..n - 1 /\ ~ (j - 1 < i) /\ (j - 1) + 1 = j
      BY <1>1, <1>3, <1>5, <2>2
    <3>2. w[j - 1] = list[j]
      BY <1>2, <3>1
    <3> QED
      BY <1>2, <3>1, <3>2 DEF Members
  <2> QED
    BY <2>1, <2>2
<1>6. Members(w) = Members(list) \ {list[i]}
  BY <1>4, <1>5 DEF Members, n
<1>7. ASSUME NEW j \in 1..n - 1, NEW m \in 1..n - 1, w[j] = w[m] PROVE j = m
  <2> DEFINE J == IF j < i THEN j ELSE j + 1
             M == IF m < i THEN m ELSE m + 1
  <2>1. J \in 1..n /\ M \in 1..n /\ w[j] = list[J] /\ w[m] = list[M] /\ (J = M => j = m)
    BY <1>1, <1>2, <1>3
  <2> HIDE DEF J, M
  <2> QED
    BY <1>1, <1>7, <2>1
<1> QED
  BY <1>2, <1>6, <1>7 DEF Once, w

(* The first of the list that has the name of k. *)
FirstListed(list, k) == SelectInSeq(list, LAMBDA l : Name[l] = Name[k])
LEMMA ListedAt ==
    ASSUME NEW x, NEW A, Once(x.order), Members(x.order) = KeysOf(A), A \subseteq Pairs,
           \A a, b \in A : Name[a.key] = Name[b.key] => a = b, NEW k, NEW e \in Named(A, k)
    PROVE  \E i \in 1..Len(x.order) : /\ x.order[i] = e.key
                                      /\ FirstListed(x.order, k) = i
                                      /\ \A j \in 1..Len(x.order) : Name[x.order[j]] = Name[k] <=> j = i
<1>1. e \in A /\ Name[e.key] = Name[k]
  BY DEF Named
<1>2. PICK i \in 1..Len(x.order) : x.order[i] = e.key
  BY <1>1 DEF Members, KeysOf
<1>3. ASSUME NEW j \in 1..Len(x.order) PROVE Name[x.order[j]] = Name[k] <=> j = i
  <2>1. PICK b \in A : x.order[j] = b.key
    BY DEF Members, KeysOf
  <2>2. Name[b.key] = Name[k] => b = e
    BY <1>1
  <2> QED
    BY <1>1, <1>2, <2>1, <2>2 DEF Once
<1>4. {j \in 1..Len(x.order) : Name[x.order[j]] = Name[k]} = {i}
  BY <1>3
<1>5. Min({i}) = i
  <2>1. i \in Nat
    BY <1>2 DEF Once
  <2> QED
    BY <2>1 DEF Min
<1> DEFINE I == {j \in 1..Len(x.order) : Name[x.order[j]] = Name[k]}
<1>6. FirstListed(x.order, k) = IF I # {} THEN Min(I) ELSE 0
  BY DEF FirstListed, SelectInSeq
<1> HIDE DEF I
<1>7. FirstListed(x.order, k) = i
  BY <1>4, <1>5, <1>6 DEF I
<1> QED
  BY <1>2, <1>3, <1>7

(* The pair e is taken out, and its key from the list. *)
Drops(x, y, e, k) == /\ Held(y.tree) = Held(x.tree) \ {e}
                     /\ \E i \in 1..Len(x.order) :
                           /\ x.order[i] = e.key /\ y.order = RemoveAt(x.order, i)
                           /\ \A j \in 1..Len(x.order) : Name[x.order[j]] = Name[k] <=> j = i

LEMMA TakenIs ==
    ASSUME NEW R \in Tallies, NEW x, Whole(x, R), NEW k \in Keys, NEW e \in Named(Held(x.tree), k)
    PROVE  Whole(Taken(x, k), R) /\ Taken(x, k).mem.live = x.mem.live /\ Drops(x, Taken(x, k), e, k)
<1> DEFINE A == Held(x.tree)
           M == Members(x.order)
           W == Tally(R, A, M)
           p == Path(x, k)
           n == FirstListed(x.order, k)
           t == T!Deleted(x.tree, e)
           l == RemoveAt(x.order, n)
           c1 == Decr(x.mem, e.key)
           c2 == Decr(c1, e.val)
           c3 == Decr(c2, e.key)
           y == Taken(x, k)
<1>1. /\ x \in States /\ Upright(x.tree) /\ Once(x.order) /\ M = KeysOf(A) /\ Sound(x.mem, W)
  BY DEF Whole
<1>2. /\ x.tree[p].key = e /\ e \in A /\ IsFiniteSet(A) /\ A \subseteq Pairs
      /\ e.key \in Keys /\ e.val \in Values /\ e \in Pairs /\ Name[e.key] = Name[k]
      /\ \A a, b \in A : Name[a.key] = Name[b.key] => a = b
  <2>1. Named(A, k) = {x.tree[p].key}
    BY <1>1, HasIs
  <2>2. e \in A /\ Name[e.key] = Name[k]
    BY DEF Named
  <2>3. /\ A \subseteq Pairs /\ IsFiniteSet(A) /\ e.key \in Keys /\ e.val \in Values
        /\ \A a, b \in A : Name[a.key] = Name[b.key] => a = b
    BY <1>1, <2>2, HeldIs
  <2> QED
    BY <2>1, <2>2, <2>3
<1>3. PICK i \in 1..Len(x.order) : /\ x.order[i] = e.key /\ n = i
                                   /\ \A j \in 1..Len(x.order) : Name[x.order[j]] = Name[k] <=> j = i
  BY <1>1, <1>2, ListedAt
<1>4. y = [tree |-> t, order |-> l, mem |-> c3]
  <2>1. y = [x EXCEPT !.tree = t, !.order = l, !.mem = c3]
    <3>1. y = [x EXCEPT !.tree = T!Deleted(x.tree, x.tree[p].key), !.order = l,
                 !.mem = Decr(Decr(Decr(x.mem, x.tree[p].key.key), x.tree[p].key.val), x.order[n])]
      BY DEF Taken, FirstListed
    <3> HIDE DEF y, p, n
    <3> QED
      BY <1>2, <1>3, <3>1
  <2>2. x \in States
    BY <1>1
  <2> HIDE DEF t, l, c3, y
  <2> QED
    BY ONLY <2>1, <2>2 DEF States
<1> HIDE DEF A, M, W, p, n, t, l, c1, c2, c3, y
<1>5. Upright(t) /\ Held(t) = A \ {e}
  <2>1. Upright(t) /\ Held(t) = A \ Named(A, e.key)
    BY <1>1, <1>2, TreeIs DEF t, A
  <2>2. Named(A, e.key) = {e}
    BY <1>2 DEF Named
  <2> QED
    BY <2>1, <2>2
<1>6. Once(l) /\ Members(l) = M \ {e.key}
  BY <1>1, <1>3, RemovedIs DEF l, M
<1>7. e.key \in M /\ e.key \in Objs /\ e.val \in Objs /\ e.key # e.val
  BY <1>1, <1>2, MapAssumption DEF KeysOf, Objs
<1>8. W \in Tallies /\ \A o \in Objs : W[o] = R[o] + Uses(A, o) + Bit(o \in M)
  BY <1>2, TallyIs DEF W, Tally
<1>9. Uses(A, e.key) > 0 /\ Uses(A, e.val) > 0 /\ \A o \in Objs : Uses(A, o) \in Nat /\ R[o] \in Nat
  BY <1>2, UsesIs DEF Tallies
<1>10. W[e.key] > 1 /\ W[e.val] > 0
  <2>1. Bit(e.key \in M) = 1 /\ Bit(e.val \in M) \in Nat
    BY <1>7 DEF Bit
  <2>2. W[e.key] = R[e.key] + Uses(A, e.key) + 1
    BY <1>7, <1>8, <2>1
  <2>3. W[e.val] = R[e.val] + Uses(A, e.val) + Bit(e.val \in M)
    BY <1>7, <1>8
  <2>4. Uses(A, e.key) \in Nat /\ R[e.key] \in Nat /\ Uses(A, e.val) \in Nat /\ R[e.val] \in Nat
    BY <1>7, <1>9
  <2> QED
    BY <1>9, <2>1, <2>2, <2>3, <2>4
<1>11. Sound(c1, Less(W, e.key)) /\ Less(W, e.key) \in Tallies /\ c1.live = x.mem.live
  <2>1. W[e.key] > 0
    BY <1>7, <1>8, <1>10 DEF Tallies
  <2> QED
    BY <1>1, <1>7, <1>8, <2>1, DecrIs DEF c1
<1> DEFINE W2 == Less(Less(W, e.key), e.val)
<1>12. Sound(c2, W2) /\ W2 \in Tallies /\ c2.live = x.mem.live
  <2>1. Less(W, e.key)[e.val] > 0
    BY <1>7, <1>10 DEF Less
  <2> QED
    BY <1>7, <1>11, <2>1, DecrIs DEF c2
<1>13. Sound(c3, Less(W2, e.key)) /\ c3.live = x.mem.live
  <2>1. W2[e.key] > 0
    BY <1>7, <1>8, <1>10 DEF Less, Tallies
  <2> HIDE DEF W2
  <2> QED
    BY <1>7, <1>12, <2>1, DecrIs DEF c3
<1>14. Tally(R, A \ {e}, M \ {e.key}) = Less(W2, e.key)
  <2> DEFINE B == A \ {e}
  <2>1. IsFiniteSet(B)
    BY <1>2, FS_Subset
  <2>2. Tally(R, B, M \ {e.key}) = Less(Tally(R, B, M), e.key)
    BY <1>7, <2>1, TallyUnlisted
  <2>3. Tally(R, B, M) = W2
    BY <1>2, TallyOfLess DEF W
  <2> QED
    BY <2>2, <2>3
<1>15. KeysOf(A \ {e}) = M \ {e.key}
  BY <1>1, <1>2 DEF KeysOf
<1>16. y \in States /\ y.tree = t /\ y.order = l /\ y.mem = c3
  <2>1. c3 \in Memory
    BY <1>13 DEF Sound
  <2> QED
    BY <1>4, <1>5, <1>6, <2>1 DEF States, Upright, Once
<1>17. Whole(y, R)
  BY <1>5, <1>6, <1>13, <1>14, <1>15, <1>16 DEF Whole
<1> QED
  BY <1>3, <1>5, <1>13, <1>16, <1>17 DEF y, A, l, Drops

-----------------------------------------------------------------------------
(* Deleting a map: the list lets go of its keys ...                        *)
LEMMA DelRefTyped == ASSUME NEW c \in Memory, NEW o \in Objs PROVE DelRef(c, o) \in Memory
<1> DEFINE n == IF c.rc[o] > 0 THEN c.rc[o] - 1 ELSE 0
           fault == c.fault \/ o \notin c.live
           d == [live |-> c.live, rc |-> [c.rc EXCEPT ![o] = n], fault |-> fault]
<1>1. n \in Nat /\ fault \in BOOLEAN
  BY DEF Memory
<1>2. Decr(c, o) = d
  <2>1. Used(c, o) = [live |-> c.live, rc |-> c.rc, fault |-> fault]
    BY DEF Used, Memory
  <2> HIDE DEF fault
  <2>2. Decr(c, o) = [Used(c, o) EXCEPT !.rc = [Used(c, o).rc EXCEPT ![o] = IF Used(c, o).rc[o] > 0 THEN Used(c, o).rc[o] - 1 ELSE 0]]
    BY DEF Decr
  <2> QED
    BY <2>1, <2>2
<1> HIDE DEF n, fault
<1>3. d \in Memory
  BY <1>1 DEF Memory
<1>4. DelRef(c, o) = IF d.rc[o] = 0 THEN [d EXCEPT !.live = d.live \ {o}] ELSE d
  BY <1>2 DEF DelRef
<1> HIDE DEF d
<1> QED
  BY <1>3, <1>4 DEF Memory

LEMMA UnlistedIs ==
    ASSUME NEW R \in Tallies, NEW A, IsFiniteSet(A), NEW list, Once(list),
           NEW c, Sound(c, Tally(R, A, Members(list)))
    PROVE  Sound(Unlisted(c, list), Tally(R, A, {}))
<1> DEFINE n == Len(list)
           After(f) == [i \in 0..n |-> IF i = 0 THEN c ELSE DelRef(f[i - 1], list[i])]
           F == CHOOSE f : f = After(f)
           g == [i \in 1..n |-> [z \in Memory |-> DelRef(z, list[i])]]
           Left(m) == {list[i] : i \in m + 1..n}
           Good(z, m) == Sound(z, Tally(R, A, Left(m)))
<1>1. n \in Nat /\ (\A i \in 1..n : list[i] \in Objs) /\ \A i, j \in 1..n : list[i] = list[j] => i = j
  BY DEF Once, Objs
<1>2. Unlisted(c, list) = F[n]
  BY DEF Unlisted
<1> HIDE DEF n
<1>3. Good(c, 0) /\ c \in Memory
  BY DEF Members, n, Sound
<1>4. ASSUME NEW m \in 0..n - 1, NEW z, Good(z, m) PROVE Good(DelRef(z, list[m + 1]), m + 1)
  <2> HIDE DEF F, g, After
  <2> DEFINE k == list[m + 1]
             W == Tally(R, A, Left(m))
  <2>1. m + 1 \in 1..n /\ m + 1 \in m + 1..n /\ k \in Objs /\ k \in Left(m)
    BY <1>1
  <2>2. Left(m + 1) = Left(m) \ {k}
    <3>1. m + 1..n = (m + 1) + 1..n \cup {m + 1} /\ (\A i \in (m + 1) + 1..n : i \in 1..n /\ i # m + 1)
      BY <1>1
    <3> QED
      BY <1>1, <2>1, <3>1
  <2> HIDE DEF k, Left
  <2>3. Tally(R, A, Left(m + 1)) = Less(W, k)
    BY <2>1, <2>2, TallyUnlisted
  <2>4. W \in Tallies /\ W[k] > 0
    <3>1. W \in Tallies /\ W[k] > R[k]
      BY <2>1, TallyIs
    <3> QED
      BY <2>1, <3>1 DEF Tallies
  <2> HIDE DEF W
  <2>5. Sound(z, W)
    BY <1>4 DEF W
  <2>6. Sound(DelRef(z, k), Less(W, k))
    BY <2>1, <2>4, <2>5, DelRefIs
  <2> QED
    BY <2>3, <2>6 DEF k
<1>5. \E f : f = After(f)
  <2>1. g \in [1..n -> [Memory -> Memory]]
    BY <1>1, DelRefTyped
  <2>2. PICK f \in [0..n -> Memory] : Tree!Runs(f, n, c, g)
    <3> HIDE DEF g, After, F, Good
    <3> QED
      BY ONLY <1>1, <2>1, <1>3, RankIs, Tree!RecursionIs
  <2>3. ASSUME NEW i \in 0..n PROVE f[i] = IF i = 0 THEN c ELSE DelRef(f[i - 1], list[i])
    <3>1. i # 0 => i \in 1..n /\ i - 1 \in 0..n
      BY <1>1
    <3> HIDE DEF Good
    <3> QED
      BY <2>2, <3>1 DEF Tree!Runs
  <2>4. f = After(f)
    BY <2>2, <2>3
  <2> QED
    BY <2>4
<1>6. F = After(F)
  BY <1>5
<1>7. F[0] = c /\ \A i \in 1..n : F[i] = DelRef(F[i - 1], list[i])
  <2> HIDE DEF F
  <2> QED
    BY <1>1, <1>6
<1> HIDE DEF F, Good
<1> DEFINE G == {m \in 0..n : Good(F[m], m)}
<1>8. 0 \in G
  BY <1>1, <1>3, <1>7
<1>9. ASSUME NEW m \in 0..n - 1, m \in G PROVE m + 1 \in G
  <2>1. (m + 1) - 1 = m /\ m + 1 \in 0..n /\ m + 1 \in 1..n
    BY <1>1
  <2>2. F[m + 1] = DelRef(F[m], list[m + 1])
    BY <1>7, <2>1
  <2> QED
    BY <1>4, <1>9, <2>1, <2>2
<1> HIDE DEF G
<1>10. n \in G
  <2>1. \A m \in 0..n : m \in G
    BY ONLY <1>1, <1>8, <1>9, RankIs, Tree!InductionIs
  <2> QED
    BY <1>1, <2>1
<1>11. Left(n) = {}
  BY <1>1
<1> QED
  BY <1>2, <1>10, <1>11 DEF G, Good

(* ... and each pair of what it holds. *)
LEMMA UnpairedIs ==
    ASSUME NEW R \in Tallies, NEW list \in Seq(Pairs), \A i, j \in 1..Len(list) : list[i] = list[j] => i = j,
           NEW c, Sound(c, Tally(R, {list[i] : i \in 1..Len(list)}, {}))
    PROVE  Sound(Unpaired(c, list), R)
<1> DEFINE n == Len(list)
           Step(z, e) == DelRef(DelRef(z, e.key), e.val)
           After(f) == [i \in 0..n |-> IF i = 0 THEN c ELSE Step(f[i - 1], list[i])]
           F == CHOOSE f : f = After(f)
           g == [i \in 1..n |-> [z \in Memory |-> Step(z, list[i])]]
           Left(m) == {list[i] : i \in m + 1..n}
           Good(z, m) == Sound(z, Tally(R, Left(m), {}))
<1>1. n \in Nat /\ (\A i \in 1..n : list[i] \in Pairs) /\ \A i, j \in 1..n : list[i] = list[j] => i = j
  OBVIOUS
<1>2. Unpaired(c, list) = F[n]
  BY DEF Unpaired
<1> HIDE DEF n
<1>3. Good(c, 0) /\ c \in Memory
  BY DEF n, Sound
<1>4. ASSUME NEW m \in 0..n - 1, NEW z, Good(z, m) PROVE Good(Step(z, list[m + 1]), m + 1)
  <2> HIDE DEF F, g, After
  <2> DEFINE e == list[m + 1]
             A == Left(m)
             W == Tally(R, A, {})
  <2>1. m + 1 \in 1..n /\ m + 1 \in m + 1..n /\ e \in Pairs /\ e \in A
    BY <1>1
  <2>2. Left(m + 1) = Left(m) \ {e}
    <3> HIDE DEF Good, Step
    <3>1. m + 1..n = (m + 1) + 1..n \cup {m + 1} /\ (\A i \in (m + 1) + 1..n : i \in 1..n /\ i # m + 1)
      BY <1>1
    <3> QED
      BY <1>1, <2>1, <3>1
  <2>3. IsFiniteSet(A)
    <3> DEFINE s == [i \in m + 1..n |-> list[i]]
    <3> HIDE DEF Good, Step
    <3>1. IsFiniteSet(m + 1..n)
      <4>1. m + 1 \in Int /\ n \in Int
        BY <1>1
      <4> QED
        BY ONLY <4>1, FS_Interval
    <3>2. s \in Surjection(m + 1..n, A)
      BY DEF Surjection
    <3> QED
      BY <3>1, <3>2, FS_Surjection
  <2>4. e.key \in Objs /\ e.val \in Objs /\ e.key # e.val
    BY <2>1, MapAssumption DEF Pairs, Objs
  <2> HIDE DEF e, A, Left
  <2>5. Tally(R, A \ {e}, {}) = Less(Less(W, e.key), e.val)
    BY <2>1, <2>3, TallyOfLess
  <2>6. W \in Tallies /\ W[e.key] > 0 /\ W[e.val] > 0
    <3>1. W \in Tallies /\ W[e.key] > R[e.key] /\ W[e.val] > R[e.val]
      BY <2>1, <2>3, <2>4, TallyIs
    <3> QED
      BY <2>4, <3>1 DEF Tallies
  <2> HIDE DEF W
  <2>7. Sound(z, W)
    BY <1>4 DEF W, A
  <2>8. Sound(DelRef(z, e.key), Less(W, e.key)) /\ Less(W, e.key) \in Tallies
    BY <2>4, <2>6, <2>7, DelRefIs
  <2>9. Less(W, e.key)[e.val] > 0
    BY <2>4, <2>6 DEF Less
  <2>10. Sound(Step(z, e), Less(Less(W, e.key), e.val))
    BY <2>4, <2>8, <2>9, DelRefIs
  <2> QED
    BY <2>2, <2>5, <2>10 DEF e, A
<1>5. \E f : f = After(f)
  <2>1. g \in [1..n -> [Memory -> Memory]]
    <3>1. \A e \in Pairs : e.key \in Objs /\ e.val \in Objs
      BY DEF Pairs, Objs
    <3>2. \A z \in Memory, e \in Pairs : Step(z, e) \in Memory
      BY <3>1, DelRefTyped
    <3> QED
      BY <1>1, <3>2
  <2>2. PICK f \in [0..n -> Memory] : Tree!Runs(f, n, c, g)
    <3> HIDE DEF g, After, F, Good
    <3> QED
      BY ONLY <1>1, <2>1, <1>3, RankIs, Tree!RecursionIs
  <2>3. ASSUME NEW i \in 0..n PROVE f[i] = IF i = 0 THEN c ELSE Step(f[i - 1], list[i])
    <3>1. i # 0 => i \in 1..n /\ i - 1 \in 0..n
      BY <1>1
    <3> HIDE DEF Good, Step
    <3> QED
      BY <2>2, <3>1 DEF Tree!Runs
  <2>4. f = After(f)
    BY <2>2, <2>3
  <2> QED
    BY <2>4
<1>6. F = After(F)
  BY <1>5
<1>7. F[0] = c /\ \A i \in 1..n : F[i] = Step(F[i - 1], list[i])
  <2> HIDE DEF F
  <2> QED
    BY <1>1, <1>6
<1> HIDE DEF F, Good, Step
<1> DEFINE G == {m \in 0..n : Good(F[m], m)}
<1>8. 0 \in G
  BY <1>1, <1>3, <1>7
<1>9. ASSUME NEW m \in 0..n - 1, m \in G PROVE m + 1 \in G
  <2>1. (m + 1) - 1 = m /\ m + 1 \in 0..n /\ m + 1 \in 1..n
    BY <1>1
  <2>2. F[m + 1] = Step(F[m], list[m + 1])
    BY <1>7, <2>1
  <2> QED
    BY <1>4, <1>9, <2>1, <2>2
<1> HIDE DEF G
<1>10. n \in G
  <2>1. \A m \in 0..n : m \in G
    BY ONLY <1>1, <1>8, <1>9, RankIs, Tree!InductionIs
  <2> QED
    BY <1>1, <2>1
<1>11. Left(n) = {}
  BY <1>1
<1>12. Tally(R, {}, {}) = R
  <2>1. \A o : Uses({}, o) = 0
    <3>1. \A o : {e \in {} : e.key = o} = {} /\ {e \in {} : e.val = o} = {}
      OBVIOUS
    <3> QED
      BY <3>1, FS_EmptySet DEF Uses
  <2> QED
    BY <2>1 DEF Tally, Tallies, Bit
<1> QED
  BY <1>2, <1>10, <1>11, <1>12 DEF G, Good

LEMMA DestroyedIs ==
    ASSUME NEW R \in Tallies, NEW x, Whole(x, R)
    PROVE  /\ Destroyed(x).tree = T!Empty /\ Destroyed(x).order = <<>>
           /\ Whole(Destroyed(x), R) /\ Sound(Destroyed(x).mem, R)
<1> DEFINE list == Walked(x.tree)
           c == Unlisted(x.mem, x.order)
           d == Unpaired(c, list)
           y == Destroyed(x)
<1>1. y = [tree |-> T!Empty, order |-> <<>>, mem |-> d]
  BY DEF Destroyed
<1>2. /\ Upright(x.tree) /\ Once(x.order) /\ IsFiniteSet(Held(x.tree))
      /\ Sound(x.mem, Tally(R, Held(x.tree), Members(x.order)))
  BY HeldIs DEF Whole
<1>3. Sound(c, Tally(R, Held(x.tree), {}))
  BY <1>2, UnlistedIs
<1>4. /\ list \in Seq(Pairs) /\ {list[i] : i \in 1..Len(list)} = Held(x.tree)
      /\ \A i, j \in 1..Len(list) : list[i] = list[j] => i = j
  BY <1>2, WalkedIs
<1> HIDE DEF c, list
<1>5. Sound(d, R)
  BY <1>3, <1>4, UnpairedIs
<1> HIDE DEF d
<1>6. y \in States /\ Upright(T!Empty) /\ Held(T!Empty) = {} /\ Once(<<>>) /\ Members(<<>>) = {}
  <2>1. d \in Memory
    BY <1>5 DEF Sound
  <2>2. << >> \in Seq(Keys) /\ 1..Len(<< >>) = {}
    OBVIOUS
  <2> QED
    BY <1>1, <2>1, <2>2, EmptyIs DEF States, Upright, Once, Members
<1>7. KeysOf({}) = {}
  BY DEF KeysOf
<1>8. Tally(R, {}, {}) = R
  <2>1. \A o : Uses({}, o) = 0
    <3>1. \A o : {e \in {} : e.key = o} = {} /\ {e \in {} : e.val = o} = {}
      OBVIOUS
    <3> QED
      BY <3>1, FS_EmptySet DEF Uses
  <2> QED
    BY <2>1 DEF Tally, Tallies, Bit
<1>9. y.tree = T!Empty /\ y.order = <<>> /\ y.mem = d
  BY <1>1
<1> HIDE DEF y
<1>10. Whole(y, R)
  BY <1>5, <1>6, <1>7, <1>8, <1>9 DEF Whole
<1> QED
  BY <1>5, <1>9, <1>10 DEF y

-----------------------------------------------------------------------------
(* Adding all pairs of another map. *)
Copies(x, y, e, keep) == /\ Enters(x, y, e.key, e.val)
                         /\ \A f \in Named(Held(x.tree), e.key) :
                                y.order = x.order /\ Held(y.tree) = (Held(x.tree) \ {f}) \cup {Both(f, e, keep)}

LEMMA CopiedIs ==
    ASSUME NEW R \in Tallies, NEW x, Whole(x, R), NEW e \in Pairs, e.key \in x.mem.live, e.val \in x.mem.live,
           NEW choice \in {"new", "old"}
    PROVE  Whole(Copied(x, e, choice), R) /\ Copies(x, Copied(x, e, choice), e, choice = "old")
<1> DEFINE k == e.key
           v == e.val
           new == CHOOSE n \in Merged(x, k, v, choice) : TRUE
           y == Copied(x, e, choice)
<1>1. k \in Keys \cap x.mem.live /\ v \in Values \cap x.mem.live /\ e = [key |-> k, val |-> v]
  BY DEF Pairs
<1>2. y = Put(x, k, v, new)
  BY DEF Copied
<1>3. Upright(x.tree)
  BY DEF Whole
<1> HIDE DEF k, v, new, y
<1>4. /\ Has(x, k) <=> Named(Held(x.tree), k) # {}
      /\ Has(x, k) => Named(Held(x.tree), k) = {x.tree[Path(x, k)].key}
  BY <1>1, <1>3, HasIs
<1>5. new \in Offered(x, k, v) /\ \A f \in Named(Held(x.tree), k) : (IF choice = "old" THEN f.val ELSE v) = new
  <2>1. CASE choice = "old" /\ Has(x, k)
    <3>1. new = x.tree[Path(x, k)].key.val
      BY <2>1 DEF Merged, new
    <3> QED
      BY <1>4, <2>1, <3>1 DEF Offered
  <2>2. CASE ~ (choice = "old" /\ Has(x, k))
    <3>1. new = v
      BY <2>2 DEF Merged, new
    <3> QED
      BY <1>4, <2>2, <3>1 DEF Offered
  <2> QED
    BY <2>1, <2>2
<1>6. Whole(y, R) /\ Enters(x, y, k, v) /\ Meets(x, y, k, new)
  <2>1. k \in Keys /\ k \in x.mem.live /\ v \in Values /\ v \in x.mem.live
    BY <1>1
  <2> QED
    BY <1>2, <1>5, <2>1, PutIs
<1>7. e.key = k /\ e.val = v
  BY DEF k, v
<1>8. ASSUME NEW f \in Named(Held(x.tree), k) PROVE Both(f, e, choice = "old") = [key |-> f.key, val |-> new]
  BY <1>5, <1>7 DEF Both
<1> QED
  BY <1>6, <1>7, <1>8 DEF y, Copies, Meets

Distinct(A) == \A a, b \in A : Name[a.key] = Name[b.key] => a = b

(* What the pairs A become when the pairs B are added: where both have a   *)
(* name, A has the key, and keep says whether the value too.               *)
Mix(A, B, keep) ==
    {p \in Pairs : \/ p \in A /\ (keep \/ Named(B, p.key) = {})
                   \/ p \in B /\ Named(A, p.key) = {}
                   \/ ~ keep /\ \E f \in A, g \in B : Name[f.key] = Name[g.key] /\ p.key = f.key /\ p.val = g.val}

LEMMA MixOfNone == ASSUME NEW A, A \subseteq Pairs, NEW keep \in BOOLEAN PROVE Mix(A, {}, keep) = A
BY DEF Mix, Named

Mixes(A, B, e, keep) ==
    /\ Named(A, e.key) = {} => /\ Named(Mix(A, B, keep), e.key) = {}
                               /\ Mix(A, B \cup {e}, keep) = Mix(A, B, keep) \cup {e}
    /\ \A f \in Named(A, e.key) :
          /\ f \in Named(Mix(A, B, keep), e.key)
          /\ Mix(A, B \cup {e}, keep) = (Mix(A, B, keep) \ {f}) \cup {Both(f, e, keep)}

LEMMA MixOfMore ==
    ASSUME NEW A, A \subseteq Pairs, Distinct(A), NEW B, B \subseteq Pairs, NEW e \in Pairs, Named(B, e.key) = {}, NEW keep \in BOOLEAN
    PROVE  Mixes(A, B, e, keep)
<1>1. \A b \in B : Name[b.key] # Name[e.key]
  BY DEF Named
<1>2. \A p : Named(B \cup {e}, p.key) = {} <=> (Named(B, p.key) = {} /\ Name[e.key] # Name[p.key])
  BY DEF Named
<1>3. ASSUME Named(A, e.key) = {}
      PROVE  /\ Named(Mix(A, B, keep), e.key) = {}
             /\ Mix(A, B \cup {e}, keep) = Mix(A, B, keep) \cup {e}
  <2>1. \A a \in A : Name[a.key] # Name[e.key]
    BY <1>3 DEF Named
  <2>2. ASSUME NEW p \in Mix(A, B, keep) PROVE Name[p.key] # Name[e.key]
    BY <1>1, <2>1 DEF Mix
  <2>3. Named(Mix(A, B, keep), e.key) = {}
    BY <2>2 DEF Named
  <2>4. ASSUME NEW p \in Pairs PROVE p \in Mix(A, B \cup {e}, keep) <=> p \in Mix(A, B, keep) \cup {e}
    <3>1. p \in A => (Named(B \cup {e}, p.key) = {} <=> Named(B, p.key) = {})
      BY <1>2, <2>1
    <3>2. (\E f \in A, g \in B \cup {e} : Name[f.key] = Name[g.key] /\ p.key = f.key /\ p.val = g.val)
          <=> \E f \in A, g \in B : Name[f.key] = Name[g.key] /\ p.key = f.key /\ p.val = g.val
      BY <2>1
    <3>3. p = e => Named(A, p.key) = {}
      BY <1>3
    <3> QED
      BY <3>1, <3>2, <3>3 DEF Mix
  <2>5. Mix(A, B \cup {e}, keep) \subseteq Pairs /\ Mix(A, B, keep) \cup {e} \subseteq Pairs
    BY DEF Mix
  <2> QED
    BY <2>3, <2>4, <2>5
<1>4. ASSUME NEW f \in Named(A, e.key)
      PROVE  /\ f \in Named(Mix(A, B, keep), e.key)
             /\ Mix(A, B \cup {e}, keep) = (Mix(A, B, keep) \ {f}) \cup {Both(f, e, keep)}
  <2> DEFINE q == Both(f, e, keep)
  <2>1. f \in A /\ Name[f.key] = Name[e.key] /\ f \in Pairs /\ \A a \in A : Name[a.key] = Name[e.key] => a = f
    BY DEF Named, Distinct
  <2>2. Named(B, f.key) = {} /\ f \in Mix(A, B, keep)
    <3>1. Named(B, f.key) = {}
      BY <1>1, <2>1 DEF Named
    <3> QED
      BY <2>1, <3>1 DEF Mix
  <2>3. q \in Pairs /\ q.key = f.key /\ q.val = (IF keep THEN f.val ELSE e.val) /\ (keep => q = f)
        /\ \A p \in Pairs : p.key = q.key /\ p.val = q.val => p = q
    BY <2>1 DEF Pairs, Both
  <2> HIDE DEF q
  <2>4. ASSUME NEW p \in Pairs PROVE p \in Mix(A, B \cup {e}, keep) <=> p \in (Mix(A, B, keep) \ {f}) \cup {q}
    <3>1. Named(A, e.key) # {}
      OBVIOUS
    <3>2. CASE keep
      <4>1. p \in B \cup {e} /\ Named(A, p.key) = {} <=> p \in B /\ Named(A, p.key) = {}
        BY <3>1
      <4> QED
        BY <2>1, <2>2, <2>3, <3>2, <4>1 DEF Mix
    <3>3. CASE ~ keep
      <4>1. p \in A /\ Named(B \cup {e}, p.key) = {} <=> p \in A /\ Named(B, p.key) = {} /\ p # f
        BY <1>2, <2>1
      <4>2. p \in B \cup {e} /\ Named(A, p.key) = {} <=> p \in B /\ Named(A, p.key) = {} /\ p # f
        BY <1>1, <2>1, <3>1
      <4>3. (\E a \in A, g \in B \cup {e} : Name[a.key] = Name[g.key] /\ p.key = a.key /\ p.val = g.val)
            <=> \/ \E a \in A, g \in B : Name[a.key] = Name[g.key] /\ p.key = a.key /\ p.val = g.val
                \/ p = q
        BY <2>1, <2>3, <3>3
      <4>4. ASSUME NEW a \in A, NEW g \in B, Name[a.key] = Name[g.key], p.key = a.key PROVE p # f
        BY <1>1, <2>1, <4>4
      <4> QED
        BY <3>3, <4>1, <4>2, <4>3, <4>4 DEF Mix
    <3> QED
      BY <3>2, <3>3
  <2>5. Mix(A, B \cup {e}, keep) \subseteq Pairs /\ (Mix(A, B, keep) \ {f}) \cup {q} \subseteq Pairs
    BY <2>3 DEF Mix
  <2>6. f \in Named(Mix(A, B, keep), e.key)
    BY <2>1, <2>2 DEF Named
  <2> QED
    BY <2>4, <2>5, <2>6 DEF q
<1> QED
  BY <1>3, <1>4 DEF Mixes

(* A list with each of the pairs B once; what other maps have; and what    *)
(* merging leads to.                                                       *)
Lists(list, B) == /\ list \in Seq(Pairs) /\ B = {list[i] : i \in 1..Len(list)}
                  /\ \A i, j \in 1..Len(list) : Name[list[i].key] = Name[list[j].key] => i = j
Backed(R, B) == \A e \in B : R[e.key] > 0 /\ R[e.val] > 0
Merges(x, y, B, keep) == /\ Held(y.tree) = Mix(Held(x.tree), B, keep)
                         /\ \E news \in Seq(Keys) : y.order = x.order \o news

LEMMA ConcatOfThree ==
    ASSUME NEW a \in Seq(Keys), NEW b \in Seq(Keys), NEW c \in Seq(Keys)
    PROVE  (a \o b) \o c = a \o (b \o c)
BY ConcatAssociative, SMTT(30)

LEMMA PutAllIs ==
    ASSUME NEW R \in Tallies, NEW x, Whole(x, R), NEW choice \in {"new", "old"},
           NEW list, NEW B, Lists(list, B), Backed(R, B) \/ Held(x.tree) = B
    PROVE  Whole(PutAll(x, list, choice), R) /\ Merges(x, PutAll(x, list, choice), B, choice = "old")
<1> DEFINE A == Held(x.tree)
           keep == choice = "old"
           n == Len(list)
           After(f) == [i \in 0..n |-> IF i = 0 THEN x ELSE Copied(f[i - 1], list[i], choice)]
           F == CHOOSE f : f = After(f)
           Counted == Backed(R, B)
           Working == {z \in States : Whole(z, R) /\ (Counted \/ Held(z.tree) = B)}
           g == [i \in 1..n |-> [z \in Working |-> Copied(z, list[i], choice)]]
           Seen(m) == {list[i] : i \in 1..m}
           Good(z, m) == /\ z \in Working
                         /\ Held(z.tree) = Mix(A, Seen(m), keep)
                         /\ \E news \in Seq(Keys) : z.order = x.order \o news
<1>1. /\ n \in Nat /\ (\A i \in 1..n : list[i] \in Pairs) /\ B \subseteq Pairs /\ B = Seen(n)
      /\ \A i, j \in 1..n : Name[list[i].key] = Name[list[j].key] => i = j
  BY DEF Lists
<1>2. PutAll(x, list, choice) = F[n]
  BY DEF PutAll
<1>3. x.order \in Seq(Keys) /\ A \subseteq Pairs /\ Distinct(A)
  BY HeldIs DEF Whole, Once, Distinct
<1>4. x \in Working
  BY DEF Whole
<1> HIDE DEF n, A, keep, Counted
<1>5. Good(x, 0)
  <2>1. Seen(0) = {}
    OBVIOUS
  <2>2. Mix(A, Seen(0), keep) = A
    BY <1>3, <2>1, MixOfNone DEF keep
  <2>3. x.order = x.order \o << >> /\ << >> \in Seq(Keys)
    BY <1>3
  <2> HIDE DEF Working, Seen
  <2> QED
    BY <1>4, <2>2, <2>3 DEF A
<1>6. ASSUME NEW z \in Working, NEW e \in B
      PROVE  /\ e \in Pairs /\ e.key \in z.mem.live /\ e.val \in z.mem.live
             /\ Copied(z, e, choice) \in Working
  <2> HIDE DEF F, g, After, Good, Seen
  <2>1. e \in Pairs /\ e.key \in Objs /\ e.val \in Objs
    BY <1>1 DEF Pairs, Objs
  <2>2. Whole(z, R) /\ Upright(z.tree) /\ Sound(z.mem, Tally(R, Held(z.tree), Members(z.order)))
    BY DEF Whole
  <2> DEFINE C == Held(z.tree)
             W == Tally(R, C, Members(z.order))
  <2>3. IsFiniteSet(C) /\ C \subseteq Pairs /\ \A a, b \in C : Name[a.key] = Name[b.key] => a = b
    BY <2>2, HeldIs
  <2> HIDE DEF C
  <2>4. /\ W \in Tallies
        /\ \A o \in Objs : W[o] >= R[o] /\ (W[o] > R[o] <=> (o \in Members(z.order) \/ Uses(C, o) > 0))
        /\ \A f \in C : Uses(C, f.key) > 0 /\ Uses(C, f.val) > 0
    BY <2>3, TallyIs
  <2> HIDE DEF W
  <2>5. W[e.key] > 0 /\ W[e.val] > 0
    <3>1. \A o \in Objs : W[o] \in Nat /\ R[o] \in Nat
      BY <2>4 DEF Tallies
    <3>2. CASE Counted
      <4>1. R[e.key] > 0 /\ R[e.val] > 0
        BY <3>2 DEF Counted, Backed
      <4> QED
        BY <2>1, <2>4, <3>1, <4>1
    <3>3. CASE C = B
      <4>1. Uses(C, e.key) > 0 /\ Uses(C, e.val) > 0
        BY <2>4, <3>3
      <4>2. W[e.key] > R[e.key] /\ W[e.val] > R[e.val]
        BY <2>1, <2>4, <4>1
      <4> QED
        BY <2>1, <3>1, <4>2
    <3> QED
      BY <3>2, <3>3 DEF C
  <2>6. e.key \in z.mem.live /\ e.val \in z.mem.live
    BY <2>1, <2>2, <2>5 DEF Sound, W, C
  <2> DEFINE y == Copied(z, e, choice)
  <2>7. Whole(y, R) /\ Copies(z, y, e, choice = "old")
    BY ONLY <2>1, <2>2, <2>6, R \in Tallies, choice \in {"new", "old"}, CopiedIs DEF y
  <2> HIDE DEF y
  <2>8. Counted \/ Held(y.tree) = B
    <3>1. CASE C = B
      <4>1. e \in Named(Held(z.tree), e.key)
        BY <3>1 DEF Named, C
      <4>2. Held(y.tree) = (Held(z.tree) \ {e}) \cup {Both(e, e, choice = "old")}
        BY <2>7, <4>1 DEF Copies
      <4>3. Both(e, e, choice = "old") = e
        BY <2>1 DEF Pairs, Both
      <4> QED
        BY <3>1, <4>2, <4>3 DEF C
    <3> QED
      BY <3>1 DEF C
  <2>9. y \in Working
    BY <2>7, <2>8 DEF Whole
  <2> QED
    BY <2>1, <2>6, <2>9 DEF y
<1>7. ASSUME NEW m \in 0..n - 1, NEW z, Good(z, m) PROVE Good(Copied(z, list[m + 1], choice), m + 1)
  <2> HIDE DEF F, g, After
  <2> DEFINE e == list[m + 1]
             y == Copied(z, e, choice)
             S == Seen(m)
             C == Held(z.tree)
  <2>1. m + 1 \in 1..n /\ m \in 0..n
    BY <1>1
  <2>2. e \in B
    BY <1>1, <2>1
  <2>3. Seen(m + 1) = S \cup {e} /\ S \subseteq Pairs /\ Named(S, e.key) = {}
    <3>1. \A i \in 1..m : i \in 1..n /\ i # m + 1
      BY <1>1, <2>1
    <3>2. 1..m + 1 = 1..m \cup {m + 1}
      BY <2>1
    <3> QED
      BY <1>1, <2>1, <3>1, <3>2 DEF Named
  <2> HIDE DEF Seen, e, S
  <2>4. z \in Working /\ C = Mix(A, S, keep)
    BY <1>7 DEF S
  <2>5. PICK news \in Seq(Keys) : z.order = x.order \o news
    BY <1>7
  <2>6. e \in Pairs /\ e.key \in z.mem.live /\ e.val \in z.mem.live /\ y \in Working
    <3> HIDE DEF Working, Good
    <3> QED
      BY <1>6, <2>2, <2>4
  <2>7. Copies(z, y, e, keep)
    <3>1. Whole(z, R)
      BY <2>4
    <3> QED
      BY ONLY <2>6, <3>1, R \in Tallies, choice \in {"new", "old"}, CopiedIs DEF y, keep
  <2> HIDE DEF C, y, Good
  <2>8. keep \in BOOLEAN /\ e = [key |-> e.key, val |-> e.val]
    BY <2>6 DEF keep, Pairs
  <2>9. /\ Named(A, e.key) = {} => Named(C, e.key) = {} /\ Mix(A, Seen(m + 1), keep) = C \cup {e}
        /\ \A f \in Named(A, e.key) :
              /\ f \in Named(C, e.key)
              /\ Mix(A, Seen(m + 1), keep) = (C \ {f}) \cup {Both(f, e, keep)}
    <3>1. Mixes(A, S, e, keep)
      BY <1>3, <2>3, <2>6, <2>8, MixOfMore
    <3> QED
      BY <2>3, <2>4, <3>1 DEF Mixes
  <2>10. Held(y.tree) = Mix(A, Seen(m + 1), keep) /\ (y.order = z.order \/ y.order = Append(z.order, e.key))
    <3>1. CASE Named(A, e.key) = {}
      BY <2>7, <2>8, <2>9, <3>1 DEF Copies, Enters, C
    <3>2. CASE Named(A, e.key) # {}
      <4>1. PICK f : f \in Named(A, e.key)
        BY <3>2
      <4> QED
        BY <2>7, <2>9, <4>1 DEF Copies, C
    <3> QED
      BY <3>1, <3>2
  <2>11. \E more \in Seq(Keys) : y.order = x.order \o more
    <3>1. e.key \in Keys
      BY <2>6 DEF Pairs
    <3>2. Append(news, e.key) \in Seq(Keys)
      BY <3>1
    <3>3. Append(x.order \o news, e.key) = x.order \o Append(news, e.key)
      <4>1. << e.key >> \in Seq(Keys) /\ x.order \o news \in Seq(Keys)
        BY <1>3, <3>1
      <4>2. /\ Append(x.order \o news, e.key) = (x.order \o news) \o << e.key >>
            /\ Append(news, e.key) = news \o << e.key >>
        BY <3>1, <4>1, AppendIsConcat
      <4>3. (x.order \o news) \o << e.key >> = x.order \o (news \o << e.key >>)
        <5>1. x.order \in Seq(Keys) /\ news \in Seq(Keys) /\ << e.key >> \in Seq(Keys)
          BY <1>3, <4>1
        <5> QED
          BY ONLY <5>1, ConcatOfThree
      <4> QED
        BY <4>2, <4>3
    <3> QED
      BY <2>5, <2>10, <3>2, <3>3
  <2> HIDE DEF Working
  <2> QED
    BY <2>6, <2>10, <2>11 DEF Good, y, e
<1>8. \E f : f = After(f)
  <2>1. g \in [1..n -> [Working -> Working]]
    <3> HIDE DEF Working, Good
    <3>1. \A i \in 1..n : list[i] \in B
      BY <1>1
    <3> QED
      BY <1>6, <3>1
  <2>2. PICK f \in [0..n -> Working] : Tree!Runs(f, n, x, g)
    <3> HIDE DEF g, After, F, Good, Working
    <3> QED
      BY ONLY <1>1, <1>4, <2>1, RankIs, Tree!RecursionIs
  <2>3. ASSUME NEW i \in 0..n PROVE f[i] = IF i = 0 THEN x ELSE Copied(f[i - 1], list[i], choice)
    <3>1. i # 0 => i \in 1..n /\ i - 1 \in 0..n
      BY <1>1
    <3> HIDE DEF Good, Working
    <3> QED
      BY <2>2, <3>1 DEF Tree!Runs
  <2>4. f = After(f)
    BY <2>2, <2>3
  <2> QED
    BY <2>4
<1>9. F = After(F)
  BY <1>8
<1>10. F[0] = x /\ \A i \in 1..n : F[i] = Copied(F[i - 1], list[i], choice)
  <2> HIDE DEF F
  <2> QED
    BY <1>1, <1>9
<1> HIDE DEF F, Good, Working
<1> DEFINE G == {m \in 0..n : Good(F[m], m)}
<1>11. 0 \in G
  BY <1>1, <1>5, <1>10
<1>12. ASSUME NEW m \in 0..n - 1, m \in G PROVE m + 1 \in G
  <2>1. (m + 1) - 1 = m /\ m + 1 \in 0..n /\ m + 1 \in 1..n
    BY <1>1
  <2>2. F[m + 1] = Copied(F[m], list[m + 1], choice)
    BY <1>10, <2>1
  <2> QED
    BY <1>7, <1>12, <2>1, <2>2
<1> HIDE DEF G
<1>13. n \in G
  <2>1. \A m \in 0..n : m \in G
    BY ONLY <1>1, <1>11, <1>12, RankIs, Tree!InductionIs
  <2> QED
    BY <1>1, <2>1
<1>14. Good(F[n], n)
  BY <1>13 DEF G
<1> QED
  BY <1>1, <1>2, <1>14 DEF Good, Working, A, keep, Merges

-----------------------------------------------------------------------------
(* The references of several maps, counted as CeeMap counts those of all.  *)
FieldsOf(tr, m) == {[map |-> m, key |-> e.key, val |-> e.val] : e \in Held(tr[m])}
Holding(tr, M) == UNION {FieldsOf(tr, h) : h \in M}
KeyUses(tr, M, o) == {x \in Holding(tr, M) : x.key = o}
ValUses(tr, M, o) == {x \in Holding(tr, M) : x.val = o}
Slots(ord, M, o) == {x \in M \X (1..Cardinality(Keys)) : x[2] \in DOMAIN ord[x[1]] /\ ord[x[1]][x[2]] = o}
Count(tr, ord, M, o) ==
    Cardinality(KeyUses(tr, M, o)) + Cardinality(ValUses(tr, M, o)) + Cardinality(Slots(ord, M, o))

Fit(t, l) == Upright(t) /\ Once(l) /\ Members(l) = KeysOf(Held(t))

LEMMA OnceLen == ASSUME NEW l, Once(l) PROVE Len(l) \in Nat /\ Len(l) <= Cardinality(Keys) /\ DOMAIN l = 1..Len(l)
<1>1. Len(l) \in Nat /\ l \in [1..Len(l) -> Keys] /\ \A i, j \in 1..Len(l) : l[i] = l[j] => i = j
  BY DEF Once
<1>2. l \in Injection(1..Len(l), Keys)
  BY <1>1 DEF Injection, IsInjective
<1>3. Cardinality(1..Len(l)) = Len(l)
  BY <1>1, FS_Interval
<1>4. Cardinality(1..Len(l)) <= Cardinality(Keys)
  BY <1>2, MapAssumption, FS_Injection
<1> QED
  BY <1>1, <1>3, <1>4

LEMMA HoldingFinite ==
    ASSUME NEW M, IsFiniteSet(M), NEW tr, \A h \in M : Upright(tr[h])
    PROVE  IsFiniteSet(Holding(tr, M))
<1> DEFINE All == {FieldsOf(tr, h) : h \in M}
<1>1. IsFiniteSet(All)
  <2> DEFINE f == [h \in M |-> FieldsOf(tr, h)]
  <2>1. f \in Surjection(M, All)
    BY DEF Surjection
  <2> QED
    BY <2>1, FS_Surjection
<1>2. ASSUME NEW h \in M PROVE IsFiniteSet(FieldsOf(tr, h))
  <2> DEFINE f == [e \in Held(tr[h]) |-> [map |-> h, key |-> e.key, val |-> e.val]]
  <2>1. IsFiniteSet(Held(tr[h]))
    BY HeldIs
  <2>2. f \in Surjection(Held(tr[h]), FieldsOf(tr, h))
    BY DEF Surjection, FieldsOf
  <2> QED
    BY <2>1, <2>2, FS_Surjection
<1>3. \A S \in All : IsFiniteSet(S)
  BY <1>2
<1> HIDE DEF All
<1>4. IsFiniteSet(UNION All)
  BY <1>1, <1>3, FS_UNION
<1> QED
  BY <1>4 DEF All, Holding

LEMMA UnionCard ==
    ASSUME NEW S, NEW U, IsFiniteSet(S), IsFiniteSet(U), S \cap U = {}
    PROVE  Cardinality(S \cup U) = Cardinality(S) + Cardinality(U)
<1>1. Cardinality(S \cup U) = Cardinality(S) + Cardinality(U) - Cardinality(S \cap U)
  BY FS_Union
<1>2. Cardinality(S) \in Nat /\ Cardinality(U) \in Nat /\ Cardinality(S \cap U) = 0
  BY FS_CardinalityType, FS_EmptySet
<1> QED
  BY <1>1, <1>2

(* One map more. *)
LEMMA CountOf ==
    ASSUME NEW M, IsFiniteSet(M), NEW n, n \notin M, NEW tr, NEW ord,
           \A h \in M \cup {n} : Fit(tr[h], ord[h]), NEW o
    PROVE  /\ Count(tr, ord, M, o) \in Nat
           /\ Count(tr, ord, M \cup {n}, o)
              = Count(tr, ord, M, o) + Uses(Held(tr[n]), o) + Bit(o \in Members(ord[n]))
<1> DEFINE N == M \cup {n}
           A == Held(tr[n])
           k == Cardinality(Keys)
<1>0. \A h \in N : Upright(tr[h]) /\ Once(ord[h])
  BY DEF Fit
<1>1. IsFiniteSet(Holding(tr, M)) /\ IsFiniteSet(FieldsOf(tr, n)) /\ IsFiniteSet(A)
  <2>1. IsFiniteSet(Holding(tr, M)) /\ IsFiniteSet(Holding(tr, {n}))
    BY <1>0, HoldingFinite, FS_Singleton
  <2>2. Holding(tr, {n}) = FieldsOf(tr, n)
    BY DEF Holding
  <2>3. IsFiniteSet(A)
    BY <1>0, HeldIs
  <2> QED
    BY <2>1, <2>2, <2>3
<1>2. Holding(tr, N) = Holding(tr, M) \cup FieldsOf(tr, n)
  BY DEF Holding
<1>3. \A x \in Holding(tr, M) : x.map \in M
  BY DEF Holding, FieldsOf
<1>4. \A x \in FieldsOf(tr, n) : x.map = n
  BY DEF FieldsOf
<1>5. \A e \in A : e \in Pairs
  BY <1>0, HeldIs
<1> DEFINE FK == {x \in FieldsOf(tr, n) : x.key = o}
           FV == {x \in FieldsOf(tr, n) : x.val = o}
           AK == {e \in A : e.key = o}
           AV == {e \in A : e.val = o}
<1>6. KeyUses(tr, N, o) = KeyUses(tr, M, o) \cup FK /\ KeyUses(tr, M, o) \cap FK = {}
  BY <1>2, <1>3, <1>4 DEF KeyUses
<1>7. ValUses(tr, N, o) = ValUses(tr, M, o) \cup FV /\ ValUses(tr, M, o) \cap FV = {}
  BY <1>2, <1>3, <1>4 DEF ValUses
<1>8. /\ IsFiniteSet(KeyUses(tr, M, o)) /\ IsFiniteSet(ValUses(tr, M, o)) /\ IsFiniteSet(FK) /\ IsFiniteSet(FV)
      /\ IsFiniteSet(AK) /\ IsFiniteSet(AV)
  BY <1>1, FS_Subset DEF KeyUses, ValUses
<1> DEFINE f == [e \in A |-> [map |-> n, key |-> e.key, val |-> e.val]]
<1>9. /\ \A e \in A : f[e] \in FieldsOf(tr, n) /\ f[e].key = e.key /\ f[e].val = e.val
      /\ \A x \in FieldsOf(tr, n) : \E e \in A : x = f[e]
      /\ \A d, e \in A : f[d] = f[e] => d = e
  <2>1. \A d, e \in A : d.key = e.key /\ d.val = e.val => d = e
    BY <1>5 DEF Pairs
  <2>2. \A e \in A : f[e] = [map |-> n, key |-> e.key, val |-> e.val]
    OBVIOUS
  <2>3. \A x \in FieldsOf(tr, n) : \E e \in A : x = f[e]
    BY DEF FieldsOf
  <2>4. \A e \in A : f[e] \in FieldsOf(tr, n)
    BY DEF FieldsOf
  <2>5. \A e \in A : f[e].key = e.key /\ f[e].val = e.val
    BY <2>2
  <2> HIDE DEF f
  <2> QED
    BY <2>1, <2>3, <2>4, <2>5
<1> HIDE DEF f
<1>10. Cardinality(FK) = Cardinality(AK)
  <2> DEFINE b == [e \in AK |-> f[e]]
  <2>1. b \in Bijection(AK, FK)
    BY <1>9 DEF Bijection, Injection, Surjection, IsInjective
  <2> QED
    BY <1>8, <2>1, FS_Bijection DEF ExistsBijection
<1>11. Cardinality(FV) = Cardinality(AV)
  <2> DEFINE b == [e \in AV |-> f[e]]
  <2>1. b \in Bijection(AV, FV)
    BY <1>9 DEF Bijection, Injection, Surjection, IsInjective
  <2> QED
    BY <1>8, <2>1, FS_Bijection DEF ExistsBijection
<1>12. Slots(ord, N, o) = Slots(ord, M, o) \cup Slots(ord, {n}, o) /\ Slots(ord, M, o) \cap Slots(ord, {n}, o) = {}
  BY DEF Slots
<1>13. IsFiniteSet(Slots(ord, M, o)) /\ IsFiniteSet(Slots(ord, {n}, o))
  <2>1. k \in Nat
    BY MapAssumption, FS_CardinalityType
  <2>2. IsFiniteSet(1..k)
    BY <2>1, FS_Interval
  <2>3. IsFiniteSet(M \X (1..k)) /\ IsFiniteSet({n} \X (1..k))
    BY <2>2, FS_Product, FS_Singleton
  <2> QED
    BY <2>3, FS_Subset DEF Slots
<1>14. Cardinality(Slots(ord, {n}, o)) = Bit(o \in Members(ord[n]))
  <2> DEFINE l == ord[n]
  <2>1. Len(l) \in Nat /\ Len(l) <= k /\ DOMAIN l = 1..Len(l) /\ \A i, j \in 1..Len(l) : l[i] = l[j] => i = j
    BY <1>0, OnceLen DEF Once
  <2>2. CASE o \in Members(l)
    <3>1. PICK i \in 1..Len(l) : l[i] = o
      BY <2>2 DEF Members
    <3>2. k \in Nat
      BY MapAssumption, FS_CardinalityType
    <3>3. i \in 1..k
      BY <2>1, <3>1, <3>2
    <3>4. Slots(ord, {n}, o) = {<<n, i>>}
      BY <2>1, <3>1, <3>3 DEF Slots
    <3> QED
      BY <2>2, <3>4, FS_Singleton DEF Bit
  <2>3. CASE o \notin Members(l)
    <3>1. Slots(ord, {n}, o) = {}
      BY <2>1, <2>3 DEF Slots, Members
    <3> QED
      BY <2>3, <3>1, FS_EmptySet DEF Bit
  <2> QED
    BY <2>2, <2>3
<1> HIDE DEF FK, FV, AK, AV, N, k
<1> DEFINE cK == Cardinality(KeyUses(tr, M, o))
           cV == Cardinality(ValUses(tr, M, o))
           cS == Cardinality(Slots(ord, M, o))
<1>15. cK \in Nat /\ cV \in Nat /\ cS \in Nat /\ Cardinality(AK) \in Nat /\ Cardinality(AV) \in Nat
  BY <1>8, <1>13, FS_CardinalityType
<1>16. Cardinality(KeyUses(tr, N, o)) = cK + Cardinality(AK)
  BY <1>6, <1>8, <1>10, UnionCard
<1>17. Cardinality(ValUses(tr, N, o)) = cV + Cardinality(AV)
  BY <1>7, <1>8, <1>11, UnionCard
<1>18. Cardinality(Slots(ord, N, o)) = cS + Bit(o \in Members(ord[n]))
  BY <1>12, <1>13, <1>14, UnionCard
<1>19. Uses(A, o) = Cardinality(AK) + Cardinality(AV)
  BY DEF Uses, AK, AV
<1>20. Count(tr, ord, M, o) = cK + cV + cS
  BY DEF Count
<1>21. Count(tr, ord, N, o) = Cardinality(KeyUses(tr, N, o)) + Cardinality(ValUses(tr, N, o)) + Cardinality(Slots(ord, N, o))
  BY DEF Count
<1>22. Bit(o \in Members(ord[n])) \in {0, 1}
  BY DEF Bit
<1> HIDE DEF cK, cV, cS, A
<1>23. Count(tr, ord, N, o) = Count(tr, ord, M, o) + Uses(A, o) + Bit(o \in Members(ord[n]))
  BY <1>15, <1>16, <1>17, <1>18, <1>19, <1>20, <1>21, <1>22
<1> QED
  BY <1>15, <1>20, <1>23 DEF N, A

-----------------------------------------------------------------------------
(* The inductive invariant: the tree and the list of each map have the     *)
(* same keys, the memory is sound for what all maps refer to, and a map    *)
(* that does not exist is empty.                                           *)
Refs(tr, ord) == [o \in Objs |-> Count(tr, ord, Maps, o)]
Rest(tr, ord, m) == [o \in Objs |-> Count(tr, ord, Maps \ {m}, o)]

Shape(tr, ord) == /\ tr \in [Maps -> Trees] /\ ord \in [Maps -> Seq(Keys)]
                  /\ \A m \in Maps : Fit(tr[m], ord[m])
Blank(m) == tree[m] = T!Empty /\ order[m] = <<>>

Ind == /\ made \subseteq Maps /\ Shape(tree, order) /\ Sound(mem, Refs(tree, order))
       /\ \A m \in Maps \ made : Blank(m)

LEMMA ReferencesIs == \A o : References(o) = Count(tree, order, Maps, o)
BY DEF References, Count, KeyUses, ValUses, Slots, Holding, Fields, FieldsOf, Held

LEMMA RestIs ==
    ASSUME NEW tr, NEW ord, Shape(tr, ord), NEW m \in Maps
    PROVE  /\ Rest(tr, ord, m) \in Tallies
           /\ Refs(tr, ord) = Tally(Rest(tr, ord, m), Held(tr[m]), Members(ord[m]))
<1> DEFINE M == Maps \ {m}
<1>1. IsFiniteSet(M) /\ m \notin M /\ Maps = M \cup {m}
  BY MapAssumption, FS_RemoveElement
<1>2. \A h \in M \cup {m} : Fit(tr[h], ord[h])
  BY <1>1 DEF Shape
<1> HIDE DEF M
<1>3. \A o : /\ Count(tr, ord, M, o) \in Nat
             /\ Count(tr, ord, M \cup {m}, o) = Count(tr, ord, M, o) + Uses(Held(tr[m]), o) + Bit(o \in Members(ord[m]))
  BY <1>1, <1>2, CountOf
<1>4. Rest(tr, ord, m) = [o \in Objs |-> Count(tr, ord, M, o)]
  BY DEF Rest, M
<1>5. Refs(tr, ord) = [o \in Objs |-> Count(tr, ord, M \cup {m}, o)]
  BY <1>1 DEF Refs
<1> QED
  BY <1>3, <1>4, <1>5 DEF Tallies, Tally

(* The rest counts what any other map holds. *)
LEMMA RestHas ==
    ASSUME NEW tr, NEW ord, Shape(tr, ord), NEW m \in Maps, NEW n \in Maps, n # m, NEW e \in Held(tr[n])
    PROVE  Rest(tr, ord, m)[e.key] > 0 /\ Rest(tr, ord, m)[e.val] > 0
<1> DEFINE M == (Maps \ {m}) \ {n}
<1>1. IsFiniteSet(M) /\ n \notin M /\ Maps \ {m} = M \cup {n}
  BY MapAssumption, FS_RemoveElement
<1>2. \A h \in M \cup {n} : Fit(tr[h], ord[h])
  BY DEF Shape
<1> HIDE DEF M
<1>3. \A o : /\ Count(tr, ord, M, o) \in Nat
             /\ Count(tr, ord, M \cup {n}, o) = Count(tr, ord, M, o) + Uses(Held(tr[n]), o) + Bit(o \in Members(ord[n]))
  BY <1>1, <1>2, CountOf
<1>4. Rest(tr, ord, m) = [o \in Objs |-> Count(tr, ord, M \cup {n}, o)]
  BY <1>1 DEF Rest
<1>5. Upright(tr[n])
  BY <1>2 DEF Fit
<1>6. IsFiniteSet(Held(tr[n])) /\ e.key \in Objs /\ e.val \in Objs
  BY <1>5, HeldIs DEF Objs
<1>7. Uses(Held(tr[n]), e.key) \in Nat /\ Uses(Held(tr[n]), e.key) > 0
      /\ Uses(Held(tr[n]), e.val) \in Nat /\ Uses(Held(tr[n]), e.val) > 0
  BY <1>6, UsesIs
<1>8. \A b : Bit(b) \in {0, 1}
  BY DEF Bit
<1>9. ASSUME NEW o \in Objs, Uses(Held(tr[n]), o) \in Nat, Uses(Held(tr[n]), o) > 0
      PROVE  Count(tr, ord, M \cup {n}, o) > 0
  <2> DEFINE a == Count(tr, ord, M, o)
             b == Uses(Held(tr[n]), o)
             c == Bit(o \in Members(ord[n]))
  <2>1. a \in Nat /\ Count(tr, ord, M \cup {n}, o) = a + b + c /\ c \in {0, 1} /\ b \in Nat /\ b > 0
    BY <1>3, <1>8, <1>9
  <2> HIDE DEF a, b, c
  <2> QED
    BY <2>1
<1> QED
  BY <1>4, <1>6, <1>7, <1>9

(* The rest stays while only the one map changes. *)
Agree(tr, ord, tr2, ord2, m) == \A h \in Maps \ {m} : tr2[h] = tr[h] /\ ord2[h] = ord[h]

LEMMA RestStays ==
    ASSUME NEW tr, NEW ord, NEW tr2, NEW ord2, NEW m, Agree(tr, ord, tr2, ord2, m)
    PROVE  Rest(tr2, ord2, m) = Rest(tr, ord, m)
<1> DEFINE M == Maps \ {m}
<1>1. \A h \in M : tr2[h] = tr[h] /\ ord2[h] = ord[h]
  BY DEF Agree
<1> HIDE DEF M
<1>2. Holding(tr2, M) = Holding(tr, M)
  <2>1. \A h \in M : FieldsOf(tr2, h) = FieldsOf(tr, h)
    BY <1>1 DEF FieldsOf
  <2> QED
    BY <2>1 DEF Holding
<1>3. \A o : Slots(ord2, M, o) = Slots(ord, M, o)
  BY <1>1 DEF Slots
<1>4. \A o : Count(tr2, ord2, M, o) = Count(tr, ord, M, o)
  BY <1>2, <1>3 DEF Count, KeyUses, ValUses
<1> QED
  BY <1>4 DEF Rest, M

LEMMA MapIs ==
    ASSUME Ind, NEW m \in Maps
    PROVE  /\ Whole(Map(m), Rest(tree, order, m)) /\ Rest(tree, order, m) \in Tallies
           /\ Map(m).tree = tree[m] /\ Map(m).order = order[m] /\ Map(m).mem = mem
           /\ Upright(tree[m]) /\ Once(order[m]) /\ Members(order[m]) = KeysOf(Held(tree[m]))
<1>1. Rest(tree, order, m) \in Tallies /\ Refs(tree, order) = Tally(Rest(tree, order, m), Held(tree[m]), Members(order[m]))
  BY RestIs DEF Ind
<1>2. Fit(tree[m], order[m]) /\ tree[m] \in Trees /\ order[m] \in Seq(Keys) /\ mem \in Memory
  BY DEF Ind, Shape, Sound
<1>3. Map(m).tree = tree[m] /\ Map(m).order = order[m] /\ Map(m).mem = mem /\ Map(m) \in States
  BY <1>2 DEF Map, States
<1>4. Sound(mem, Tally(Rest(tree, order, m), Held(tree[m]), Members(order[m])))
  BY <1>1 DEF Ind
<1> QED
  BY <1>1, <1>2, <1>3, <1>4 DEF Whole, Fit

LEMMA BecomesKeeps ==
    ASSUME Ind, NEW m \in Maps, NEW s, Whole(s, Rest(tree, order, m)), Becomes(m, s),
           \/ made' \in {made, made \cup {m}} /\ m \in made'
           \/ made' = made \ {m} /\ s.tree = T!Empty /\ s.order = <<>>
    PROVE  Ind'
<1>1. /\ s \in States /\ Fit(s.tree, s.order)
      /\ Sound(s.mem, Tally(Rest(tree, order, m), Held(s.tree), Members(s.order)))
  BY DEF Whole, Fit
<1>2. s.tree \in Trees /\ s.order \in Seq(Keys)
  BY <1>1 DEF States
<1>3. tree' = [tree EXCEPT ![m] = s.tree] /\ order' = [order EXCEPT ![m] = s.order] /\ mem' = s.mem
  BY DEF Becomes
<1>4. Shape(tree, order)
  BY DEF Ind
<1>5. /\ tree'[m] = s.tree /\ order'[m] = s.order
      /\ \A h \in Maps \ {m} : tree'[h] = tree[h] /\ order'[h] = order[h]
      /\ tree' \in [Maps -> Trees] /\ order' \in [Maps -> Seq(Keys)]
  BY <1>2, <1>3, <1>4 DEF Shape
<1>6. Shape(tree', order')
  BY <1>1, <1>4, <1>5 DEF Shape
<1>7. Refs(tree', order') = Tally(Rest(tree', order', m), Held(tree'[m]), Members(order'[m]))
  BY <1>6, RestIs
<1>8. Rest(tree', order', m) = Rest(tree, order, m)
  <2>1. Agree(tree, order, tree', order', m)
    BY <1>5 DEF Agree
  <2> QED
    BY <2>1, RestStays
<1>9. Sound(mem', Refs(tree', order'))
  BY <1>1, <1>3, <1>5, <1>7, <1>8
<1>10. made' \subseteq Maps
  BY DEF Ind
<1>11. ASSUME NEW h \in Maps \ made' PROVE tree'[h] = T!Empty /\ order'[h] = <<>>
  <2>1. CASE h = m
    BY <1>5, <1>11, <2>1
  <2>2. CASE h # m
    <3>1. h \in Maps \ made
      BY <1>11, <2>2
    <3> QED
      BY <1>5, <2>2, <3>1 DEF Ind, Blank
  <2> QED
    BY <2>1, <2>2
<1> QED
  BY <1>6, <1>9, <1>10, <1>11 DEF Ind, Blank

-----------------------------------------------------------------------------
(* What the operations make of a map. *)

(* What is listed or held is allocated. *)
LEMMA LiveIs ==
    ASSUME NEW R \in Tallies, NEW x, Whole(x, R), NEW e \in Held(x.tree)
    PROVE  e.key \in x.mem.live /\ e.val \in x.mem.live /\ e.key \in Keys /\ e.val \in Values
<1> DEFINE A == Held(x.tree)
           W == Tally(R, A, Members(x.order))
<1>1. Upright(x.tree) /\ Sound(x.mem, W)
  BY DEF Whole
<1>2. IsFiniteSet(A) /\ e \in A /\ e.key \in Keys /\ e.val \in Values /\ e.key \in Objs /\ e.val \in Objs
  BY <1>1, HeldIs DEF Objs
<1> HIDE DEF A
<1>3. /\ W \in Tallies
      /\ \A o \in Objs : W[o] >= R[o] /\ (W[o] > R[o] <=> (o \in Members(x.order) \/ Uses(A, o) > 0))
      /\ Uses(A, e.key) > 0 /\ Uses(A, e.val) > 0
  BY <1>2, TallyIs
<1> HIDE DEF W
<1>4. \A o \in Objs : W[o] \in Nat /\ R[o] \in Nat
  BY <1>3 DEF Tallies
<1>5. W[e.key] > R[e.key] /\ W[e.val] > R[e.val]
  BY <1>2, <1>3
<1>6. W[e.key] > 0 /\ W[e.val] > 0
  BY <1>2, <1>4, <1>5
<1> QED
  BY <1>1, <1>2, <1>6 DEF Sound

(* A key of this name is there. *)
LEMMA FoundIs ==
    ASSUME Ind, NEW m \in Maps, NEW k \in Keys, Has(Map(m), k)
    PROVE  /\ tree[m][Path(Map(m), k)].key \in Named(Held(tree[m]), k)
           /\ Named(Held(tree[m]), k) = {tree[m][Path(Map(m), k)].key}
<1>1. Upright(Map(m).tree) /\ Map(m).tree = tree[m]
  BY MapIs
<1> QED
  BY <1>1, HasIs

LEMMA OfferedIs ==
    ASSUME Ind, NEW m \in Maps, NEW k \in Keys, NEW v, NEW c \in {"new", "old"}, NEW new \in Merged(Map(m), k, v, c)
    PROVE  new \in Offered(Map(m), k, v)
<1>1. CASE c = "old" /\ Has(Map(m), k)
  <2>1. new = Map(m).tree[Path(Map(m), k)].key.val
    BY <1>1 DEF Merged
  <2> QED
    BY <1>1, <2>1, FoundIs, MapIs DEF Offered
<1>2. CASE ~ (c = "old" /\ Has(Map(m), k))
  <2>1. new = v
    BY <1>2 DEF Merged
  <2> QED
    BY <2>1 DEF Offered
<1> QED
  BY <1>1, <1>2

LEMMA AddIs ==
    ASSUME Ind, "other" \notin MergeChoices, NEW m \in Maps, NEW k \in Keys, NEW v \in Values, {k, v} \subseteq mem.live,
           NEW new \in UNION {Merged(Map(m), k, v, c) : c \in MergeChoices}
    PROVE  /\ Whole(Put(Map(m), k, v, new), Rest(tree, order, m))
           /\ new \in Offered(Map(m), k, v)
           /\ Enters(Map(m), Put(Map(m), k, v, new), k, v) /\ Meets(Map(m), Put(Map(m), k, v, new), k, new)
<1>1. MergeChoices \subseteq {"new", "old"}
  BY MapAssumption
<1>2. new \in Offered(Map(m), k, v)
  BY <1>1, OfferedIs
<1>3. /\ Whole(Map(m), Rest(tree, order, m)) /\ Rest(tree, order, m) \in Tallies
      /\ k \in Map(m).mem.live /\ v \in Map(m).mem.live
  BY MapIs
<1> QED
  BY <1>2, <1>3, PutIs

LEMMA RemoveIs ==
    ASSUME Ind, NEW m \in Maps, NEW k \in Keys, Has(Map(m), k)
    PROVE  /\ Whole(Taken(Map(m), k), Rest(tree, order, m)) /\ Taken(Map(m), k).mem.live = mem.live
           /\ Drops(Map(m), Taken(Map(m), k), tree[m][Path(Map(m), k)].key, k)
<1> DEFINE x == Map(m)
           e == tree[m][Path(x, k)].key
           R == Rest(tree, order, m)
<1>1. Whole(x, R) /\ R \in Tallies /\ x.tree = tree[m] /\ x.mem = mem
  BY MapIs
<1>2. e \in Named(Held(x.tree), k)
  BY <1>1, FoundIs
<1> HIDE DEF x, R, e
<1>3. Whole(Taken(x, k), R) /\ Taken(x, k).mem.live = x.mem.live /\ Drops(x, Taken(x, k), e, k)
  BY <1>1, <1>2, TakenIs
<1> QED
  BY <1>1, <1>3 DEF x, R, e

LEMMA RenameIs ==
    ASSUME Ind, NEW m \in Maps, NEW k \in Keys, NEW new \in Keys, {k, new} \subseteq mem.live, Has(Map(m), k),
           NEW v, v = tree[m][Path(Map(m), k)].key.val
    PROVE  /\ Whole(Put(Taken(Map(m), k), new, v, v), Rest(tree, order, m))
           /\ v \in Values /\ Upright(Taken(Map(m), k).tree)
           /\ Enters(Taken(Map(m), k), Put(Taken(Map(m), k), new, v, v), new, v)
           /\ Meets(Taken(Map(m), k), Put(Taken(Map(m), k), new, v, v), new, v)
<1> DEFINE y == Taken(Map(m), k)
           R == Rest(tree, order, m)
<1>1. Whole(y, R) /\ y.mem.live = mem.live /\ R \in Tallies
  BY RemoveIs, MapIs
<1>2. v \in Values /\ v \in mem.live
  <2>1. /\ tree[m][Path(Map(m), k)].key \in Held(Map(m).tree)
        /\ Whole(Map(m), R) /\ Map(m).mem = mem
    BY FoundIs, MapIs DEF Named
  <2> HIDE DEF R
  <2> QED
    BY <1>1, <2>1, LiveIs
<1>3. v \in Offered(y, new, v)
  BY DEF Offered
<1> HIDE DEF y, R
<1>4. Whole(Put(y, new, v, v), R) /\ Enters(y, Put(y, new, v, v), new, v) /\ Meets(y, Put(y, new, v, v), new, v)
  BY <1>1, <1>2, <1>3, PutIs
<1> QED
  BY <1>1, <1>2, <1>4 DEF y, R, Whole

(* Merging takes the pairs of the other map in, or of the map itself. *)

LEMMA MergeIs ==
    ASSUME Ind, NEW m \in Maps, NEW n \in Maps, NEW c \in {"new", "old"}
    PROVE  /\ Whole(PutAll(Map(m), Walked(tree[n]), c), Rest(tree, order, m))
           /\ Merges(Map(m), PutAll(Map(m), Walked(tree[n]), c), Held(tree[n]), c = "old")
<1> DEFINE x == Map(m)
           R == Rest(tree, order, m)
           list == Walked(tree[n])
           B == Held(tree[n])
<1>1. Whole(x, R) /\ R \in Tallies /\ x.tree = tree[m] /\ Upright(tree[n])
  BY MapIs
<1>2. Lists(list, B)
  BY <1>1, WalkedIs DEF Lists
<1>3. Backed(R, B) \/ Held(x.tree) = B
  <2>1. CASE n = m
    BY <1>1, <2>1
  <2>2. CASE n # m
    BY <2>2, RestHas DEF Ind, Backed
  <2> QED
    BY <2>1, <2>2
<1> HIDE DEF x, R, list, B
<1>4. Whole(PutAll(x, list, c), R) /\ Merges(x, PutAll(x, list, c), B, c = "old")
  BY <1>1, <1>2, <1>3, PutAllIs
<1> QED
  BY <1>4 DEF x, R, list, B

-----------------------------------------------------------------------------
(* The steps. *)
LEMMA InitKeeps == Init => Ind
<1> SUFFICES ASSUME Init PROVE Ind
  OBVIOUS
<1>1. /\ made = {} /\ \A m \in Maps : tree[m] = T!Empty /\ order[m] = <<>>
      /\ mem = [live |-> {}, rc |-> [o \in Objs |-> 0], fault |-> FALSE]
  BY DEF Init
<1>2. Upright(T!Empty) /\ Held(T!Empty) = {} /\ Once(<<>>) /\ Members(<<>>) = {} /\ KeysOf({}) = {} /\ << >> \in Seq(Keys)
  BY EmptyIs DEF Once, Members, KeysOf
<1>3. Shape(tree, order)
  <2>1. T!Empty \in Trees
    BY <1>2 DEF Upright
  <2> QED
    BY <1>1, <1>2, <2>1 DEF Init, Shape, Fit
<1>4. \A o : Count(tree, order, Maps, o) = 0
  <2>1. Holding(tree, Maps) = {}
    BY <1>1, <1>2 DEF Holding, FieldsOf
  <2>2. \A o : Slots(order, Maps, o) = {}
    BY <1>1 DEF Slots
  <2>3. \A o : KeyUses(tree, Maps, o) = {} /\ ValUses(tree, Maps, o) = {}
    BY <2>1 DEF KeyUses, ValUses
  <2> QED
    BY <2>2, <2>3, FS_EmptySet DEF Count
<1>5. Refs(tree, order) = [o \in Objs |-> 0]
  BY <1>4 DEF Refs
<1>6. Sound(mem, Refs(tree, order))
  BY <1>1, <1>5 DEF Sound, Memory, Objs
<1> QED
  BY <1>1, <1>3, <1>6 DEF Ind, Blank

LEMMA StutterKeeps == ASSUME Ind, UNCHANGED vars PROVE Ind'
<1>1. tree' = tree /\ order' = order /\ made' = made /\ mem' = mem
  BY DEF vars
<1> QED
  BY <1>1 DEF Ind, Blank

LEMMA NewKeeps == ASSUME Ind, NEW o \in Objs, New(o) PROVE Ind'
<1> DEFINE W == Refs(tree, order)
           d == [mem EXCEPT !.live = mem.live \cup {o}]
<1>1. /\ o \notin mem.live /\ mem' = d /\ tree' = tree /\ order' = order /\ made' = made
  BY DEF New
<1>2. Sound(mem, W) /\ mem \in Memory
  BY DEF Ind, Sound
<1>3. d \in Memory /\ d.live = mem.live \cup {o} /\ d.rc = mem.rc /\ d.fault = mem.fault
  BY <1>2 DEF Memory
<1>4. W[o] \in Nat
  <2>1. ASSUME NEW h \in Maps PROVE Fit(tree[h], order[h])
    BY DEF Ind, Shape
  <2>2. CASE Maps = {}
    <3>1. Holding(tree, Maps) = {} /\ Slots(order, Maps, o) = {}
      BY <2>2 DEF Holding, Slots
    <3>2. KeyUses(tree, Maps, o) = {} /\ ValUses(tree, Maps, o) = {}
      BY <3>1 DEF KeyUses, ValUses
    <3>3. Count(tree, order, Maps, o) = 0
      BY <3>1, <3>2, FS_EmptySet DEF Count
    <3> QED
      BY <3>3 DEF Refs
  <2>3. CASE Maps # {}
    <3>1. PICK m \in Maps : TRUE
      BY <2>3
    <3>2. /\ Rest(tree, order, m) \in Tallies
          /\ W = Tally(Rest(tree, order, m), Held(tree[m]), Members(order[m])) /\ IsFiniteSet(Held(tree[m]))
      BY <2>1, <3>1, RestIs, HeldIs DEF Ind, Fit
    <3>3. W \in Tallies
      BY <3>2, TallyIs
    <3> QED
      BY <3>3 DEF Tallies
  <2> QED
    BY <2>2, <2>3
<1> HIDE DEF d, W
<1>5. W[o] = 0 /\ mem.rc[o] = 0
  BY <1>1, <1>2, <1>4 DEF Sound
<1>6. Sound(d, W)
  BY <1>2, <1>3, <1>5 DEF Sound
<1>7. Sound(mem', Refs(tree', order'))
  BY <1>1, <1>6 DEF W
<1> QED
  BY <1>1, <1>7 DEF Ind, Blank

LEMMA NextKeeps == ASSUME Ind, "other" \notin MergeChoices, Next PROVE Ind'
<1>0. MergeChoices \subseteq {"new", "old"} /\ made \subseteq Maps
  BY MapAssumption DEF Ind
<1>1. ASSUME NEW o \in Objs, New(o) PROVE Ind'
  BY <1>1, NewKeeps
<1>2. ASSUME NEW m \in Maps, Make(m) PROVE Ind'
  <2>1. tree' = tree /\ order' = order /\ mem' = mem /\ made' = made \cup {m}
    BY <1>2 DEF Make
  <2> QED
    BY <2>1 DEF Ind, Blank
<1>3. ASSUME NEW m \in Maps, NEW n \in made, Clone(m, n) PROVE Ind'
  <2>1. Whole(PutAll(Map(m), Walked(tree[n]), "new"), Rest(tree, order, m))
    BY <1>0, <1>3, MergeIs
  <2> QED
    BY <1>3, <2>1, BecomesKeeps DEF Clone
<1>4. ASSUME NEW m \in made, Delete(m) PROVE Ind'
  <2>1. /\ Destroyed(Map(m)).tree = T!Empty /\ Destroyed(Map(m)).order = <<>>
        /\ Whole(Destroyed(Map(m)), Rest(tree, order, m))
    <3>1. Whole(Map(m), Rest(tree, order, m)) /\ Rest(tree, order, m) \in Tallies
      BY <1>0, <1>4, MapIs
    <3> QED
      BY <3>1, DestroyedIs
  <2>2. made' = made \ {m} /\ Becomes(m, Destroyed(Map(m))) /\ m \in Maps
    BY <1>0, <1>4 DEF Delete
  <2> QED
    BY <2>1, <2>2, BecomesKeeps
<1>5. ASSUME NEW m \in made, NEW n \in made, Merge(m, n) PROVE Ind'
  <2>1. PICK c \in MergeChoices : Becomes(m, PutAll(Map(m), Walked(tree[n]), c))
    BY <1>5 DEF Merge
  <2>2. Whole(PutAll(Map(m), Walked(tree[n]), c), Rest(tree, order, m))
    BY <1>0, <2>1, MergeIs
  <2>3. made' = made /\ m \in Maps
    BY <1>0, <1>5 DEF Merge
  <2> QED
    BY <2>1, <2>2, <2>3, BecomesKeeps
<1>6. ASSUME NEW m \in made, NEW k \in Keys, RemoveKey(m, k) PROVE Ind'
  <2>1. Has(Map(m), k) /\ Becomes(m, Taken(Map(m), k)) /\ made' = made /\ m \in Maps
    BY <1>0, <1>6 DEF RemoveKey
  <2>2. Whole(Taken(Map(m), k), Rest(tree, order, m))
    BY <2>1, RemoveIs
  <2> QED
    BY <2>1, <2>2, BecomesKeeps
<1>7. ASSUME NEW m \in made, NEW k \in Keys, NEW new \in Keys, Rename(m, k, new) PROVE Ind'
  <2> DEFINE v == tree[m][Path(Map(m), k)].key.val
  <2>1. /\ {k, new} \subseteq mem.live /\ Has(Map(m), k) /\ Becomes(m, Put(Taken(Map(m), k), new, v, v))
        /\ made' = made /\ m \in Maps
    BY <1>0, <1>7 DEF Rename
  <2>2. Whole(Put(Taken(Map(m), k), new, v, v), Rest(tree, order, m))
    BY <2>1, RenameIs
  <2> HIDE DEF v
  <2> QED
    BY <2>1, <2>2, BecomesKeeps
<1>8. ASSUME NEW m \in made, NEW k \in Keys, NEW v \in Values, Add(m, k, v) PROVE Ind'
  <2>1. PICK new \in UNION {Merged(Map(m), k, v, c) : c \in MergeChoices} : Becomes(m, Put(Map(m), k, v, new))
    BY <1>8 DEF Add
  <2>2. {k, v} \subseteq mem.live /\ made' = made /\ m \in Maps
    BY <1>0, <1>8 DEF Add
  <2>3. Whole(Put(Map(m), k, v, new), Rest(tree, order, m))
    BY <2>1, <2>2, AddIs
  <2> QED
    BY <2>1, <2>2, <2>3, BecomesKeeps
<1> QED
  BY <1>1, <1>2, <1>3, <1>4, <1>5, <1>6, <1>7, <1>8 DEF Next

LEMMA IndAlways == ASSUME "other" \notin MergeChoices PROVE Spec => []Ind
<1>1. Init => Ind
  BY InitKeeps
<1>2. Ind /\ [Next]_vars => Ind'
  BY NextKeeps, StutterKeeps
<1> QED
  BY <1>1, <1>2, PTL DEF Spec

(* Safety: whatever is added, replaced, merged, renamed, removed and        *)
(* deleted (map.c:98, 160, 245, 276), the count of a key is exactly the     *)
(* number of pairs and lists it is in, no value is counted too low, nothing *)
(* that was freed is counted, compared or deleted, and the tree and the     *)
(* list have the same keys: with merge functions that return one of the two *)
(* values they are given.                                                   *)
THEOREM MapsKeepMemorySafe == ASSUME "other" \notin MergeChoices PROVE Spec => []MemorySafe
<1>1. ASSUME Ind PROVE MemorySafe
  <2>1. mem \in Memory /\ ~ mem.fault /\ made \subseteq Maps /\ \A m \in Maps : Fit(tree[m], order[m])
    BY <1>1 DEF Ind, Sound, Shape
  <2>2. TypeOK
    <3>1. ASSUME NEW m \in Maps PROVE T!Contents(tree[m]) \subseteq Pairs /\ order[m] \in Seq(Keys)
      BY <2>1, HeldIs DEF Fit, Once, Held
    <3> QED
      BY <2>1, <3>1 DEF TypeOK, Memory
  <2>3. \A o \in Objs : Refs(tree, order)[o] = References(o)
    BY ReferencesIs DEF Refs
  <2>4. CountsCover
    BY <1>1, <2>3 DEF Ind, Sound, CountsCover, Objs
  <2>5. NoUseAfterFree
    BY <1>1, <2>1, <2>3 DEF Ind, Sound, NoUseAfterFree
  <2>6. ASSUME NEW m \in Maps
        PROVE  /\ {e.key : e \in T!Contents(tree[m])} = {order[m][i] : i \in DOMAIN order[m]}
               /\ Cardinality(DOMAIN tree[m]) = Len(order[m])
    <3> DEFINE t == tree[m]
               l == order[m]
               w == Walked(t)
    <3>1. Upright(t) /\ Once(l) /\ Members(l) = KeysOf(Held(t)) /\ DOMAIN l = 1..Len(l) /\ Len(l) \in Nat
      BY <2>1, OnceLen DEF Fit
    <3>2. /\ w \in Seq(Pairs) /\ Len(w) = Cardinality(DOMAIN t) /\ {w[i] : i \in 1..Len(w)} = Held(t)
          /\ \A i, j \in 1..Len(w) : Name[w[i].key] = Name[w[j].key] => i = j
      BY <3>1, WalkedIs
    <3> HIDE DEF t, l, w
    <3>3. {e.key : e \in Held(t)} = {l[i] : i \in DOMAIN l}
      BY <3>1 DEF Members, KeysOf
    <3>4. Cardinality(KeysOf(Held(t))) = Len(w)
      <4> DEFINE f == [i \in 1..Len(w) |-> w[i].key]
      <4>1. f \in Bijection(1..Len(w), KeysOf(Held(t)))
        <5>1. \A i \in 1..Len(w) : f[i] \in KeysOf(Held(t))
          BY <3>2 DEF KeysOf
        <5>2. \A k \in KeysOf(Held(t)) : \E i \in 1..Len(w) : f[i] = k
          BY <3>2 DEF KeysOf
        <5>3. \A i, j \in 1..Len(w) : f[i] = f[j] => i = j
          BY <3>2
        <5> QED
          BY <5>1, <5>2, <5>3 DEF Bijection, Injection, Surjection, IsInjective
      <4>2. Len(w) \in Nat
        BY <3>2
      <4> QED
        BY <4>1, <4>2, FS_CountingElements DEF ExistsBijection
    <3>5. Cardinality(Members(l)) = Len(l)
      <4> DEFINE f == [i \in 1..Len(l) |-> l[i]]
      <4>1. f \in Bijection(1..Len(l), Members(l))
        <5>1. \A i, j \in 1..Len(l) : l[i] = l[j] => i = j
          BY <3>1 DEF Once
        <5> QED
          BY <5>1 DEF Bijection, Injection, Surjection, IsInjective, Members
      <4> QED
        BY <3>1, <4>1, FS_CountingElements DEF ExistsBijection
    <3> QED
      BY <3>1, <3>2, <3>3, <3>4, <3>5 DEF t, l, Held
  <2>7. SameKeys
    BY <2>6 DEF SameKeys
  <2> QED
    BY <2>2, <2>4, <2>5, <2>7 DEF MemorySafe
<1> QED
  BY <1>1, IndAlways, PTL

-----------------------------------------------------------------------------
(* The map that a tree and a list are: for the pairs A and the keys l, the *)
(* names of the keys and the values found by them.                         *)
ValIn(A, k) == CHOOSE v : \E e \in Named(A, k) : v = e.val
Listed(A, l) == [i \in 1..Len(l) |-> [name |-> Name[l[i]], val |-> ValIn(A, l[i])]]
AbstractOf(t, l) ==
    LET Node(k) == CHOOSE p \in DOMAIN t : Name[t[p].key.key] = Name[k]
    IN  [i \in DOMAIN l |-> [name |-> Name[l[i]], val |-> t[Node(l[i])].key.val]]

Keyed(A, l) == A \subseteq Pairs /\ Distinct(A) /\ Once(l) /\ Members(l) = KeysOf(A)

Entries == [name : Nat, val : Values]
Matches(A, l, s) == /\ DOMAIN s = 1..Len(l) /\ s = [i \in DOMAIN s |-> s[i]]
                    /\ \A i \in 1..Len(l) : s[i] = [name |-> Name[l[i]], val |-> ValIn(A, l[i])]

LEMMA ValInIs == ASSUME NEW A, Distinct(A), NEW k, NEW e \in Named(A, k) PROVE ValIn(A, k) = e.val
<1>1. \A f \in Named(A, k) : f = e
  BY DEF Named, Distinct
<1>2. \A v : (\E f \in Named(A, k) : v = f.val) <=> v = e.val
  BY <1>1
<1> QED
  BY <1>2 DEF ValIn

LEMMA FitIs == ASSUME NEW t, NEW l, Fit(t, l) PROVE Keyed(Held(t), l)
BY HeldIs DEF Fit, Keyed, Distinct

LEMMA AbstractIs == ASSUME NEW t, NEW l, Fit(t, l) PROVE AbstractOf(t, l) = Listed(Held(t), l)
<1>1. DOMAIN l = 1..Len(l) /\ Distinct(Held(t)) /\ Members(l) = KeysOf(Held(t))
  BY OnceLen, FitIs DEF Fit, Keyed
<1> DEFINE node(k) == CHOOSE p \in DOMAIN t : Name[t[p].key.key] = Name[k]
<1>2. ASSUME NEW i \in 1..Len(l) PROVE t[node(l[i])].key.val = ValIn(Held(t), l[i])
  <2>1. PICK e \in Held(t) : e.key = l[i]
    BY <1>1 DEF Members, KeysOf
  <2>2. Held(t) = {t[p].key : p \in DOMAIN t}
    BY DEF Held, T!Contents, T!Paths
  <2>3. PICK p \in DOMAIN t : t[p].key = e
    BY <2>1, <2>2
  <2> DEFINE q == node(l[i])
  <2>4. q \in DOMAIN t /\ Name[t[q].key.key] = Name[l[i]]
    BY <2>1, <2>3
  <2> HIDE DEF q
  <2>5. t[q].key \in Named(Held(t), l[i])
    BY <2>2, <2>4 DEF Named
  <2> QED
    BY <1>1, <2>5, ValInIs DEF q
<1> QED
  BY <1>1, <1>2 DEF AbstractOf, Listed

LEMMA MapsAre ==
    ASSUME Ind, NEW m \in Maps
    PROVE  Abstract(m) = Listed(Held(tree[m]), order[m]) /\ Keyed(Held(tree[m]), order[m])
<1>1. Fit(tree[m], order[m])
  BY DEF Ind, Shape
<1>2. Abstract(m) = AbstractOf(tree[m], order[m])
  BY DEF Abstract, AbstractOf
<1> QED
  BY <1>1, <1>2, AbstractIs, FitIs

(* Names in the list. *)
LEMMA ListedIs ==
    ASSUME NEW A, NEW l, Keyed(A, l)
    PROVE  /\ Listed(A, l) \in Seq(Entries) /\ Len(Listed(A, l)) = Len(l) /\ Len(l) \in Nat
           /\ DOMAIN Listed(A, l) = 1..Len(l)
           /\ \A i \in 1..Len(l) : /\ Listed(A, l)[i] = [name |-> Name[l[i]], val |-> ValIn(A, l[i])]
                                   /\ \E e \in A : e.key = l[i] /\ e.val = ValIn(A, l[i])
           /\ \A k : Ordered!At(Listed(A, l), Name[k]) = {i \in 1..Len(l) : Name[l[i]] = Name[k]}
           /\ \A k : Ordered!At(Listed(A, l), Name[k]) = {} <=> Named(A, k) = {}
<1>1. /\ A \subseteq Pairs /\ Distinct(A) /\ l \in Seq(Keys) /\ Len(l) \in Nat /\ Members(l) = KeysOf(A)
      /\ \A i \in 1..Len(l) : l[i] \in Keys
  BY DEF Keyed, Once
<1>2. ASSUME NEW i \in 1..Len(l) PROVE \E e \in A : e.key = l[i] /\ e.val = ValIn(A, l[i])
  <2>1. PICK e \in A : e.key = l[i]
    BY <1>1 DEF Members, KeysOf
  <2>2. e \in Named(A, l[i])
    BY <2>1 DEF Named
  <2> QED
    BY <1>1, <2>1, <2>2, ValInIs
<1>3. \A i \in 1..Len(l) : Name[l[i]] \in Nat /\ ValIn(A, l[i]) \in Values
  <2> SUFFICES ASSUME NEW i \in 1..Len(l) PROVE Name[l[i]] \in Nat /\ ValIn(A, l[i]) \in Values
    OBVIOUS
  <2>1. PICK e \in A : e.key = l[i] /\ e.val = ValIn(A, l[i])
    BY <1>2
  <2> QED
    BY <1>1, <2>1, MapAssumption DEF Pairs
<1> DEFINE s == Listed(A, l)
<1>4. /\ DOMAIN s = 1..Len(l) /\ s \in [1..Len(l) -> [name : Nat, val : Values]]
      /\ \A i \in 1..Len(l) : s[i] = [name |-> Name[l[i]], val |-> ValIn(A, l[i])] /\ s[i].name = Name[l[i]]
  BY <1>3 DEF Listed
<1> HIDE DEF s
<1>5. s \in Seq(Entries) /\ Len(s) = Len(l)
  <2>1. s \in [1..Len(l) -> Entries] /\ DOMAIN s = 1..Len(l) /\ Len(l) \in Nat
    BY <1>1, <1>4 DEF Entries
  <2>2. s \in Seq(Entries)
    BY <2>1, SeqDef
  <2>3. Len(s) \in Nat /\ 1..Len(s) = 1..Len(l)
    BY <2>1, <2>2, LenProperties
  <2>4. Len(s) = Len(l)
    BY <2>1, <2>3
  <2> QED
    BY <2>2, <2>4
<1>6. \A k : Ordered!At(s, Name[k]) = {i \in 1..Len(l) : Name[l[i]] = Name[k]}
  BY <1>4 DEF Ordered!At
<1>7. ASSUME NEW k PROVE {i \in 1..Len(l) : Name[l[i]] = Name[k]} = {} <=> Named(A, k) = {}
  <2>1. ASSUME NEW i \in 1..Len(l), Name[l[i]] = Name[k] PROVE Named(A, k) # {}
    BY <1>2, <2>1 DEF Named
  <2>2. ASSUME NEW e \in Named(A, k) PROVE \E i \in 1..Len(l) : Name[l[i]] = Name[k]
    <3>1. e.key \in Members(l) /\ Name[e.key] = Name[k]
      BY <1>1 DEF Named, KeysOf
    <3> QED
      BY <3>1 DEF Members
  <2> QED
    BY <2>1, <2>2
<1>8. \A k : Ordered!At(s, Name[k]) = {} <=> Named(A, k) = {}
  BY <1>6, <1>7
<1> QED
  BY <1>1, <1>2, <1>4, <1>5, <1>6, <1>8 DEF s

LEMMA ListedNamed ==
    ASSUME NEW A, NEW l, Keyed(A, l), NEW k
    PROVE  /\ Ordered!At(Listed(A, l), Name[k]) = {i \in 1..Len(l) : Name[l[i]] = Name[k]}
           /\ Ordered!At(Listed(A, l), Name[k]) = {} <=> Named(A, k) = {}
<1> DEFINE s == Listed(A, l)
<1>1. (\A j : Ordered!At(s, Name[j]) = {i \in 1..Len(l) : Name[l[i]] = Name[j]}) /\ (\A j : Ordered!At(s, Name[j]) = {} <=> Named(A, j) = {})
  BY ListedIs
<1> HIDE DEF s
<1>2. Ordered!At(s, Name[k]) = {i \in 1..Len(l) : Name[l[i]] = Name[k]}
  BY <1>1
<1>3. Ordered!At(s, Name[k]) = {} <=> Named(A, k) = {}
  BY <1>1
<1> QED
  BY <1>2, <1>3 DEF s

(* Two such maps are the same when they agree at each place. *)
LEMMA ListedEqual == ASSUME NEW A, NEW l, NEW s, Matches(A, l, s) PROVE Listed(A, l) = s
BY DEF Listed, Matches

(* A new pair. *)
Grows(A, l, k, v, B, w) ==
    Named(A, k) = {} /\ B = A \cup {[key |-> k, val |-> v]} /\ w = Append(l, k) /\ Keyed(A, l) /\ Keyed(B, w)

LEMMA ListedMore ==
    ASSUME NEW A, NEW l, NEW k \in Keys, NEW v \in Values, NEW B, NEW w, Grows(A, l, k, v, B, w)
    PROVE  Listed(B, w) = Append(Listed(A, l), [name |-> Name[k], val |-> v])
<1> DEFINE e == [key |-> k, val |-> v]
           s == Listed(A, l)
           n == Len(l)
           r == [name |-> Name[k], val |-> v]
           u == Append(s, r)
<1>0. Named(A, k) = {} /\ B = A \cup {e} /\ w = Append(l, k) /\ Keyed(A, l) /\ Keyed(B, w)
  BY DEF Grows
<1>1. /\ A \subseteq Pairs /\ Distinct(A) /\ Distinct(B) /\ l \in Seq(Keys) /\ n \in Nat /\ w \in Seq(Keys)
      /\ e \in Pairs /\ e.key = k /\ e.val = v
  BY <1>0 DEF Keyed, Once, Pairs
<1>2. /\ s \in Seq(Entries) /\ Len(s) = n
      /\ \A i \in 1..n : /\ s[i] = [name |-> Name[l[i]], val |-> ValIn(A, l[i])]
                         /\ \E f \in A : f.key = l[i] /\ f.val = ValIn(A, l[i])
  BY <1>0, ListedIs
<1>3. r \in Entries
  BY MapAssumption DEF Entries
<1> HIDE DEF s, r, e
<1>4. Len(w) = n + 1 /\ w[n + 1] = k /\ \A i \in 1..n : w[i] = l[i]
  BY <1>0, <1>1
<1>5. Len(u) = n + 1 /\ u[n + 1] = r /\ (\A i \in 1..n : u[i] = s[i]) /\ u \in Seq(Entries)
  BY <1>2, <1>3, AppendProperties
<1> HIDE DEF u, n
<1>6. 1..n + 1 = 1..n \cup {n + 1}
  BY <1>1
<1>7. ASSUME NEW i \in 1..n PROVE u[i] = [name |-> Name[w[i]], val |-> ValIn(B, w[i])]
  <2>1. PICK f \in A : f.key = l[i] /\ f.val = ValIn(A, l[i])
    BY <1>2
  <2>2. f \in Named(B, l[i])
    BY <1>0, <2>1 DEF Named
  <2>3. ValIn(B, l[i]) = ValIn(A, l[i])
    BY <1>1, <2>1, <2>2, ValInIs
  <2> QED
    BY <1>2, <1>4, <1>5, <2>3
<1>8. u[n + 1] = [name |-> Name[w[n + 1]], val |-> ValIn(B, w[n + 1])]
  <2>1. e \in Named(B, k)
    BY <1>0, <1>1 DEF Named, e
  <2>2. ValIn(B, k) = v
    BY <1>1, <2>1, ValInIs
  <2> QED
    BY <1>4, <1>5, <2>2 DEF r
<1>9. \A i \in 1..Len(w) : u[i] = [name |-> Name[w[i]], val |-> ValIn(B, w[i])]
  BY <1>4, <1>6, <1>7, <1>8
<1>10. DOMAIN u = 1..Len(w) /\ u = [i \in DOMAIN u |-> u[i]]
  BY <1>4, <1>5, LenProperties
<1>11. Matches(B, w, u)
  BY <1>9, <1>10 DEF Matches
<1>12. Listed(B, w) = u
  BY <1>11, ListedEqual
<1> QED
  BY <1>12 DEF u, s, r

(* Another value. *)
LEMMA ListedOther ==
    ASSUME NEW A, NEW l, Keyed(A, l), NEW k \in Keys, NEW f \in Named(A, k), NEW v \in Values,
           NEW B, B = (A \ {f}) \cup {[key |-> f.key, val |-> v]}, Keyed(B, l), NEW s, s = Listed(A, l)
    PROVE  Listed(B, l) = [i \in DOMAIN s |-> IF i \in Ordered!At(s, Name[k]) THEN [s[i] EXCEPT !.val = v] ELSE s[i]]
<1> DEFINE e == [key |-> f.key, val |-> v]
           n == Len(l)
           u == [i \in DOMAIN s |-> IF i \in Ordered!At(s, Name[k]) THEN [s[i] EXCEPT !.val = v] ELSE s[i]]
<1>1. /\ A \subseteq Pairs /\ Distinct(A) /\ Distinct(B) /\ l \in Seq(Keys) /\ n \in Nat
      /\ f \in A /\ Name[f.key] = Name[k] /\ e.key = f.key /\ e.val = v
  BY DEF Keyed, Once, Named
<1> HIDE DEF e, n, u
<1>2. /\ DOMAIN s = 1..n
      /\ \A i \in 1..n : /\ s[i] = [name |-> Name[l[i]], val |-> ValIn(A, l[i])]
                         /\ \E g \in A : g.key = l[i] /\ g.val = ValIn(A, l[i])
      /\ Ordered!At(s, Name[k]) = {i \in 1..n : Name[l[i]] = Name[k]}
  <2>1. Keyed(A, l) /\ s = Listed(A, l) /\ n = Len(l)
    BY DEF n
  <2>2. Ordered!At(s, Name[k]) = {i \in 1..n : Name[l[i]] = Name[k]}
    BY ONLY <2>1, ListedNamed
  <2>3. DOMAIN s = 1..n
    BY ONLY <2>1, ListedIs
  <2>4. \A i \in 1..n : /\ s[i] = [name |-> Name[l[i]], val |-> ValIn(A, l[i])]
                         /\ \E g \in A : g.key = l[i] /\ g.val = ValIn(A, l[i])
    BY ONLY <2>1, ListedIs
  <2> QED
    BY <2>2, <2>3, <2>4
<1> USE DEF u
<1>3. ASSUME NEW i \in 1..n PROVE u[i] = [name |-> Name[l[i]], val |-> ValIn(B, l[i])]
  <2>1. PICK g \in A : g.key = l[i] /\ g.val = ValIn(A, l[i])
    BY <1>2
  <2>2. CASE Name[l[i]] = Name[k]
    <3>1. e \in Named(B, l[i])
      BY <1>1, <2>2 DEF Named, e
    <3>2. ValIn(B, l[i]) = v
      BY <1>1, <3>1, ValInIs
    <3>3. u[i] = [s[i] EXCEPT !.val = v]
      BY <1>2, <2>2
    <3> QED
      BY <1>2, <3>2, <3>3
  <2>3. CASE Name[l[i]] # Name[k]
    <3>1. g # f
      BY <1>1, <2>1, <2>3
    <3>2. g \in Named(B, l[i])
      BY <2>1, <3>1 DEF Named
    <3>3. ValIn(B, l[i]) = ValIn(A, l[i])
      BY <1>1, <2>1, <3>2, ValInIs
    <3>4. u[i] = s[i]
      BY <1>2, <2>3
    <3> QED
      BY <1>2, <3>3, <3>4
  <2> QED
    BY <2>2, <2>3
<1>4. DOMAIN u = 1..n /\ u = [i \in DOMAIN u |-> u[i]]
  BY <1>2
<1> HIDE DEF u
<1>5. Matches(B, l, u)
  BY <1>3, <1>4 DEF n, Matches
<1>6. Listed(B, l) = u
  BY <1>5, ListedEqual
<1> QED
  BY <1>6 DEF u

(* One pair less. *)
LEMMA ListedLess ==
    ASSUME NEW A, NEW l, Keyed(A, l), NEW i \in 1..Len(l), NEW f \in A, f.key = l[i],
           NEW B, NEW w, B = A \ {f}, w = RemoveAt(l, i), Keyed(B, w)
    PROVE  Listed(B, w) = RemoveAt(Listed(A, l), i)
<1> DEFINE s == Listed(A, l)
           n == Len(l)
           u == RemoveAt(s, i)
<1>1. Distinct(A) /\ Distinct(B) /\ l \in Seq(Keys) /\ n \in Nat /\ \A j, m \in 1..n : l[j] = l[m] => j = m
  BY DEF Keyed, Once
<1>2. /\ s \in Seq(Entries) /\ Len(s) = n
      /\ \A j \in 1..n : /\ s[j] = [name |-> Name[l[j]], val |-> ValIn(A, l[j])]
                         /\ \E g \in A : g.key = l[j] /\ g.val = ValIn(A, l[j])
  BY ListedIs
<1>3. Len(w) = n - 1 /\ \A j \in 1..n - 1 : w[j] = IF j < i THEN l[j] ELSE l[j + 1]
  BY <1>1, RemoveAtIs
<1> HIDE DEF s
<1>4. /\ u \in Seq(Entries) /\ Len(u) = n - 1
      /\ \A j \in 1..n - 1 : u[j] = IF j < i THEN s[j] ELSE s[j + 1]
  BY <1>2, RemoveAtIs
<1> HIDE DEF u
<1>5. i \in 1..n
  OBVIOUS
<1> HIDE DEF n
<1>6. ASSUME NEW j \in 1..n, j # i PROVE s[j] = [name |-> Name[l[j]], val |-> ValIn(B, l[j])]
  <2>1. PICK g \in A : g.key = l[j] /\ g.val = ValIn(A, l[j])
    BY <1>2
  <2>2. g # f
    BY <1>1, <1>5, <1>6, <2>1
  <2>3. g \in Named(B, l[j])
    BY <2>1, <2>2 DEF Named
  <2>4. ValIn(B, l[j]) = ValIn(A, l[j])
    BY <1>1, <2>1, <2>3, ValInIs
  <2> QED
    BY <1>2, <2>4
<1>7. ASSUME NEW j \in 1..n - 1 PROVE u[j] = [name |-> Name[w[j]], val |-> ValIn(B, w[j])]
  <2> DEFINE m == IF j < i THEN j ELSE j + 1
  <2>1. m \in 1..n /\ m # i /\ u[j] = s[m] /\ w[j] = l[m]
    BY <1>1, <1>3, <1>4, <1>5
  <2> HIDE DEF m
  <2> QED
    BY <1>6, <2>1
<1>8. DOMAIN u = 1..Len(w) /\ u = [j \in DOMAIN u |-> u[j]]
  BY <1>3, <1>4, LenProperties
<1>9. Matches(B, w, u)
  <2>1. \A j \in 1..Len(w) : u[j] = [name |-> Name[w[j]], val |-> ValIn(B, w[j])]
    BY <1>3, <1>7
  <2> QED
    BY <1>8, <2>1 DEF Matches
<1>10. Listed(B, w) = u
  BY <1>9, ListedEqual
<1> QED
  BY <1>10 DEF u, s

(* The values of a mix. *)
LEMMA MixKeeps ==
    ASSUME NEW A, A \subseteq Pairs, NEW B, NEW keep \in BOOLEAN, NEW C, C = Mix(A, B, keep), Distinct(C),
           NEW f \in A, keep \/ Named(B, f.key) = {}
    PROVE  ValIn(C, f.key) = f.val
<1>1. f \in Named(C, f.key)
  BY DEF Mix, Named
<1> QED
  BY <1>1, ValInIs

LEMMA MixTakes ==
    ASSUME NEW A, A \subseteq Pairs, NEW B, B \subseteq Pairs, NEW keep \in BOOLEAN, NEW C, C = Mix(A, B, keep),
           Distinct(C), NEW f \in A, ~ keep, NEW g \in Named(B, f.key)
    PROVE  ValIn(C, f.key) = g.val
<1> DEFINE p == [key |-> f.key, val |-> g.val]
<1>1. p \in Pairs /\ p.key = f.key /\ p.val = g.val /\ g \in B /\ Name[f.key] = Name[g.key]
  BY DEF Pairs, Named
<1> HIDE DEF p
<1>2. p \in Named(C, f.key)
  BY <1>1 DEF Mix, Named
<1> QED
  BY <1>1, <1>2, ValInIs

LEMMA MixAdds ==
    ASSUME NEW A, NEW B, B \subseteq Pairs, NEW keep \in BOOLEAN, NEW C, C = Mix(A, B, keep),
           Distinct(C), NEW g \in B, Named(A, g.key) = {}
    PROVE  g \in C /\ ValIn(C, g.key) = g.val
<1>1. g \in C /\ g \in Named(C, g.key)
  BY DEF Mix, Named
<1> QED
  BY <1>1, ValInIs

LEMMA MixNew ==
    ASSUME NEW A, NEW B, NEW keep \in BOOLEAN, NEW p \in Mix(A, B, keep), p.key \notin KeysOf(A)
    PROVE  p \in B /\ Named(A, p.key) = {}
BY DEF Mix, KeysOf

(* The places of the pairs of B that A has no name for. *)
Fresh(A, l) == {j \in 1..Len(l) : Named(A, l[j]) = {}}

(* Where the pairs of B come to be in the mix: each of them once.          *)
Picks(A, B, C, l, news, s) ==
    /\ s \in SetToSeqs(Fresh(A, l)) /\ DOMAIN s = 1..Len(news)
    /\ \A i \in 1..Len(news) : /\ s[i] \in 1..Len(l) /\ l[s[i]] = news[i]
                               /\ ValIn(C, news[i]) = ValIn(B, news[i])

LEMMA MixedNews ==
    ASSUME NEW A, NEW l, Keyed(A, l), NEW B, NEW m, Keyed(B, m), NEW keep \in BOOLEAN,
           NEW C, C = Mix(A, B, keep), NEW news \in Seq(Keys), NEW w, w = l \o news, Keyed(C, w)
    PROVE  \E s : Picks(A, B, C, m, news, s)
<1> DEFINE n == Len(l)
           d == Len(news)
           F == Fresh(A, m)
<1>1. /\ A \subseteq Pairs /\ B \subseteq Pairs /\ Distinct(A) /\ Distinct(B) /\ Distinct(C)
      /\ l \in Seq(Keys) /\ m \in Seq(Keys) /\ n \in Nat /\ d \in Nat /\ Len(m) \in Nat
      /\ Members(l) = KeysOf(A) /\ Members(m) = KeysOf(B) /\ Members(w) = KeysOf(C)
      /\ \A i, j \in 1..Len(m) : m[i] = m[j] => i = j
      /\ \A i, j \in 1..Len(w) : w[i] = w[j] => i = j
  BY DEF Keyed, Once
<1>2. Len(w) = n + d /\ (\A i \in 1..n : w[i] = l[i]) /\ \A i \in 1..d : w[n + i] = news[i]
  BY <1>1
<1> HIDE DEF n, d
<1>3. \A i \in 1..d : n + i \in 1..Len(w)
  BY <1>1, <1>2
<1>4. \A i \in 1..n : i \in 1..Len(w)
  BY <1>1, <1>2
<1>5. ASSUME NEW i \in 1..d PROVE news[i] \in KeysOf(C) /\ news[i] \notin KeysOf(A)
  <2>1. news[i] \in Members(w)
    BY <1>2, <1>3 DEF Members
  <2>2. ASSUME NEW j \in 1..n, news[i] = l[j] PROVE FALSE
    <3>1. w[j] = w[n + i]
      BY <1>2, <2>2
    <3>2. j = n + i
      BY <1>1, <1>3, <1>4, <3>1
    <3> QED
      BY <1>1, <3>2
  <2>3. news[i] \notin Members(l)
    BY <2>2 DEF Members, n
  <2> QED
    BY <1>1, <2>1, <2>3
<1>6. ASSUME NEW i \in 1..d
      PROVE  /\ \E j \in F : m[j] = news[i]
             /\ ValIn(C, news[i]) = ValIn(B, news[i])
  <2>1. PICK p \in C : p.key = news[i]
    BY <1>5 DEF KeysOf
  <2>2. p \in B /\ Named(A, p.key) = {}
    BY <1>5, <2>1, MixNew
  <2>3. ValIn(C, p.key) = p.val
    BY <1>1, <2>2, MixAdds
  <2>4. p \in Named(B, p.key)
    BY <2>2 DEF Named
  <2>5. ValIn(B, p.key) = p.val
    BY <1>1, <2>4, ValInIs
  <2>6. p.key \in Members(m)
    BY <1>1, <2>2 DEF KeysOf
  <2>7. PICK j \in 1..Len(m) : m[j] = p.key
    BY <2>6 DEF Members
  <2>8. j \in F
    BY <2>2, <2>7 DEF Fresh
  <2> QED
    BY <2>1, <2>3, <2>5, <2>7, <2>8
<1>7. ASSUME NEW j \in F PROVE \E i \in 1..d : news[i] = m[j]
  <2>1. j \in 1..Len(m) /\ Named(A, m[j]) = {}
    BY DEF Fresh
  <2> HIDE DEF F
  <2>2. m[j] \in Members(m)
    BY <2>1 DEF Members
  <2>3. m[j] \in KeysOf(B)
    BY <1>1, <2>2
  <2>4. PICK g \in B : g.key = m[j]
    BY <2>3 DEF KeysOf
  <2>5. g \in C
    BY <1>1, <2>1, <2>4, MixAdds
  <2>6. m[j] \in Members(w)
    BY <1>1, <2>4, <2>5 DEF KeysOf
  <2>7. PICK x \in 1..Len(w) : w[x] = m[j]
    BY <2>6 DEF Members
  <2>8. m[j] \notin KeysOf(A)
    BY <2>1 DEF KeysOf, Named
  <2>9. x \notin 1..n
    <3>1. m[j] \notin Members(l)
      BY <1>1, <2>8
    <3> QED
      BY <1>2, <2>7, <3>1 DEF Members, n
  <2>10. x - n \in 1..d /\ n + (x - n) = x
    BY <1>1, <1>2, <2>7, <2>9
  <2> QED
    BY <1>2, <2>7, <2>10
<1> DEFINE s == [i \in 1..d |-> CHOOSE j \in F : m[j] = news[i]]
<1>8. \A i \in 1..d : s[i] \in F /\ m[s[i]] = news[i]
  BY <1>6
<1>9. F \subseteq 1..Len(m)
  BY DEF Fresh
<1>10. \A i, j \in 1..d : news[i] = news[j] => i = j
  <2> SUFFICES ASSUME NEW i \in 1..d, NEW j \in 1..d, news[i] = news[j] PROVE i = j
    OBVIOUS
  <2>1. n + i \in 1..Len(w) /\ n + j \in 1..Len(w)
    BY <1>3
  <2>2. w[n + i] = w[n + j]
    BY <1>2
  <2>3. n + i = n + j
    BY <1>1, <2>1, <2>2
  <2> QED
    BY <1>1, <2>3
<1>11. DOMAIN s = 1..d /\ s \in [1..d -> F]
  BY <1>8
<1> HIDE DEF s, F
<1>12. \A i, j \in 1..d : s[i] = s[j] => i = j
  BY <1>8, <1>10
<1>13. \A j \in F : \E i \in 1..d : s[i] = j
  <2> SUFFICES ASSUME NEW j \in F PROVE \E i \in 1..d : s[i] = j
    OBVIOUS
  <2>1. PICK i \in 1..d : news[i] = m[j]
    BY <1>7
  <2>2. s[i] = j
    BY <1>1, <1>8, <1>9, <2>1
  <2> QED
    BY <2>2
<1>14. Cardinality(F) = d
  <2>1. s \in Bijection(1..d, F)
    BY <1>11, <1>12, <1>13 DEF Bijection, Injection, Surjection, IsInjective
  <2> QED
    BY <1>1, <2>1, FS_CountingElements DEF ExistsBijection
<1>15. s \in SetToSeqs(F)
  BY <1>11, <1>12, <1>14 DEF SetToSeqs
<1>16. Picks(A, B, C, m, news, s)
  BY <1>6, <1>8, <1>9, <1>11, <1>15 DEF Picks, F, d
<1> QED
  BY <1>16

LEMMA SameSeqs == \A S : Ordered!SetToSeqs(S) = SetToSeqs(S)
<1>1. \A S : Ordered!Cardinality(S) = Cardinality(S)
  BY DEF Ordered!Cardinality, Cardinality
<1> QED
  BY <1>1 DEF Ordered!SetToSeqs, SetToSeqs

(* Merging two maps: any list of keys with the names of the mix will do,   *)
(* as long as the keys of the first map come first.                        *)
LEMMA ListedMixed ==
    ASSUME NEW A, NEW l, Keyed(A, l), NEW B, NEW m, Keyed(B, m), NEW keep \in BOOLEAN,
           NEW C, C = Mix(A, B, keep), NEW news \in Seq(Keys), NEW w, w = l \o news, Keyed(C, w)
    PROVE  Listed(C, w) \in Ordered!Merged(Listed(A, l), Listed(B, m), keep)
<1> DEFINE dest == Listed(A, l)
           src == Listed(B, m)
           n == Len(l)
           d == Len(news)
           Old(x) == IF keep \/ Ordered!At(src, x.name) = {} THEN x
                     ELSE src[CHOOSE i \in Ordered!At(src, x.name) : TRUE]
           olds == [i \in DOMAIN dest |-> Old(dest[i])]
           fresh == {i \in DOMAIN src : Ordered!At(dest, src[i].name) = {}}
           Added(s) == [i \in DOMAIN s |-> src[s[i]]]
<1>1. /\ A \subseteq Pairs /\ B \subseteq Pairs /\ Distinct(A) /\ Distinct(B) /\ Distinct(C)
      /\ l \in Seq(Keys) /\ m \in Seq(Keys) /\ n \in Nat /\ d \in Nat
  BY DEF Keyed, Once
<1>2. /\ dest \in Seq(Entries) /\ DOMAIN dest = 1..n /\ Len(dest) = n
      /\ \A i \in 1..n : /\ dest[i] = [name |-> Name[l[i]], val |-> ValIn(A, l[i])]
                         /\ \E f \in A : f.key = l[i] /\ f.val = ValIn(A, l[i])
  BY ListedIs
<1>3. /\ src \in Seq(Entries) /\ DOMAIN src = 1..Len(m)
      /\ \A j \in 1..Len(m) : /\ src[j] = [name |-> Name[m[j]], val |-> ValIn(B, m[j])]
                              /\ \E g \in B : g.key = m[j] /\ g.val = ValIn(B, m[j])
  BY ListedIs
<1>4. \A k : Ordered!At(src, Name[k]) = {j \in 1..Len(m) : Name[m[j]] = Name[k]}
  BY ListedNamed
<1>5. \A k : Ordered!At(src, Name[k]) = {} <=> Named(B, k) = {}
  BY ListedNamed
<1>6. \A k : Ordered!At(dest, Name[k]) = {} <=> Named(A, k) = {}
  BY ListedNamed
<1>7. PICK s : Picks(A, B, C, m, news, s)
  BY MixedNews
<1>8. \A i \in 1..d : ValIn(C, news[i]) = ValIn(B, news[i])
  BY <1>7 DEF Picks
<1> HIDE DEF dest, src, n, d
<1>9. fresh = Fresh(A, m)
  <2>1. \A j \in 1..Len(m) : src[j].name = Name[m[j]]
    BY <1>3
  <2> QED
    BY <1>3, <1>6, <2>1 DEF Fresh
<1>10. s \in SetToSeqs(fresh) /\ DOMAIN s = 1..d /\ \A i \in 1..d : s[i] \in 1..Len(m) /\ m[s[i]] = news[i]
  BY <1>7, <1>9 DEF Picks, d
<1>11. ASSUME NEW i \in 1..n PROVE Old(dest[i]) = [name |-> Name[l[i]], val |-> ValIn(C, l[i])]
  <2>1. PICK f \in A : f.key = l[i] /\ f.val = ValIn(A, l[i])
    BY <1>2
  <2>2. dest[i].name = Name[l[i]] /\ dest[i] = [name |-> Name[l[i]], val |-> f.val]
    BY <1>2, <2>1
  <2>3. CASE keep \/ Named(B, f.key) = {}
    <3>1. ValIn(C, l[i]) = f.val
      BY <1>1, <2>1, <2>3, MixKeeps
    <3>2. keep \/ Ordered!At(src, dest[i].name) = {}
      BY <1>5, <2>1, <2>2, <2>3
    <3> QED
      BY <2>2, <3>1, <3>2
  <2>4. CASE ~ keep /\ Named(B, f.key) # {}
    <3> DEFINE j == CHOOSE j \in Ordered!At(src, dest[i].name) : TRUE
    <3>1. Ordered!At(src, dest[i].name) = Ordered!At(src, Name[f.key])
      BY <2>1, <2>2
    <3>2. Ordered!At(src, dest[i].name) # {}
      BY <1>5, <2>4, <3>1
    <3>3. j \in Ordered!At(src, Name[f.key])
      BY <3>1, <3>2
    <3>4. Old(dest[i]) = src[j]
      BY <2>4, <3>2
    <3> HIDE DEF j
    <3>5. j \in 1..Len(m) /\ Name[m[j]] = Name[f.key]
      BY <1>4, <3>3
    <3>6. PICK g \in B : g.key = m[j] /\ g.val = ValIn(B, m[j])
      BY <1>3, <3>5
    <3>7. g \in Named(B, f.key)
      BY <3>5, <3>6 DEF Named
    <3>8. ValIn(C, f.key) = g.val
      BY <1>1, <2>4, <3>7, MixTakes
    <3> QED
      BY <1>3, <2>1, <3>4, <3>5, <3>6, <3>8
  <2> QED
    BY <2>3, <2>4
<1>12. ASSUME NEW i \in 1..d PROVE src[s[i]] = [name |-> Name[news[i]], val |-> ValIn(C, news[i])]
  <2>1. s[i] \in 1..Len(m) /\ m[s[i]] = news[i]
    BY <1>10
  <2>2. src[s[i]] = [name |-> Name[m[s[i]]], val |-> ValIn(B, m[s[i]])]
    BY <1>3, <2>1
  <2> QED
    BY <1>8, <2>1, <2>2
<1> DEFINE a == Added(s)
           u == olds \o a
<1>13. /\ olds \in Seq(Entries) /\ Len(olds) = n
       /\ \A i \in 1..n : olds[i] = [name |-> Name[l[i]], val |-> ValIn(C, l[i])]
  <2>1. DOMAIN olds = 1..n /\ \A i \in 1..n : olds[i] = Old(dest[i])
    BY <1>2
  <2>2. \A i \in 1..n : Old(dest[i]) \in Entries
    <3> SUFFICES ASSUME NEW i \in 1..n PROVE Old(dest[i]) \in Entries
      OBVIOUS
    <3>1. Old(dest[i]) = dest[i] \/ \E j \in 1..Len(m) : Old(dest[i]) = src[j]
      <4>1. dest[i].name = Name[l[i]]
        BY <1>2
      <4>2. Ordered!At(src, dest[i].name) \subseteq 1..Len(m)
        BY <1>4, <4>1
      <4>3. CASE keep \/ Ordered!At(src, dest[i].name) = {}
        BY <4>3
      <4>4. CASE ~ (keep \/ Ordered!At(src, dest[i].name) = {})
        <5> DEFINE j == CHOOSE j \in Ordered!At(src, dest[i].name) : TRUE
        <5>1. j \in 1..Len(m)
          BY <4>2, <4>4
        <5>2. Old(dest[i]) = src[j]
          BY <4>4
        <5> HIDE DEF j, Old
        <5> QED
          BY <5>1, <5>2
      <4> QED
        BY <4>3, <4>4
    <3>2. dest[i] \in Entries
      BY <1>2, ElementOfSeq
    <3>3. \A j \in 1..Len(m) : src[j] \in Entries
      BY <1>3, ElementOfSeq
    <3> QED
      BY <3>1, <3>2, <3>3
  <2>3. olds \in [1..n -> Entries]
    BY <2>1, <2>2
  <2> HIDE DEF olds
  <2>4. olds \in Seq(Entries)
    BY <1>1, <2>3, SeqDef
  <2>5. Len(olds) \in Nat /\ DOMAIN olds = 1..Len(olds)
    BY <2>4, LenProperties
  <2>6. Len(olds) = n
    BY <1>1, <2>1, <2>5
  <2> QED
    BY <1>11, <2>1, <2>4, <2>6
<1>14. /\ a \in Seq(Entries) /\ Len(a) = d
       /\ \A i \in 1..d : a[i] = [name |-> Name[news[i]], val |-> ValIn(C, news[i])]
  <2>1. DOMAIN a = 1..d /\ \A i \in 1..d : a[i] = src[s[i]]
    BY <1>10
  <2>2. \A i \in 1..d : src[s[i]] \in Entries
    BY <1>3, <1>10, ElementOfSeq
  <2>3. a \in [1..d -> Entries]
    BY <2>1, <2>2
  <2> HIDE DEF a
  <2>4. a \in Seq(Entries)
    BY <1>1, <2>3, SeqDef
  <2>5. Len(a) \in Nat /\ DOMAIN a = 1..Len(a)
    BY <2>4, LenProperties
  <2>6. Len(a) = d
    BY <1>1, <2>1, <2>5
  <2> QED
    BY <1>12, <2>1, <2>4, <2>6
<1>15. u \in Ordered!Merged(dest, src, keep)
  <2>1. Ordered!Merged(dest, src, keep) = {olds \o Added(t) : t \in Ordered!SetToSeqs(fresh)}
    BY DEF Ordered!Merged
  <2>2. Ordered!SetToSeqs(fresh) = SetToSeqs(fresh)
    BY SameSeqs
  <2> HIDE DEF olds, fresh
  <2> QED
    BY <1>10, <2>1, <2>2
<1> HIDE DEF a, olds, u
<1>16. Len(w) = n + d /\ (\A i \in 1..n : w[i] = l[i]) /\ \A i \in 1..d : w[n + i] = news[i]
  BY <1>1 DEF n, d
<1>17. /\ u \in Seq(Entries) /\ Len(u) = n + d /\ (\A i \in 1..n : u[i] = olds[i]) /\ \A i \in 1..d : u[n + i] = a[i]
  <2>1. /\ u \in Seq(Entries) /\ Len(u) = Len(olds) + Len(a)
        /\ \A i \in 1..Len(olds) + Len(a) : u[i] = IF i <= Len(olds) THEN olds[i] ELSE a[i - Len(olds)]
    BY <1>13, <1>14, ConcatProperties DEF u
  <2>2. \A i \in 1..n : i \in 1..n + d /\ i <= n
    BY <1>1
  <2>3. \A i \in 1..d : n + i \in 1..n + d /\ ~ (n + i <= n) /\ (n + i) - n = i
    BY <1>1
  <2> QED
    BY <1>1, <1>13, <1>14, <2>1, <2>2, <2>3
<1>18. \A i \in 1..Len(w) : u[i] = [name |-> Name[w[i]], val |-> ValIn(C, w[i])]
  <2> SUFFICES ASSUME NEW i \in 1..Len(w) PROVE u[i] = [name |-> Name[w[i]], val |-> ValIn(C, w[i])]
    OBVIOUS
  <2>1. CASE i \in 1..n
    BY <1>13, <1>16, <1>17, <2>1
  <2>2. CASE i \notin 1..n
    <3>1. i - n \in 1..d /\ n + (i - n) = i
      BY <1>1, <1>16, <2>2
    <3>2. u[i] = a[i - n] /\ w[i] = news[i - n]
      BY <1>16, <1>17, <3>1
    <3> QED
      BY <1>14, <3>1, <3>2
  <2> QED
    BY <2>1, <2>2
<1>19. Matches(C, w, u)
  BY <1>16, <1>17, <1>18, LenProperties DEF Matches
<1>20. Listed(C, w) = u
  BY <1>19, ListedEqual
<1> QED
  BY <1>15, <1>20 DEF dest, src

-----------------------------------------------------------------------------
(* The steps, as steps of an ordered map. *)
ListOf(x) == Listed(Held(x.tree), x.order)

LEMMA SameRemoveAt == \A s, i : Ordered!RemoveAt(s, i) = RemoveAt(s, i)
BY DEF Ordered!RemoveAt, RemoveAt

LEMMA WholeKeyed == ASSUME NEW R, NEW x, Whole(x, R) PROVE Keyed(Held(x.tree), x.order)
BY FitIs DEF Whole, Fit

LEMMA PutListed ==
    ASSUME NEW R, NEW x, Whole(x, R), NEW y, Whole(y, R), NEW k \in Keys, NEW v \in Values,
           NEW new \in Offered(x, k, v), Enters(x, y, k, v), Meets(x, y, k, new)
    PROVE  new \in Values /\ ListOf(y) = Ordered!Put(ListOf(x), Name[k], new)
<1> DEFINE A == Held(x.tree)
           B == Held(y.tree)
           s == Listed(A, x.order)
<1>1. Keyed(A, x.order) /\ Keyed(B, y.order)
  BY WholeKeyed
<1>2. A \subseteq Pairs /\ Distinct(A)
  BY <1>1 DEF Keyed
<1>3. new \in Values
  BY <1>2 DEF Offered, Named, Pairs
<1>4. CASE Named(A, k) = {}
  <2>1. y.order = Append(x.order, k) /\ B = A \cup {[key |-> k, val |-> v]} /\ new = v
    BY <1>4 DEF Enters, Offered
  <2>2. Ordered!At(s, Name[k]) = {}
    BY <1>1, <1>4, ListedNamed
  <2>3. Listed(B, y.order) = Append(s, [name |-> Name[k], val |-> v])
    <3>1. Grows(A, x.order, k, v, B, y.order)
      BY <1>1, <1>4, <2>1 DEF Grows
    <3> HIDE DEF A, B
    <3> QED
      BY <3>1, ListedMore
  <2> HIDE DEF A, B, s
  <2>4. Listed(B, y.order) = Ordered!Put(s, Name[k], new)
    BY <2>1, <2>2, <2>3 DEF Ordered!Put
  <2> QED
    BY <1>3, <2>4 DEF s, A, B, ListOf
<1>5. CASE Named(A, k) # {}
  <2>1. PICK f \in Named(A, k) : TRUE
    BY <1>5
  <2>2. y.order = x.order /\ B = (A \ {f}) \cup {[key |-> f.key, val |-> new]}
    BY <2>1 DEF Meets
  <2>3. Ordered!At(s, Name[k]) # {}
    BY <1>1, <1>5, ListedNamed
  <2> HIDE DEF A, B
  <2>4. Keyed(B, x.order)
    BY <1>1, <2>2
  <2>5. Listed(B, x.order) = [i \in DOMAIN s |-> IF i \in Ordered!At(s, Name[k]) THEN [s[i] EXCEPT !.val = new] ELSE s[i]]
    BY <1>1, <1>3, <2>1, <2>2, <2>4, ListedOther
  <2> HIDE DEF s
  <2>6. Listed(B, x.order) = Ordered!Put(s, Name[k], new)
    BY <2>3, <2>5 DEF Ordered!Put
  <2> QED
    BY <1>3, <2>2, <2>6 DEF s, A, B, ListOf
<1> QED
  BY <1>4, <1>5

LEMMA DropListed ==
    ASSUME NEW R, NEW x, Whole(x, R), NEW y, Whole(y, R), NEW k \in Keys,
           NEW e \in Named(Held(x.tree), k), Drops(x, y, e, k)
    PROVE  \E i \in Ordered!At(ListOf(x), Name[k]) :
              ListOf(y) = Ordered!RemoveAt(ListOf(x), i) /\ ListOf(x)[i].val = e.val
<1> DEFINE A == Held(x.tree)
           B == Held(y.tree)
           l == x.order
           s == Listed(A, l)
<1>1. Keyed(A, l) /\ Keyed(B, y.order)
  BY WholeKeyed
<1>2. PICK i \in 1..Len(l) : l[i] = e.key /\ y.order = RemoveAt(l, i)
  BY DEF Drops
<1>3. B = A \ {e} /\ e \in A /\ Name[e.key] = Name[k]
  BY DEF Drops, Named
<1> HIDE DEF A, B, l
<1>4. Listed(B, y.order) = RemoveAt(s, i)
  BY <1>1, <1>2, <1>3, ListedLess
<1>5. Ordered!At(s, Name[k]) = {j \in 1..Len(l) : Name[l[j]] = Name[k]}
  BY <1>1, ListedNamed
<1>6. i \in Ordered!At(s, Name[k])
  BY <1>2, <1>3, <1>5
<1>7. s[i].val = e.val
  <2>1. s[i] = [name |-> Name[l[i]], val |-> ValIn(A, l[i])]
    BY <1>1, <1>2, ListedIs
  <2>2. Distinct(A) /\ e \in Named(A, e.key)
    BY <1>1, <1>3 DEF Keyed, Named
  <2>3. ValIn(A, e.key) = e.val
    BY <2>2, ValInIs
  <2> QED
    BY <1>2, <2>1, <2>3
<1> HIDE DEF s
<1> QED
  BY <1>4, <1>6, <1>7, SameRemoveAt DEF s, A, B, l, ListOf

LEMMA MergeListed ==
    ASSUME NEW R, NEW x, Whole(x, R), NEW y, Whole(y, R), NEW B, NEW m, Keyed(B, m),
           NEW keep \in BOOLEAN, Merges(x, y, B, keep)
    PROVE  ListOf(y) \in Ordered!Merged(ListOf(x), Listed(B, m), keep)
<1> DEFINE A == Held(x.tree)
           C == Held(y.tree)
           l == x.order
           w == y.order
<1>1. Keyed(A, l) /\ Keyed(C, w)
  BY WholeKeyed
<1>2. PICK news \in Seq(Keys) : w = l \o news
  BY DEF Merges
<1>3. C = Mix(A, B, keep)
  BY DEF Merges
<1> HIDE DEF A, C, l, w
<1>4. Listed(C, w) \in Ordered!Merged(Listed(A, l), Listed(B, m), keep)
  BY <1>1, <1>2, <1>3, ListedMixed
<1> QED
  BY <1>4 DEF A, C, l, w, ListOf

(* What the map m becomes. *)
LEMMA BecomeIs ==
    ASSUME Ind, NEW m \in Maps, NEW s, NEW R, Whole(s, R), Becomes(m, s), made' = made \cup {m}
    PROVE  Ordered!Become(m, ListOf(s))
<1>1. Fit(s.tree, s.order) /\ tree \in [Maps -> Trees] /\ order \in [Maps -> Seq(Keys)] /\ made \subseteq Maps
  BY DEF Whole, Fit, Ind, Shape
<1>2. tree' = [tree EXCEPT ![m] = s.tree] /\ order' = [order EXCEPT ![m] = s.order]
  BY DEF Becomes
<1>3. tree'[m] = s.tree /\ order'[m] = s.order
  BY <1>1, <1>2
<1>4. \A h \in made \ {m} : tree'[h] = tree[h] /\ order'[h] = order[h]
  BY <1>1, <1>2
<1>5. \A h : Abstract(h) = AbstractOf(tree[h], order[h]) /\ Abstract(h)' = AbstractOf(tree'[h], order'[h])
  BY DEF Abstract, AbstractOf
<1>6. Abstract(m)' = ListOf(s)
  BY <1>1, <1>3, <1>5, AbstractIs DEF ListOf
<1>7. \A h \in made \ {m} : Abstract(h)' = Abstract(h)
  BY <1>4, <1>5
<1>8. [h \in made |-> Abstract(h)]' = [h \in made \cup {m} |-> IF h = m THEN ListOf(s) ELSE [j \in made |-> Abstract(j)][h]]
  <2>1. \A h \in made \cup {m} : Abstract(h)' = IF h = m THEN ListOf(s) ELSE [j \in made |-> Abstract(j)][h]
    BY <1>6, <1>7
  <2> QED
    BY <2>1
<1> QED
  BY <1>8 DEF Ordered!Become, Ordered!Present

(* What there is, and one of it. *)
LEMMA HeldMap ==
    ASSUME Ind, NEW m \in made
    PROVE  [h \in made |-> Abstract(h)][m] = ListOf(Map(m)) /\ m \in Maps /\ m \in Ordered!Present
<1>1. m \in Maps
  BY DEF Ind
<1>2. Abstract(m) = Listed(Held(tree[m]), order[m])
  BY <1>1, MapsAre
<1>3. Map(m).tree = tree[m] /\ Map(m).order = order[m]
  BY DEF Map
<1> QED
  BY <1>1, <1>2, <1>3 DEF ListOf, Ordered!Present

LEMMA BlankMap == ASSUME Ind, NEW m \in Maps \ made PROVE ListOf(Map(m)) = <<>> /\ m \notin Ordered!Present
<1>1. Map(m).tree = T!Empty /\ Map(m).order = <<>>
  BY DEF Ind, Blank, Map
<1>2. DOMAIN Listed(Held(T!Empty), << >>) = {}
  BY DEF Listed
<1>3. Listed(Held(T!Empty), << >>) = << >>
  BY <1>2 DEF Listed
<1> QED
  BY <1>1, <1>3 DEF ListOf, Ordered!Present

LEMMA MakeMaps == ASSUME Ind, NEW m \in Maps, Make(m) PROVE Ordered!Make(m)
<1>1. m \in Maps \ made /\ made' = made \cup {m} /\ tree' = tree /\ order' = order /\ mem' = mem
  BY DEF Make
<1>2. \A h : Abstract(h)' = Abstract(h)
  BY <1>1 DEF Abstract
<1>3. Abstract(m) = << >>
  <2>1. Abstract(m) = ListOf(Map(m))
    BY MapsAre DEF ListOf, Map
  <2> QED
    BY <1>1, <2>1, BlankMap
<1>4. [h \in made |-> Abstract(h)]' = [h \in made \cup {m} |-> IF h = m THEN << >> ELSE [j \in made |-> Abstract(j)][h]]
  <2>1. \A h \in made \cup {m} : Abstract(h)' = IF h = m THEN << >> ELSE [j \in made |-> Abstract(j)][h]
    BY <1>2, <1>3
  <2> QED
    BY <1>1, <2>1
<1> QED
  BY <1>1, <1>4, BlankMap DEF Ordered!Make, Ordered!Become, Ordered!Present

LEMMA DeleteMaps == ASSUME Ind, NEW m \in made, Delete(m) PROVE Ordered!Delete(m)
<1>1. /\ made' = made \ {m} /\ made \subseteq Maps /\ tree \in [Maps -> Trees] /\ order \in [Maps -> Seq(Keys)]
      /\ Becomes(m, Destroyed(Map(m)))
  BY DEF Delete, Ind, Shape
<1> DEFINE s == Destroyed(Map(m))
<1>2. tree' = [tree EXCEPT ![m] = s.tree] /\ order' = [order EXCEPT ![m] = s.order]
  BY <1>1 DEF Becomes
<1> HIDE DEF s
<1>3. \A h \in made \ {m} : tree'[h] = tree[h] /\ order'[h] = order[h]
  BY <1>1, <1>2
<1>4. \A h \in made \ {m} : Abstract(h)' = Abstract(h)
  <2>1. \A h : Abstract(h) = AbstractOf(tree[h], order[h]) /\ Abstract(h)' = AbstractOf(tree'[h], order'[h])
    BY DEF Abstract, AbstractOf
  <2> QED
    BY <1>3, <2>1
<1>5. [h \in made |-> Abstract(h)]' = [h \in made \ {m} |-> [j \in made |-> Abstract(j)][h]]
  BY <1>1, <1>4
<1> QED
  BY <1>5 DEF Ordered!Delete, Ordered!Present

LEMMA AddMaps ==
    ASSUME Ind, "other" \notin MergeChoices, NEW m \in made, NEW k \in Keys, NEW v \in Values, Add(m, k, v)
    PROVE  \E new \in Values : Ordered!Add(m, Name[k], new)
<1> DEFINE x == Map(m)
           R == Rest(tree, order, m)
<1>1. PICK new \in UNION {Merged(x, k, v, c) : c \in MergeChoices} : Becomes(m, Put(x, k, v, new))
  BY DEF Add
<1>2. {k, v} \subseteq mem.live /\ made' = made /\ m \in Maps
  BY DEF Add, Ind
<1> DEFINE y == Put(x, k, v, new)
<1>3. Whole(y, R) /\ new \in Offered(x, k, v) /\ Enters(x, y, k, v) /\ Meets(x, y, k, new)
  BY <1>1, <1>2, AddIs
<1>4. Whole(x, R) /\ [h \in made |-> Abstract(h)][m] = ListOf(x)
  BY <1>2, MapIs, HeldMap
<1>5. made' = made \cup {m} /\ Becomes(m, y)
  BY <1>1, <1>2
<1> HIDE DEF x, R, y
<1>6. new \in Values /\ ListOf(y) = Ordered!Put(ListOf(x), Name[k], new)
  BY <1>3, <1>4, PutListed
<1>7. Ordered!Become(m, ListOf(y))
  BY <1>2, <1>3, <1>5, BecomeIs
<1>8. Ordered!Become(m, Ordered!Put([h \in made |-> Abstract(h)][m], Name[k], new))
  BY <1>4, <1>6, <1>7
<1> QED
  BY <1>6, <1>8 DEF Ordered!Add

LEMMA RemoveMaps ==
    ASSUME Ind, NEW m \in made, NEW k \in Keys, RemoveKey(m, k) PROVE Ordered!RemoveKey(m, Name[k])
<1> DEFINE x == Map(m)
           R == Rest(tree, order, m)
           y == Taken(x, k)
           e == tree[m][Path(x, k)].key
<1>1. Has(x, k) /\ Becomes(m, y) /\ made' = made /\ m \in Maps
  BY DEF RemoveKey, Ind
<1>2. Whole(y, R) /\ Drops(x, y, e, k) /\ e \in Named(Held(x.tree), k)
  BY <1>1, RemoveIs, FoundIs, MapIs
<1>3. Whole(x, R) /\ [h \in made |-> Abstract(h)][m] = ListOf(x)
  BY <1>1, MapIs, HeldMap
<1>4. made' = made \cup {m}
  BY <1>1
<1> HIDE DEF x, R, y, e
<1>5. PICK i \in Ordered!At(ListOf(x), Name[k]) : ListOf(y) = Ordered!RemoveAt(ListOf(x), i)
  BY <1>2, <1>3, DropListed
<1>6. Ordered!Become(m, ListOf(y))
  BY <1>1, <1>2, <1>4, BecomeIs
<1>7. /\ i \in Ordered!At([h \in made |-> Abstract(h)][m], Name[k])
      /\ Ordered!Become(m, Ordered!RemoveAt([h \in made |-> Abstract(h)][m], i))
  BY <1>3, <1>5, <1>6
<1> QED
  BY <1>7 DEF Ordered!RemoveKey

LEMMA RenameMaps ==
    ASSUME Ind, NEW m \in made, NEW k \in Keys, NEW new \in Keys, Rename(m, k, new)
    PROVE  Ordered!Rename(m, Name[k], Name[new])
<1> DEFINE x == Map(m)
           R == Rest(tree, order, m)
           z == Taken(x, k)
           e == tree[m][Path(x, k)].key
           v == e.val
           y == Put(z, new, v, v)
           mine == [h \in made |-> Abstract(h)][m]
<1>1. {k, new} \subseteq mem.live /\ Has(x, k) /\ Becomes(m, y) /\ made' = made /\ m \in Maps
  BY DEF Rename, Ind
<1>2. Whole(z, R) /\ Drops(x, z, e, k) /\ e \in Named(Held(x.tree), k)
  BY <1>1, RemoveIs, FoundIs, MapIs
<1>3. Whole(y, R) /\ v \in Values /\ Enters(z, y, new, v) /\ Meets(z, y, new, v)
  BY <1>1, RenameIs
<1>4. Whole(x, R) /\ mine = ListOf(x)
  BY <1>1, MapIs, HeldMap
<1>5. made' = made \cup {m}
  BY <1>1
<1>6. v \in Offered(z, new, v)
  BY DEF Offered
<1> HIDE DEF x, R, y, z, e, v, mine
<1>7. PICK i \in Ordered!At(ListOf(x), Name[k]) : ListOf(z) = Ordered!RemoveAt(ListOf(x), i) /\ ListOf(x)[i].val = v
  BY <1>2, <1>4, DropListed DEF v
<1>8. ListOf(y) = Ordered!Put(ListOf(z), Name[new], v)
  BY <1>2, <1>3, <1>6, PutListed
<1>9. Ordered!Become(m, ListOf(y))
  BY <1>1, <1>3, <1>5, BecomeIs
<1>10. i \in Ordered!At(mine, Name[k]) /\ Ordered!Become(m, Ordered!Put(Ordered!RemoveAt(mine, i), Name[new], mine[i].val))
  BY <1>4, <1>7, <1>8, <1>9
<1> QED
  BY <1>10 DEF Ordered!Rename, mine

LEMMA MergeMaps ==
    ASSUME Ind, "other" \notin MergeChoices, NEW m \in made, NEW n \in made, Merge(m, n)
    PROVE  Ordered!Merge(m, n)
<1> DEFINE x == Map(m)
           R == Rest(tree, order, m)
           B == Held(tree[n])
           Mine(h) == [j \in made |-> Abstract(j)][h]
<1>1. PICK c \in MergeChoices : Becomes(m, PutAll(x, Walked(tree[n]), c))
  BY DEF Merge
<1>2. c \in {"new", "old"} /\ made' = made /\ m \in Maps /\ n \in Maps
  BY MapAssumption DEF Merge, Ind
<1> DEFINE y == PutAll(x, Walked(tree[n]), c)
           keep == c = "old"
<1>3. Whole(y, R) /\ Merges(x, y, B, keep)
  BY <1>2, MergeIs
<1>4. Whole(x, R) /\ Mine(m) = ListOf(x) /\ Mine(n) = Listed(B, order[n]) /\ Keyed(B, order[n])
  <2>1. Mine(n) = Abstract(n)
    OBVIOUS
  <2> QED
    BY <1>2, <2>1, MapIs, HeldMap, MapsAre
<1>5. made' = made \cup {m} /\ Becomes(m, y) /\ keep \in BOOLEAN
  BY <1>1, <1>2
<1> HIDE DEF x, R, B, y, keep, Mine
<1>6. ListOf(y) \in Ordered!Merged(ListOf(x), Listed(B, order[n]), keep)
  BY <1>3, <1>4, <1>5, MergeListed
<1>7. Ordered!Become(m, ListOf(y))
  BY <1>2, <1>3, <1>5, BecomeIs
<1>8. keep \in BOOLEAN /\ ListOf(y) \in Ordered!Merged(Mine(m), Mine(n), keep) /\ Ordered!Become(m, ListOf(y))
  BY <1>4, <1>5, <1>6, <1>7
<1>9. \E k \in BOOLEAN : \E s \in Ordered!Merged(Mine(m), Mine(n), k) : Ordered!Become(m, s)
  BY <1>8
<1> QED
  BY <1>9 DEF Ordered!Merge, Mine

LEMMA CloneMaps ==
    ASSUME Ind, NEW m \in Maps, NEW n \in made, Clone(m, n)
    PROVE  Ordered!Clone(m, n)
<1> DEFINE x == Map(m)
           R == Rest(tree, order, m)
           B == Held(tree[n])
           Mine(h) == [j \in made |-> Abstract(j)][h]
           y == PutAll(x, Walked(tree[n]), "new")
           keep == "new" = "old"
<1>1. m \in Maps \ made /\ made' = made \cup {m} /\ Becomes(m, y) /\ n \in Maps
  BY DEF Clone, Ind
<1>2. Whole(y, R) /\ Merges(x, y, B, keep) /\ keep = FALSE
  BY <1>1, MergeIs
<1>3. Whole(x, R) /\ ListOf(x) = << >> /\ m \notin Ordered!Present /\ Mine(n) = Listed(B, order[n]) /\ Keyed(B, order[n])
  <2>1. Mine(n) = Abstract(n)
    OBVIOUS
  <2> QED
    BY <1>1, <2>1, MapIs, BlankMap, MapsAre
<1> HIDE DEF x, R, B, y, keep, Mine
<1>4. ListOf(y) \in Ordered!Merged(ListOf(x), Listed(B, order[n]), keep)
  BY <1>2, <1>3, MergeListed
<1>5. Ordered!Become(m, ListOf(y))
  BY <1>1, <1>2, BecomeIs
<1>6. ListOf(y) \in Ordered!Merged(<< >>, Mine(n), FALSE) /\ Ordered!Become(m, ListOf(y))
  BY <1>2, <1>3, <1>4, <1>5
<1>7. m \notin Ordered!Present /\ \E s \in Ordered!Merged(<< >>, Mine(n), FALSE) : Ordered!Become(m, s)
  BY <1>3, <1>6
<1> QED
  BY <1>7 DEF Ordered!Clone, Mine

LEMMA SameMaps == ASSUME made' = made, tree' = tree, order' = order PROVE UNCHANGED [m \in made |-> Abstract(m)]
<1>1. \A m : Abstract(m) = AbstractOf(tree[m], order[m]) /\ Abstract(m)' = AbstractOf(tree'[m], order'[m])
  BY DEF Abstract, AbstractOf
<1>2. \A m : Abstract(m)' = Abstract(m)
  BY <1>1
<1> QED
  BY <1>2

LEMMA NextMaps ==
    ASSUME Ind, "other" \notin MergeChoices, Next
    PROVE  Ordered!Next \/ UNCHANGED [m \in made |-> Abstract(m)]
<1> DEFINE Names == {Name[k] : k \in Keys}
<1>0. made \subseteq Maps /\ (\A m \in made : m \in Ordered!Present) /\ \A k \in Keys : Name[k] \in Names
  BY HeldMap DEF Ind
<1>1. ASSUME NEW o \in Objs, New(o) PROVE UNCHANGED [m \in made |-> Abstract(m)]
  BY <1>1, SameMaps DEF New
<1>2. ASSUME NEW m \in Maps, Make(m) PROVE Ordered!Next
  BY <1>2, MakeMaps DEF Ordered!Next
<1>3. ASSUME NEW m \in Maps, NEW n \in made, Clone(m, n) PROVE Ordered!Next
  BY <1>0, <1>3, CloneMaps DEF Ordered!Next
<1>4. ASSUME NEW m \in made, Delete(m) PROVE Ordered!Next
  BY <1>0, <1>4, DeleteMaps DEF Ordered!Next
<1>5. ASSUME NEW m \in made, NEW n \in made, Merge(m, n) PROVE Ordered!Next
  BY <1>0, <1>5, MergeMaps DEF Ordered!Next
<1>6. ASSUME NEW m \in made, NEW k \in Keys, RemoveKey(m, k) PROVE Ordered!Next
  BY <1>0, <1>6, RemoveMaps DEF Ordered!Next
<1>7. ASSUME NEW m \in made, NEW k \in Keys, NEW new \in Keys, Rename(m, k, new) PROVE Ordered!Next
  BY <1>0, <1>7, RenameMaps DEF Ordered!Next
<1>8. ASSUME NEW m \in made, NEW k \in Keys, NEW v \in Values, Add(m, k, v) PROVE Ordered!Next
  BY <1>0, <1>8, AddMaps DEF Ordered!Next
<1> QED
  BY <1>1, <1>2, <1>3, <1>4, <1>5, <1>6, <1>7, <1>8 DEF Next

(* Refinement: whatever is called, the tree and the list of keys of each    *)
(* map (map.c:98 to 345) are together one sequence of pairs with distinct   *)
(* names: a new name goes to its end, one that is there has its value       *)
(* replaced in place, a renamed one goes to the end, a merge changes no     *)
(* other map than its destination, and a clone has the pairs of its source: *)
(* with merge functions that return one of the two values they are given.   *)
THEOREM MapsAreOrderedMaps == ASSUME "other" \notin MergeChoices PROVE Spec => ImplementsOrderedMap
<1>1. Init => Ordered!Init
  <2> SUFFICES ASSUME Init PROVE Ordered!Init
    OBVIOUS
  <2>1. made = {}
    BY DEF Init
  <2> QED
    BY <2>1 DEF Ordered!Init
<1>2. Ind /\ [Next]_vars => [Ordered!Next]_([m \in made |-> Abstract(m)])
  <2> SUFFICES ASSUME Ind, [Next]_vars PROVE Ordered!Next \/ UNCHANGED [m \in made |-> Abstract(m)]
    OBVIOUS
  <2>1. CASE Next
    BY <2>1, NextMaps
  <2>2. CASE UNCHANGED vars
    BY <2>2, SameMaps DEF vars
  <2> QED
    BY <2>1, <2>2
<1>3. Spec => []Ind
  BY IndAlways
<1> QED
  BY <1>1, <1>2, <1>3, PTL DEF ImplementsOrderedMap, Ordered!Spec, Spec

=============================================================================
