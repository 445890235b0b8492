----------------------------- MODULE CeeSetProofs -----------------------------
(***************************************************************************)
(* Proofs about CeeSet for any elements, any order, any number of sets and *)
(* any policies: no sequence of calls makes the memory unsafe, and sets    *)
(* are sets.  The trees underneath are those of MuslTsearchProofs.         *)
(***************************************************************************)
EXTENDS CeeSet, TLAPS, FiniteSetTheorems, SequenceTheorems

Tree == INSTANCE MuslTsearchProofs WITH tree <- sets

-----------------------------------------------------------------------------
(* The trees of this module are the trees of those proofs. *)
LEMMA RankIs == Rank \in [Elements -> Nat]
BY SetAssumption

LEMMA SameRelinked == \A t, nodes, subtrees : T!Relinked(t, nodes, subtrees) = Tree!Relinked(t, nodes, subtrees)
BY DEF T!Relinked, Tree!Relinked, T!Paths, Tree!Paths, T!IsPrefix, Tree!IsPrefix

LEMMA SameFind == \A t, e : T!Find(t, e) = Tree!Find(t, e)
BY DEF T!Find, Tree!Find, T!Descend, Tree!Descend, T!Paths, Tree!Paths

LEMMA SameBalance == \A t, p : T!Balance(t, p) = Tree!Balance(t, p)
<1>1. \A t, p, dir : T!Rot(t, p, dir) = Tree!Rot(t, p, dir)
  BY DEF T!Rot, Tree!Rot, T!Relinked, Tree!Relinked, T!Height, Tree!Height, T!Paths, Tree!Paths,
         T!IsPrefix, Tree!IsPrefix
<1> QED
  BY <1>1 DEF T!Balance, Tree!Balance, T!Height, Tree!Height, T!Paths, Tree!Paths

LEMMA SameRebalanced ==
    ASSUME NEW t, NEW path
    PROVE  T!Rebalanced(t, path) = Tree!Rebalanced(t, path)
<1> DEFINE This(f) == [n \in 0..Len(path) |->
                         LET p == SubSeq(path, 1, n)
                             below == f[n + 1]
                             b == T!Balance(below.tree, p)
                         IN  IF n = Len(path) THEN [tree |-> t, go |-> TRUE]
                             ELSE IF below.go THEN [tree |-> b, go |-> b[p].h # below.tree[p].h]
                             ELSE below]
           That(f) == [n \in 0..Len(path) |->
                         LET p == SubSeq(path, 1, n)
                             below == f[n + 1]
                             b == Tree!Balance(below.tree, p)
                         IN  IF n = Len(path) THEN [tree |-> t, go |-> TRUE]
                             ELSE IF below.go THEN [tree |-> b, go |-> b[p].h # below.tree[p].h]
                             ELSE below]
<1>1. T!Rebalanced(t, path) = (CHOOSE f : f = This(f))[0].tree
  BY DEF T!Rebalanced
<1>2. Tree!Rebalanced(t, path) = (CHOOSE f : f = That(f))[0].tree
  BY DEF Tree!Rebalanced
<1>3. ASSUME NEW f PROVE This(f) = That(f)
  BY SameBalance, Zenon
<1> HIDE DEF This, That
<1> QED
  BY <1>1, <1>2, <1>3

LEMMA SameInserted == \A t, e : T!Inserted(t, e) = Tree!Inserted(t, e)
BY SameFind, SameRebalanced DEF T!Inserted, Tree!Inserted, T!Paths, Tree!Paths

LEMMA SameDeleted == \A t, e : T!Deleted(t, e) = Tree!Deleted(t, e)
<1>1. \A t, p : T!Victim(t, p) = Tree!Victim(t, p)
  BY DEF T!Victim, Tree!Victim, T!Descend, Tree!Descend, T!Paths, Tree!Paths, T!Front, Tree!Front
<1> SUFFICES ASSUME NEW t, NEW e PROVE T!Deleted(t, e) = Tree!Deleted(t, e)
  OBVIOUS
<1> DEFINE This(P, p, v) ==
             IF p \notin P THEN t
             ELSE T!Rebalanced(T!Relinked([q \in P \ {v} |-> [t EXCEPT ![p].key = t[v].key][q]], << >>,
                                          {<<Append(v, IF v = p THEN 1 ELSE 0), v>>}), v)
           That(P, p, v) ==
             IF p \notin P THEN t
             ELSE Tree!Rebalanced(Tree!Relinked([q \in P \ {v} |-> [t EXCEPT ![p].key = t[v].key][q]], << >>,
                                                {<<Append(v, IF v = p THEN 1 ELSE 0), v>>}), v)
<1>2. T!Deleted(t, e) = This(T!Paths(t), T!Find(t, e), T!Victim(t, T!Find(t, e)))
  BY Zenon DEF T!Deleted
<1>3. Tree!Deleted(t, e) = That(Tree!Paths(t), Tree!Find(t, e), Tree!Victim(t, Tree!Find(t, e)))
  BY Zenon DEF Tree!Deleted
<1>4. ASSUME NEW P, NEW p, NEW v PROVE This(P, p, v) = That(P, p, v)
  BY SameRebalanced, SameRelinked, Zenon
<1>5. T!Paths(t) = Tree!Paths(t)
  BY DEF T!Paths, Tree!Paths
<1> HIDE DEF This, That
<1> QED
  BY <1>1, <1>2, <1>3, <1>4, <1>5, SameFind

LEMMA SameWalk == \A t : T!Walk(t) = Tree!Walk(t)
BY DEF T!Walk, Tree!Walk, T!Paths, Tree!Paths, T!Cardinality, Tree!Cardinality,
       T!IsStrictPrefix, Tree!IsStrictPrefix, T!Prefixes, Tree!Prefixes, T!IsPrefix, Tree!IsPrefix

LEMMA SameContents == \A t : T!Contents(t) = Tree!Contents(t)
BY DEF T!Contents, Tree!Contents, T!Paths, Tree!Paths

Trees == UNION {[P -> [key : Elements, h : Nat]] : P \in SUBSET Seq({0, 1})}

(* A tree as the proofs about trees leave it. *)
Upright(t) == t \in Trees /\ Tree!Upright(t)

(* Searching, inserting and deleting, in terms of what the tree contains. *)
LEMMA TreeIs ==
    ASSUME NEW t, Upright(t), NEW e \in Elements
    PROVE  /\ T!Contents(t) \subseteq Elements /\ IsFiniteSet(T!Contents(t))
           /\ \A k, m \in T!Contents(t) : Rank[k] = Rank[m] => k = m
           /\ T!Has(t, e) <=> \E k \in T!Contents(t) : Rank[k] = Rank[e]
           /\ Upright(T!Inserted(t, e))
           /\ T!Contents(T!Inserted(t, e)) = IF \E k \in T!Contents(t) : Rank[k] = Rank[e]
                                             THEN T!Contents(t) ELSE T!Contents(t) \cup {e}
           /\ Upright(T!Deleted(t, e))
           /\ T!Contents(T!Deleted(t, e)) = {k \in T!Contents(t) : Rank[k] # Rank[e]}
<1>1. \A u : Tree!Upright(u) => u \in Trees
  <2> SUFFICES ASSUME NEW u, Tree!Upright(u) PROVE u \in Trees
    OBVIOUS
  <2>1. DOMAIN u \subseteq Seq({0, 1}) /\ u \in [DOMAIN u -> [key : Elements, h : Nat]]
    BY DEF Tree!Upright, Tree!Formed, Tree!Paths, Tree!Links, Tree!Bits
  <2> QED
    BY <2>1 DEF Trees
<1>2. /\ Tree!Contents(t) \subseteq Elements /\ IsFiniteSet(Tree!Contents(t))
      /\ \A p, q \in Tree!Paths(t) : Rank[t[p].key] = Rank[t[q].key] => p = q
      /\ Tree!Find(t, e) \in Tree!Paths(t) <=> \E k \in Tree!Contents(t) : Rank[k] = Rank[e]
      /\ Tree!Upright(Tree!Inserted(t, e))
      /\ Tree!Contents(Tree!Inserted(t, e)) = IF \E k \in Tree!Contents(t) : Rank[k] = Rank[e]
                                              THEN Tree!Contents(t) ELSE Tree!Contents(t) \cup {e}
      /\ Tree!Upright(Tree!Deleted(t, e))
      /\ Tree!Contents(Tree!Deleted(t, e)) = {k \in Tree!Contents(t) : Rank[k] # Rank[e]}
  <2>1. Tree!Upright(t)
    BY DEF Upright
  <2>2. \A S : Tree!IsFiniteSet(S) <=> IsFiniteSet(S)
    BY DEF Tree!IsFiniteSet, IsFiniteSet
  <2> QED
    BY <2>1, <2>2, RankIs, Tree!TreeIs
<1>3. T!Has(t, e) <=> Tree!Find(t, e) \in Tree!Paths(t)
  BY SameFind DEF T!Has, T!Paths, Tree!Paths
<1>4. \A k, m \in Tree!Contents(t) : Rank[k] = Rank[m] => k = m
  BY <1>2 DEF Tree!Contents
<1> QED
  BY <1>1, <1>2, <1>3, <1>4, SameInserted, SameDeleted, SameContents DEF Upright

(* What a walk lists: every element once. *)
LEMMA VisitedIs ==
    ASSUME NEW t, Upright(t)
    PROVE  /\ Visited(t) \in Seq(Elements)
           /\ {Visited(t)[i] : i \in 1..Len(Visited(t))} = T!Contents(t)
           /\ \A i, j \in 1..Len(Visited(t)) : Rank[Visited(t)[i]] = Rank[Visited(t)[j]] => i = j
<1>1. Visited(t) = Tree!Listing(t)
  BY SameWalk DEF Visited, Tree!Listing
<1> HIDE DEF Visited
<1>2. Tree!Upright(t)
  BY DEF Upright
<1> QED
  BY <1>1, <1>2, RankIs, Tree!ListingIs, SameContents

LEMMA EmptyIs == Upright(T!Empty) /\ T!Contents(T!Empty) = {}
<1>1. T!Empty = Tree!Empty
  BY DEF T!Empty, Tree!Empty
<1>2. Tree!Upright(Tree!Empty) /\ Tree!Contents(Tree!Empty) = {}
  BY RankIs, Tree!EmptyUpright
<1>3. Tree!Empty \in Trees
  <2>1. Tree!Empty \in [{} -> [key : Elements, h : Nat]]
    BY DEF Tree!Empty
  <2> QED
    BY <2>1 DEF Trees
<1> QED
  BY <1>1, <1>2, <1>3, SameContents DEF Upright

-----------------------------------------------------------------------------
(* Counts, one object at a time. *)
Memory == [live : SUBSET Elements, rc : [Elements -> Nat], retained : [Elements -> BOOLEAN],
           fault : BOOLEAN, crashed : BOOLEAN]

(* From c to d, nothing changes for the object e. *)
Unaltered(c, d, e) == /\ e \in d.live <=> e \in c.live
                      /\ d.rc[e] = c.rc[e] /\ d.retained[e] = c.retained[e]

LEMMA IncrIs ==
    ASSUME NEW c \in Memory, NEW o \in Elements, NEW policy, NEW d, d = Incr(c, o, policy)
    PROVE  /\ d \in Memory /\ d.live = c.live /\ d.fault = c.fault /\ d.crashed = c.crashed
           /\ \A e \in Elements : e # o => Unaltered(c, d, e)
           /\ d.rc[o] = IF policy = "RC" /\ ~ c.retained[o] THEN c.rc[o] + 1 ELSE c.rc[o]
           /\ policy # "DEL" => d.retained = c.retained
           /\ policy = "DEL" => d.retained[o]
<1>1. CASE policy = "RC" /\ ~ c.retained[o]
  <2>1. d = [c EXCEPT !.rc = [c.rc EXCEPT ![o] = c.rc[o] + 1]]
    BY <1>1 DEF Incr
  <2> QED
    BY <1>1, <2>1 DEF Memory, Unaltered
<1>2. CASE policy = "DEL"
  <2>1. d = [c EXCEPT !.retained = [c.retained EXCEPT ![o] = TRUE]]
    BY <1>2 DEF Incr
  <2> QED
    BY <1>2, <2>1 DEF Memory, Unaltered
<1>3. CASE ~ (policy = "RC" /\ ~ c.retained[o]) /\ policy # "DEL"
  <2>1. d = c
    BY <1>3 DEF Incr
  <2> QED
    BY <1>3, <2>1 DEF Memory, Unaltered
<1> QED
  BY <1>1, <1>2, <1>3

LEMMA FreedIs ==
    ASSUME NEW c \in Memory, NEW o \in c.live, NEW d, d = Freed(c, o)
    PROVE  /\ d \in Memory /\ d.live = c.live \ {o} /\ d.fault = c.fault /\ d.crashed = c.crashed
           /\ \A e \in Elements : e # o => Unaltered(c, d, e)
           /\ d.rc[o] = 0
<1>1. o \in Elements
  BY DEF Memory
<1>2. d = [live |-> c.live \ {o}, rc |-> [c.rc EXCEPT ![o] = 0], retained |-> [c.retained EXCEPT ![o] = FALSE],
           fault |-> c.fault, crashed |-> c.crashed]
  BY DEF Freed, Memory
<1> QED
  BY <1>1, <1>2 DEF Memory, Unaltered

(* What becomes of e when a set of this policy lets it go. *)
LetGone(c, d, e, policy) ==
    /\ d.rc[e] <= c.rc[e]
    /\ policy = "RC" => IF ~ c.retained[e] /\ c.rc[e] <= 1 THEN e \notin d.live
                        ELSE /\ e \in d.live <=> e \in c.live
                             /\ d.retained[e] = c.retained[e] /\ d.rc[e] + 1 >= c.rc[e]
    /\ policy = "DEL" => e \notin d.live
    /\ policy \notin {"RC", "DEL"} => Unaltered(c, d, e)

LEMMA LetGoIs ==
    ASSUME NEW c \in Memory, NEW o \in c.live, NEW policy, NEW d, d = LetGo(c, o, policy)
    PROVE  /\ d \in Memory /\ d.fault = c.fault /\ d.crashed = c.crashed
           /\ \A e \in Elements : e # o => Unaltered(c, d, e)
           /\ LetGone(c, d, o, policy)
<1>1. o \in Elements /\ c.rc[o] \in Nat
  BY DEF Memory
<1>2. CASE policy = "RC"
  <2> DEFINE left == IF c.rc[o] > 0 THEN c.rc[o] - 1 ELSE 0
             b == [c EXCEPT !.rc[o] = left, !.fault = c.fault]
  <2>1. left \in Nat /\ left <= c.rc[o] /\ left + 1 >= c.rc[o] /\ (left > 0 <=> c.rc[o] > 1)
    BY <1>1
  <2>2. d = IF c.retained[o] \/ left > 0 THEN b ELSE Freed(b, o)
    <3>1. (c.fault \/ o \notin c.live) = c.fault
      BY DEF Memory
    <3>2. d = DelRef(c, o)
      BY <1>2 DEF LetGo
    <3> QED
      BY <3>1, <3>2 DEF DelRef
  <2> HIDE DEF left
  <2>3. /\ b \in Memory /\ b.fault = c.fault /\ b.crashed = c.crashed /\ b.live = c.live
        /\ \A e \in Elements : e # o => Unaltered(c, b, e)
        /\ b.rc[o] = left /\ b.retained = c.retained
    BY <1>1, <2>1 DEF Memory, Unaltered
  <2> HIDE DEF b
  <2>4. CASE c.retained[o] \/ left > 0
    <3>1. d = b
      BY <2>2, <2>4
    <3> QED
      BY <1>1, <1>2, <2>1, <2>3, <2>4, <3>1 DEF LetGone
  <2>5. CASE ~ (c.retained[o] \/ left > 0)
    <3>1. d = Freed(b, o)
      BY <2>2, <2>5
    <3>2. /\ d \in Memory /\ d.live = b.live \ {o} /\ d.fault = b.fault /\ d.crashed = b.crashed
          /\ \A e \in Elements : e # o => Unaltered(b, d, e)
          /\ d.rc[o] = 0
      BY <2>3, <3>1, FreedIs
    <3> QED
      BY <1>1, <1>2, <2>1, <2>3, <2>5, <3>2 DEF LetGone, Unaltered
  <2> QED
    BY <2>4, <2>5
<1>3. CASE policy = "DEL"
  <2>1. d = Freed(c, o)
    BY <1>3 DEF LetGo
  <2> QED
    BY <1>1, <1>3, <2>1, FreedIs DEF LetGone
<1>4. CASE policy \notin {"RC", "DEL"}
  <2>1. d = c
    BY <1>4 DEF LetGo
  <2> QED
    BY <1>1, <1>4, <2>1 DEF LetGone, Unaltered
<1> QED
  BY <1>2, <1>3, <1>4

(* A list names each of its objects once. *)
Once(list) == list \in Seq(Elements) /\ \A i, j \in 1..Len(list) : list[i] = list[j] => i = j
Members(list) == {list[i] : i \in 1..Len(list)}

(* The list of cee_set_values counts each of its elements. *)
LEMMA ListedIs ==
    ASSUME NEW c \in Memory, NEW list, Once(list), NEW d, d = Listed(c, list)
    PROVE  /\ d \in Memory /\ d.live = c.live /\ d.fault = c.fault /\ d.crashed = c.crashed
           /\ d.retained = c.retained
           /\ \A e \in Elements : d.rc[e] = IF e \in Members(list) /\ ~ c.retained[e] THEN c.rc[e] + 1 ELSE c.rc[e]
<1> DEFINE n == Len(list)
           g == [i \in 1..n |-> [x \in Memory |-> Incr(x, list[i], "RC")]]
           After(f) == [i \in 0..n |-> IF i = 0 THEN c ELSE Incr(f[i - 1], list[i], "RC")]
           F == CHOOSE f : f = After(f)
<1>1. n \in Nat /\ \A i \in 1..n : list[i] \in Elements
  BY DEF Once
<1>2. d = F[n]
  BY DEF Listed
<1> HIDE DEF n
<1>3. \E f : f = After(f)
  <2>1. \A i \in 1..n : \A x \in Memory : Incr(x, list[i], "RC") \in Memory
    BY <1>1, IncrIs
  <2>2. g \in [1..n -> [Memory -> Memory]]
    BY <2>1
  <2>3. PICK f \in [0..n -> Memory] : Tree!Runs(f, n, c, g)
    <3> HIDE DEF g, After, F
    <3>1. n \in Nat
      BY <1>1
    <3> QED
      BY ONLY <3>1, <2>2, c \in Memory, RankIs, Tree!RecursionIs
  <2>4. ASSUME NEW i \in 0..n PROVE f[i] = IF i = 0 THEN c ELSE Incr(f[i - 1], list[i], "RC")
    <3>1. CASE i = 0
      BY <2>3, <3>1 DEF Tree!Runs
    <3>2. CASE i # 0
      <4>1. i \in 1..n /\ i - 1 \in 0..n
        BY <1>1, <3>2
      <4>2. f[i - 1] \in Memory
        BY <2>3, <4>1
      <4>3. f[i] = g[i][f[i - 1]]
        BY <2>3, <4>1 DEF Tree!Runs
      <4> QED
        BY <3>2, <4>1, <4>2, <4>3
    <3> QED
      BY <3>1, <3>2
  <2>5. f = After(f)
    BY <2>3, <2>4
  <2> QED
    BY <2>5
<1>4. F = After(F)
  BY <1>3
<1>5. F[0] = c /\ \A i \in 1..n : F[i] = Incr(F[i - 1], list[i], "RC")
  <2> HIDE DEF F
  <2> QED
    BY <1>1, <1>4
<1> HIDE DEF F
<1> DEFINE Seen(m) == {list[i] : i \in 1..m}
           G == {m \in 0..n : /\ F[m] \in Memory /\ F[m].live = c.live /\ F[m].fault = c.fault
                              /\ F[m].crashed = c.crashed /\ F[m].retained = c.retained
                              /\ \A e \in Elements : F[m].rc[e] = IF e \in Seen(m) /\ ~ c.retained[e]
                                                                  THEN c.rc[e] + 1 ELSE c.rc[e]}
<1>6. 0 \in G
  BY <1>1, <1>5
<1>7. ASSUME NEW m \in 0..n - 1, m \in G PROVE m + 1 \in G
  <2> DEFINE o == list[m + 1]
             x == F[m]
             y == F[m + 1]
  <2>1. m + 1 \in 1..n /\ (m + 1) - 1 = m /\ m \in 0..n
    BY <1>1
  <2>2. o \in Elements /\ y = Incr(x, o, "RC")
    BY <1>1, <1>5, <2>1
  <2>3. o \notin Seen(m) /\ Seen(m + 1) = Seen(m) \cup {o}
    <3>1. \A i \in 1..m : i \in 1..n /\ i # m + 1
      BY <1>1, <2>1
    <3>2. 1..m + 1 = 1..m \cup {m + 1}
      BY <2>1
    <3> QED
      BY <2>1, <3>1, <3>2 DEF Once, n
  <2> HIDE DEF Seen, o, y
  <2>4. /\ x \in Memory /\ x.live = c.live /\ x.fault = c.fault /\ x.crashed = c.crashed
        /\ x.retained = c.retained
        /\ \A e \in Elements : x.rc[e] = IF e \in Seen(m) /\ ~ c.retained[e] THEN c.rc[e] + 1 ELSE c.rc[e]
    BY <1>7
  <2> HIDE DEF x
  <2>5. /\ y \in Memory /\ y.live = x.live /\ y.fault = x.fault /\ y.crashed = x.crashed
        /\ \A e \in Elements : e # o => Unaltered(x, y, e)
        /\ y.rc[o] = IF ~ x.retained[o] THEN x.rc[o] + 1 ELSE x.rc[o]
        /\ y.retained = x.retained
    BY <2>2, <2>4, IncrIs
  <2>6. ASSUME NEW e \in Elements
        PROVE  y.rc[e] = IF e \in Seen(m + 1) /\ ~ c.retained[e] THEN c.rc[e] + 1 ELSE c.rc[e]
    BY <2>3, <2>4, <2>5 DEF Unaltered
  <2> QED
    BY <2>1, <2>4, <2>5, <2>6 DEF y
<1> HIDE DEF G
<1>8. n \in G
  <2>1. \A m \in 0..n : m \in G
    BY ONLY <1>1, <1>6, <1>7, RankIs, Tree!InductionIs
  <2> QED
    BY <1>1, <2>1
<1> QED
  BY <1>2, <1>8 DEF G, Members, n

(* A set, or a list, lets go of its elements one after another. *)
LEMMA LetGoAllIs ==
    ASSUME NEW c \in Memory, NEW list, Once(list), Members(list) \subseteq c.live, NEW policy,
           NEW d, d = LetGoAll(c, list, policy)
    PROVE  /\ d \in Memory /\ d.fault = c.fault /\ d.crashed = c.crashed
           /\ \A e \in Elements : e \notin Members(list) => Unaltered(c, d, e)
           /\ \A e \in Members(list) : LetGone(c, d, e, policy)
<1> DEFINE n == Len(list)
           After(f) == [i \in 0..n |-> IF i = 0 THEN c ELSE LetGo(f[i - 1], list[i], policy)]
           F == CHOOSE f : f = After(f)
           Free(x, o) == IF o \in x.live THEN LetGo(x, o, policy) ELSE x
           g == [i \in 1..n |-> [x \in Memory |-> Free(x, list[i])]]
           Seen(m) == {list[i] : i \in 1..m}
           Good(x, m) == /\ x \in Memory /\ x.fault = c.fault /\ x.crashed = c.crashed
                         /\ \A e \in Elements : e \notin Seen(m) => Unaltered(c, x, e)
                         /\ \A e \in Seen(m) : LetGone(c, x, e, policy)
<1>1. n \in Nat /\ \A i \in 1..n : list[i] \in Elements /\ list[i] \in c.live
  BY DEF Once, Members
<1>2. d = F[n]
  BY DEF LetGoAll
<1>3. \A i, j \in 1..n : list[i] = list[j] => i = j
  BY DEF Once
<1> HIDE DEF n
<1>4. Good(c, 0)
  BY DEF Unaltered
<1>5. ASSUME NEW m \in 0..n - 1, NEW x, Good(x, m)
      PROVE  m + 1 \in 1..n /\ list[m + 1] \in x.live /\ Good(LetGo(x, list[m + 1], policy), m + 1)
  <2> DEFINE o == list[m + 1]
             y == LetGo(x, o, policy)
  <2>1. m + 1 \in 1..n /\ m \in 0..n
    BY <1>1
  <2>2. o \in Elements /\ o \in c.live
    BY <1>1, <2>1
  <2>3. o \notin Seen(m) /\ Seen(m + 1) = Seen(m) \cup {o} /\ Seen(m) \subseteq Elements
    <3>1. \A i \in 1..m : i \in 1..n /\ i # m + 1
      BY <1>1, <2>1
    <3>2. 1..m + 1 = 1..m \cup {m + 1}
      BY <2>1
    <3> QED
      BY <1>1, <1>3, <2>1, <3>1, <3>2
  <2> HIDE DEF Seen, o
  <2>4. /\ x \in Memory /\ x.fault = c.fault /\ x.crashed = c.crashed
        /\ \A e \in Elements : e \notin Seen(m) => Unaltered(c, x, e)
        /\ \A e \in Seen(m) : LetGone(c, x, e, policy)
    BY <1>5
  <2>5. Unaltered(c, x, o) /\ o \in x.live
    BY <2>2, <2>3, <2>4 DEF Unaltered
  <2>6. /\ y \in Memory /\ y.fault = x.fault /\ y.crashed = x.crashed
        /\ \A e \in Elements : e # o => Unaltered(x, y, e)
        /\ LetGone(x, y, o, policy)
    BY <2>4, <2>5, LetGoIs
  <2> HIDE DEF y
  <2>7. \A e \in Elements : e \notin Seen(m + 1) => Unaltered(c, y, e)
    BY <2>3, <2>4, <2>6 DEF Unaltered
  <2>8. ASSUME NEW e \in Seen(m + 1) PROVE LetGone(c, y, e, policy)
    <3>1. CASE e = o
      BY <2>5, <2>6, <3>1 DEF LetGone, Unaltered
    <3>2. CASE e # o
      <4>1. e \in Elements /\ LetGone(c, x, e, policy) /\ Unaltered(x, y, e)
        BY <2>3, <2>4, <2>6, <3>2
      <4> QED
        BY <4>1 DEF LetGone, Unaltered
    <3> QED
      BY <3>1, <3>2
  <2> QED
    BY <2>1, <2>4, <2>5, <2>6, <2>7, <2>8 DEF o, y
<1>6. \E f : f = After(f)
  <2>1. \A x \in Memory : \A o \in Elements : Free(x, o) \in Memory
    BY LetGoIs
  <2>2. g \in [1..n -> [Memory -> Memory]]
    <3> HIDE DEF Free
    <3> QED
      BY <1>1, <2>1
  <2>3. PICK f \in [0..n -> Memory] : Tree!Runs(f, n, c, g)
    <3> HIDE DEF g, After, F, Free, Good, Seen
    <3>1. n \in Nat
      BY <1>1
    <3> QED
      BY ONLY <3>1, <2>2, c \in Memory, RankIs, Tree!RecursionIs
  <2>4. f[0] = c /\ \A i \in 1..n : f[i] = Free(f[i - 1], list[i])
    <3>1. \A i \in 1..n : i - 1 \in 0..n
      BY <1>1
    <3> HIDE DEF Free
    <3> QED
      BY <2>3, <3>1 DEF Tree!Runs
  <2> DEFINE H == {m \in 0..n : Good(f[m], m)}
  <2>5. 0 \in H
    <3> HIDE DEF Good
    <3> QED
      BY <1>1, <1>4, <2>4
  <2>6. ASSUME NEW m \in 0..n - 1, m \in H
        PROVE  m + 1 \in H /\ f[m + 1] = LetGo(f[m], list[m + 1], policy)
    <3>1. m + 1 \in 1..n /\ list[m + 1] \in f[m].live /\ Good(LetGo(f[m], list[m + 1], policy), m + 1)
      <4> HIDE DEF Good
      <4> QED
        BY <1>5, <2>6
    <3>2. (m + 1) - 1 = m /\ m + 1 \in 0..n
      BY <1>1
    <3>3. f[m + 1] = Free(f[m], list[m + 1])
      <4> HIDE DEF Free
      <4> QED
        BY <2>4, <3>1, <3>2
    <3>4. f[m + 1] = LetGo(f[m], list[m + 1], policy)
      BY <3>1, <3>3
    <3> HIDE DEF Good, Free
    <3> QED
      BY <3>1, <3>2, <3>4
  <2> HIDE DEF H
  <2>7. \A m \in 0..n : m \in H
    BY ONLY <1>1, <2>5, <2>6, RankIs, Tree!InductionIs
  <2>8. ASSUME NEW i \in 0..n PROVE f[i] = IF i = 0 THEN c ELSE LetGo(f[i - 1], list[i], policy)
    <3>1. i # 0 => i - 1 \in 0..n - 1 /\ i - 1 \in 0..n /\ (i - 1) + 1 = i
      BY <1>1
    <3>2. i # 0 => f[i] = LetGo(f[i - 1], list[i], policy)
      BY <2>6, <2>7, <3>1
    <3> QED
      BY <2>4, <3>2
  <2>9. f = After(f)
    <3> HIDE DEF Good, Free
    <3> QED
      BY <2>3, <2>8
  <2> QED
    BY <2>9
<1>7. F = After(F)
  BY <1>6
<1>8. F[0] = c /\ \A i \in 1..n : F[i] = LetGo(F[i - 1], list[i], policy)
  <2> HIDE DEF F
  <2> QED
    BY <1>1, <1>7
<1> HIDE DEF F, Good
<1> DEFINE G == {m \in 0..n : Good(F[m], m)}
<1>9. 0 \in G
  BY <1>1, <1>4, <1>8
<1>10. ASSUME NEW m \in 0..n - 1, m \in G PROVE m + 1 \in G
  <2>1. (m + 1) - 1 = m /\ m + 1 \in 0..n /\ m + 1 \in 1..n
    BY <1>1
  <2>2. F[m + 1] = LetGo(F[m], list[m + 1], policy)
    BY <1>8, <2>1
  <2> QED
    BY <1>5, <1>10, <2>1, <2>2
<1> HIDE DEF G
<1>11. n \in G
  <2>1. \A m \in 0..n : m \in G
    BY ONLY <1>1, <1>9, <1>10, RankIs, Tree!InductionIs
  <2> QED
    BY <1>1, <2>1
<1>12. Good(d, n) /\ Seen(n) = Members(list)
  BY <1>2, <1>11 DEF G, Members, n
<1> QED
  BY <1>12 DEF Good

-----------------------------------------------------------------------------
(* A set and the memory, as the functions of set.c find and leave them.    *)
Kinds == {"RC", "DEL", "NOOP"}
IsSet(s) == /\ s \in [tree : Trees, size : Nat, policy : Kinds] /\ Tree!Upright(s.tree)
            /\ s.size >= Cardinality(T!Contents(s.tree))
Working == {x \in [set : [tree : Trees, size : Nat, policy : Kinds], mem : Memory] : IsSet(x.set)}

Held(x) == T!Contents(x.set.tree)

Equal(A, e) == {k \in A : Rank[k] = Rank[e]}

(* No count of an object that is not retained goes down, and what comes in *)
(* is counted.                                                             *)
Counts(c, d, A, B) ==
    /\ d.live = c.live /\ d.fault = c.fault /\ d.crashed = c.crashed /\ d.retained = c.retained
    /\ \A o \in Elements : ~ c.retained[o] => /\ d.rc[o] >= c.rc[o]
                                             /\ (o \in B \ A => d.rc[o] >= c.rc[o] + 1)

LEMMA GrownIs ==
    ASSUME NEW r \in [tree : Trees, size : Nat, policy : Kinds], NEW t, NEW n,
           NEW u, u = [r EXCEPT !.tree = t, !.size = n]
    PROVE  u = [tree |-> t, size |-> n, policy |-> r.policy]
OBVIOUS

LEMMA AddedIs ==
    ASSUME NEW x \in Working, NEW e \in Elements, NEW y, y = Added(x, e)
    PROVE  /\ y \in Working /\ y.set.policy = x.set.policy
           /\ Held(y) = IF Equal(Held(x), e) = {} THEN Held(x) \cup {e} ELSE Held(x)
           /\ y.mem = Incr(x.mem, e, x.set.policy) \/ (y.mem = x.mem /\ Held(y) = Held(x))
           /\ x.set.policy = "RC" => Counts(x.mem, y.mem, Held(x), Held(y))
<1> DEFINE A == Held(x)
           B == Held(y)
<1>0. A = T!Contents(x.set.tree) /\ B = T!Contents(y.set.tree)
  BY DEF Held
<1> HIDE DEF A, B
<1> DEFINE t == T!Inserted(x.set.tree, e)
           refused == \E f \in T!Contents(t) : Rank[f] = Rank[e] /\ f # e
           counted == Incr(x.mem, e, x.set.policy)
<1>1. /\ IsSet(x.set) /\ x.set \in [tree : Trees, size : Nat, policy : Kinds] /\ x.mem \in Memory
      /\ x = [set |-> x.set, mem |-> x.mem] /\ Upright(x.set.tree)
      /\ x.set.size >= Cardinality(A)
  BY <1>0 DEF Working, IsSet, Upright
<1>2. /\ A \subseteq Elements /\ IsFiniteSet(A) /\ Upright(t)
      /\ \A k, m \in A : Rank[k] = Rank[m] => k = m
      /\ T!Contents(t) = IF \E k \in A : Rank[k] = Rank[e] THEN A ELSE A \cup {e}
  <2> DEFINE u == x.set.tree
  <2>1. Upright(u) /\ A = T!Contents(u) /\ t = T!Inserted(u, e)
    BY <1>0, <1>1
  <2> HIDE DEF refused, counted, t, u
  <2>2. /\ T!Contents(u) \subseteq Elements /\ IsFiniteSet(T!Contents(u))
        /\ \A k, m \in T!Contents(u) : Rank[k] = Rank[m] => k = m
        /\ Upright(T!Inserted(u, e))
        /\ T!Contents(T!Inserted(u, e)) = IF \E k \in T!Contents(u) : Rank[k] = Rank[e]
                                          THEN T!Contents(u) ELSE T!Contents(u) \cup {e}
    BY <2>1, TreeIs
  <2> QED
    BY <2>1, <2>2
<1>3. y = IF refused THEN x
          ELSE [set |-> [x.set EXCEPT !.tree = t, !.size = x.set.size + 1], mem |-> counted]
  BY DEF Added
<1> HIDE DEF t
<1>4. Cardinality(A) \in Nat /\ Cardinality(A \cup {e}) <= Cardinality(A) + 1 /\ Cardinality(A \cup {e}) \in Nat
  <2>1. IsFiniteSet(A)
    BY <1>2
  <2>2. Cardinality(A) \in Nat
    BY <2>1, FS_CardinalityType
  <2>3. Cardinality(A \cup {e}) = IF e \in A THEN Cardinality(A) ELSE Cardinality(A) + 1
    BY <2>1, FS_AddElement
  <2> QED
    BY <2>2, <2>3
<1>5. CASE refused
  <2>1. y = x /\ B = A
    BY <1>0, <1>3, <1>5
  <2>2. Equal(A, e) # {}
    BY <1>0, <1>2, <1>5 DEF Equal
  <2>3. \A o \in Elements : x.mem.rc[o] \in Nat
    BY <1>1 DEF Memory
  <2>4. Counts(x.mem, y.mem, A, B)
    BY <2>1, <2>3 DEF Counts
  <2> QED
    BY <2>1, <2>2, <2>4 DEF A, B
<1>6. CASE ~ refused
  <2> DEFINE s == [x.set EXCEPT !.tree = t, !.size = x.set.size + 1]
  <2>1. y = [set |-> s, mem |-> counted]
    BY <1>3, <1>6
  <2>2. s = [tree |-> t, size |-> x.set.size + 1, policy |-> x.set.policy]
    <3> DEFINE r == x.set
               more == r.size + 1
    <3>1. r \in [tree : Trees, size : Nat, policy : Kinds]
      BY <1>1
    <3> HIDE DEF r, more
    <3>2. [r EXCEPT !.tree = t, !.size = more] = [tree |-> t, size |-> more, policy |-> r.policy]
      BY <3>1, GrownIs
    <3> QED
      BY <3>2 DEF r, more
  <2> HIDE DEF s, counted
  <2>3. B = T!Contents(t) /\ y.set = s /\ y.mem = counted
    BY <1>0, <2>1, <2>2
  <2>4. B = IF Equal(A, e) = {} THEN A \cup {e} ELSE A
    BY <1>2, <2>3 DEF Equal
  <2>5. IsSet(s)
    <3>1. x.set.size + 1 \in Nat /\ x.set.size + 1 >= Cardinality(B)
      BY <1>1, <1>4, <2>4
    <3>2. s.tree = t /\ s.size = x.set.size + 1 /\ s.policy = x.set.policy
      BY <2>2
    <3>3. t \in Trees /\ Tree!Upright(t) /\ x.set.policy \in Kinds
      BY <1>1, <1>2 DEF Upright
    <3>4. s \in [tree : Trees, size : Nat, policy : Kinds]
      BY <2>2, <3>1, <3>3
    <3> QED
      BY <2>3, <3>1, <3>2, <3>3, <3>4 DEF IsSet
  <2>6. /\ counted \in Memory /\ counted.live = x.mem.live /\ counted.fault = x.mem.fault
        /\ counted.crashed = x.mem.crashed
        /\ \A o \in Elements : o # e => Unaltered(x.mem, counted, o)
        /\ counted.rc[e] = IF x.set.policy = "RC" /\ ~ x.mem.retained[e] THEN x.mem.rc[e] + 1 ELSE x.mem.rc[e]
        /\ x.set.policy # "DEL" => counted.retained = x.mem.retained
    BY <1>1, IncrIs DEF counted
  <2>7. y \in Working
    BY <2>1, <2>5, <2>6 DEF Working, IsSet
  <2>8. x.set.policy = "RC" => Counts(x.mem, counted, A, B)
    <3>1. \A o \in Elements : x.mem.rc[o] \in Nat
      BY <1>1 DEF Memory
    <3>2. B \ A \subseteq {e}
      BY <2>4
    <3> QED
      BY <2>6, <3>1, <3>2 DEF Counts, Unaltered
  <2> QED
    BY <2>2, <2>3, <2>4, <2>7, <2>8 DEF counted, A, B
<1> QED
  BY <1>5, <1>6

LEMMA CountsOn ==
    ASSUME NEW c \in Memory, NEW d \in Memory, NEW m \in Memory, NEW A, NEW B, NEW C,
           Counts(c, d, A, B), Counts(d, m, B, C)
    PROVE  Counts(c, m, A, C)
<1>1. \A o \in Elements : c.rc[o] \in Nat /\ d.rc[o] \in Nat /\ m.rc[o] \in Nat
  BY DEF Memory
<1> QED
  BY <1>1 DEF Counts

(* Adding all elements of a list to a set that counts: those that no       *)
(* element of the set equals join it.                                      *)
LEMMA AddAllIs ==
    ASSUME NEW x \in Working, x.set.policy = "RC", NEW list \in Seq(Elements),
           \A i, j \in 1..Len(list) : Rank[list[i]] = Rank[list[j]] => i = j,
           NEW y, y = AddAll(x, list)
    PROVE  /\ y \in Working /\ y.set.policy = "RC"
           /\ Held(y) = Held(x) \cup {e \in Members(list) : Equal(Held(x), e) = {}}
           /\ Counts(x.mem, y.mem, Held(x), Held(y))
<1> DEFINE A == Held(x)
<1> HIDE DEF A
<1> DEFINE n == Len(list)
           After(f) == [i \in 0..n |-> IF i = 0 THEN x ELSE Added(f[i - 1], list[i])]
           F == CHOOSE f : f = After(f)
           g == [i \in 1..n |-> [z \in Working |-> Added(z, list[i])]]
           Seen(m) == {list[i] : i \in 1..m}
           Good(z, m) == /\ z \in Working /\ z.set.policy = "RC"
                         /\ Held(z) = A \cup {e \in Seen(m) : Equal(A, e) = {}}
                         /\ Counts(x.mem, z.mem, A, Held(z))
<1>1. n \in Nat /\ \A i \in 1..n : list[i] \in Elements
  OBVIOUS
<1>2. y = F[n]
  BY DEF AddAll
<1>3. \A i, j \in 1..n : Rank[list[i]] = Rank[list[j]] => i = j
  OBVIOUS
<1> HIDE DEF n
<1>4. Good(x, 0)
  <2>1. \A o \in Elements : x.mem.rc[o] \in Nat
    BY DEF Working, Memory
  <2> QED
    BY <2>1 DEF Counts, A
<1>5. ASSUME NEW m \in 0..n - 1, NEW z, Good(z, m) PROVE Good(Added(z, list[m + 1]), m + 1)
  <2> HIDE DEF F, g, After
  <2> DEFINE e == list[m + 1]
             w == Added(z, e)
  <2>1. m + 1 \in 1..n /\ m \in 0..n
    BY <1>1
  <2>2. e \in Elements
    BY <1>1, <2>1
  <2>3. Seen(m + 1) = Seen(m) \cup {e} /\ \A k \in Seen(m) : Rank[k] # Rank[e]
    <3>1. \A i \in 1..m : i \in 1..n /\ i # m + 1
      BY <1>1, <2>1
    <3>2. 1..m + 1 = 1..m \cup {m + 1}
      BY <2>1
    <3> QED
      BY <1>1, <1>3, <2>1, <3>1, <3>2
  <2> HIDE DEF Seen, e
  <2>4. /\ z \in Working /\ z.set.policy = "RC"
        /\ Held(z) = A \cup {k \in Seen(m) : Equal(A, k) = {}}
        /\ Counts(x.mem, z.mem, A, Held(z))
    BY <1>5
  <2>5. /\ w \in Working /\ w.set.policy = "RC"
        /\ Held(w) = IF Equal(Held(z), e) = {} THEN Held(z) \cup {e} ELSE Held(z)
        /\ Counts(z.mem, w.mem, Held(z), Held(w))
    <3> HIDE DEF Good
    <3>1. w = Added(z, e)
      OBVIOUS
    <3> HIDE DEF w
    <3>2. z \in Working /\ z.set.policy = "RC"
      BY <2>4
    <3>3. /\ w \in Working /\ w.set.policy = z.set.policy
          /\ Held(w) = IF Equal(Held(z), e) = {} THEN Held(z) \cup {e} ELSE Held(z)
      BY <2>2, <3>1, <3>2, AddedIs
    <3>4. Counts(z.mem, w.mem, Held(z), Held(w))
      BY <2>2, <3>1, <3>2, AddedIs
    <3> QED
      BY <3>2, <3>3, <3>4
  <2> HIDE DEF w, Good
  <2>6. Equal(Held(z), e) = Equal(A, e)
    BY <2>3, <2>4 DEF Equal
  <2>7. Held(w) = A \cup {k \in Seen(m + 1) : Equal(A, k) = {}}
    BY <2>3, <2>4, <2>5, <2>6
  <2>8. Counts(x.mem, w.mem, A, Held(w))
    <3>1. x.mem \in Memory /\ z.mem \in Memory /\ w.mem \in Memory
      BY <2>4, <2>5 DEF Working
    <3> QED
      BY <2>4, <2>5, <3>1, CountsOn
  <2> QED
    BY <2>5, <2>7, <2>8 DEF w, e, Good
<1>6. \E f : f = After(f)
  <2>1. \A z \in Working : \A e \in Elements : Added(z, e) \in Working
    BY AddedIs
  <2>2. g \in [1..n -> [Working -> Working]]
    BY <1>1, <2>1
  <2>3. PICK f \in [0..n -> Working] : Tree!Runs(f, n, x, g)
    <3> HIDE DEF g, After, F, Good, Seen
    <3>1. n \in Nat
      BY <1>1
    <3> QED
      BY ONLY <3>1, <2>2, x \in Working, RankIs, Tree!RecursionIs
  <2>4. ASSUME NEW i \in 0..n PROVE f[i] = IF i = 0 THEN x ELSE Added(f[i - 1], list[i])
    <3>1. i # 0 => i \in 1..n /\ i - 1 \in 0..n
      BY <1>1
    <3> HIDE DEF Good
    <3> QED
      BY <2>3, <3>1 DEF Tree!Runs
  <2>5. f = After(f)
    BY <2>3, <2>4
  <2> QED
    BY <2>5
<1>7. F = After(F)
  BY <1>6
<1>8. F[0] = x /\ \A i \in 1..n : F[i] = Added(F[i - 1], list[i])
  <2> HIDE DEF F
  <2> QED
    BY <1>1, <1>7
<1> HIDE DEF F, Good
<1> DEFINE G == {m \in 0..n : Good(F[m], m)}
<1>9. 0 \in G
  BY <1>1, <1>4, <1>8
<1>10. ASSUME NEW m \in 0..n - 1, m \in G PROVE m + 1 \in G
  <2>1. (m + 1) - 1 = m /\ m + 1 \in 0..n /\ m + 1 \in 1..n
    BY <1>1
  <2>2. F[m + 1] = Added(F[m], list[m + 1])
    BY <1>8, <2>1
  <2> QED
    BY <1>5, <1>10, <2>1, <2>2
<1> HIDE DEF G
<1>11. n \in G
  <2>1. \A m \in 0..n : m \in G
    BY ONLY <1>1, <1>9, <1>10, RankIs, Tree!InductionIs
  <2> QED
    BY <1>1, <2>1
<1>12. Good(y, n) /\ Seen(n) = Members(list)
  BY <1>2, <1>11 DEF G, Members, n
<1> QED
  BY <1>12 DEF Good, A

-----------------------------------------------------------------------------
(* The inductive invariant. *)
SetsSound == /\ IsFiniteSet(Made) /\ Made \subseteq Sets
             /\ \A s \in Made : IsSet(sets[s]) /\ sets[s].policy \in Policies
MemorySound == mem \in Memory /\ \A o \in Elements : mem.rc[o] <= MaxRc
ValuesSound == Once(values) /\ Members(values) \subseteq mem.live

(* What a set holds that does not count, nobody else holds. *)
Exclusive == \A s \in Made : \A o \in Contents(s) :
                sets[s].policy # "RC" => Holders(o) = {s} /\ o \notin Members(values)

Ind == SetsSound /\ MemorySound /\ ValuesSound /\ ElementsAllocated /\ HoldersCounted /\ Exclusive

Bit(b) == IF b THEN 1 ELSE 0
Counting(o) == {h \in Made : o \in Contents(h) /\ sets[h].policy = "RC"}

LEMMA OnceIs ==
    ASSUME NEW list, Once(list), NEW o
    PROVE  Cardinality({i \in DOMAIN list : list[i] = o}) = Bit(o \in Members(list))
<1>1. DOMAIN list = 1..Len(list) /\ \A i, j \in 1..Len(list) : list[i] = list[j] => i = j
  BY DEF Once
<1>2. CASE o \in Members(list)
  <2>1. PICK i \in 1..Len(list) : list[i] = o
    BY <1>2 DEF Members
  <2>2. {j \in DOMAIN list : list[j] = o} = {i}
    BY <1>1, <2>1
  <2> QED
    BY <1>2, <2>2, FS_Singleton DEF Bit
<1>3. CASE o \notin Members(list)
  <2>1. {j \in DOMAIN list : list[j] = o} = {}
    BY <1>1, <1>3 DEF Members
  <2> QED
    BY <1>3, <2>1, FS_EmptySet DEF Bit
<1> QED
  BY <1>2, <1>3

(* The invariant on counts, with the list as one more holder. *)
Counted == \A o \in mem.live : ~ mem.retained[o] =>
               mem.rc[o] >= Cardinality(Counting(o)) + Bit(o \in Members(values))

LEMMA HoldersCountedIs ==
    ASSUME Once(values)
    PROVE  HoldersCounted <=> Counted
<1>1. \A o : {s \in Holders(o) : sets[s].policy = "RC"} = Counting(o)
  BY DEF Holders, Counting
<1>2. \A o : Cardinality({i \in DOMAIN values : values[i] = o}) = Bit(o \in Members(values))
  BY OnceIs
<1> QED
  BY <1>1, <1>2 DEF HoldersCounted, Counted

LEMMA HoldersCountedNext ==
    ASSUME Once(values)'
    PROVE  HoldersCounted' <=> Counted'
<1>1. \A o : {s \in Holders(o)' : sets'[s].policy = "RC"} = Counting(o)'
  BY DEF Holders, Counting
<1>2. \A o : Cardinality({i \in DOMAIN values' : values'[i] = o}) = Bit(o \in Members(values'))
  BY OnceIs DEF Once
<1> QED
  BY <1>1, <1>2 DEF HoldersCounted, Counted

(* The set s, which has the elements A, may become x. *)
Before(s) == IF s \in Made THEN Contents(s) ELSE {}
Passes(s, x) ==
    /\ ~ x.mem.fault /\ ~ x.mem.crashed /\ x.mem.live \subseteq mem.live
    /\ \A h \in Made \ {s} : Contents(h) \subseteq x.mem.live
    /\ Held(x) \subseteq x.mem.live /\ Members(values) \subseteq x.mem.live
    /\ \A o \in x.mem.live : ~ x.mem.retained[o] =>
           /\ ~ mem.retained[o]
           /\ x.mem.rc[o] + Bit(x.set.policy = "RC" /\ o \in Before(s))
              >= mem.rc[o] + Bit(x.set.policy = "RC" /\ o \in Held(x))
    /\ \A o \in Held(x) \ Before(s) :
           IF x.set.policy = "RC" THEN \A h \in Holders(o) : sets[h].policy = "RC"
           ELSE Holders(o) = {} /\ o \notin Members(values)

LEMMA BecomeKeeps ==
    ASSUME Ind, NEW s \in Sets, NEW x \in Working, Become(s, x), x.set.policy \in Policies,
           s \in Made => x.set.policy = sets[s].policy, Passes(s, x)
    PROVE  Ind'
<1> DEFINE B == Held(x)
           A == Before(s)
           rc == x.set.policy = "RC"
<1>1. /\ Made' = Made \cup {s} /\ sets'[s] = x.set /\ \A h \in Made \ {s} : sets'[h] = sets[h]
      /\ mem' = x.mem /\ values' = values /\ \A o \in Elements : x.mem.rc[o] <= MaxRc
  BY DEF Become, Made
<1>2. T!Contents(sets'[s].tree) = B /\ \A h \in Made \ {s} : T!Contents(sets'[h].tree) = Contents(h)
  BY <1>1 DEF Contents, Held
<1>3. SetsSound'
  <2>1. IsFiniteSet(Made \cup {s})
    BY FS_AddElement DEF Ind, SetsSound
  <2>2. IsSet(x.set)
    BY DEF Working
  <2> QED
    BY <1>1, <2>1, <2>2 DEF Ind, SetsSound
<1>4. MemorySound'
  BY <1>1 DEF MemorySound, Working
<1>5. ValuesSound'
  BY <1>1 DEF Ind, ValuesSound, Passes, Once, Members
<1>6. ElementsAllocated'
  <2>1. \A h \in Made \cup {s} : T!Contents(sets'[h].tree) \subseteq x.mem.live
    BY <1>2 DEF Passes
  <2> QED
    BY <1>1, <2>1 DEF ElementsAllocated, Passes, Contents
<1>7. HoldersCounted'
  <2>1. Counted'
    <3> SUFFICES ASSUME NEW o \in x.mem.live, ~ x.mem.retained[o]
                 PROVE  x.mem.rc[o] >= Cardinality(Counting(o)') + Bit(o \in Members(values))
      BY <1>1 DEF Counted, Members
    <3> DEFINE K == {h \in Made \ {s} : o \in Contents(h) /\ sets[h].policy = "RC"}
    <3>1. Counting(o)' = IF rc /\ o \in B THEN K \cup {s} ELSE K
      BY <1>1, <1>2 DEF Counting, Contents
    <3>2. Counting(o) = IF rc /\ o \in A THEN K \cup {s} ELSE K
      BY DEF Counting, Before
    <3>3. IsFiniteSet(K) /\ s \notin K
      <4>1. K \subseteq Made
        OBVIOUS
      <4> QED
        BY <4>1, FS_Subset DEF Ind, SetsSound
    <3> HIDE DEF K, A, B, rc
    <3>4. Cardinality(K) \in Nat /\ Cardinality(K \cup {s}) = Cardinality(K) + 1
      BY <3>3, FS_CardinalityType, FS_AddElement
    <3>5. /\ ~ mem.retained[o] /\ x.mem.rc[o] + Bit(rc /\ o \in A) >= mem.rc[o] + Bit(rc /\ o \in B)
          /\ o \in mem.live
      BY DEF Passes, rc, A, B
    <3>6. mem.rc[o] >= Cardinality(Counting(o)) + Bit(o \in Members(values))
      BY <3>5, HoldersCountedIs DEF Ind, ValuesSound, Counted
    <3>7. mem.rc[o] \in Nat /\ x.mem.rc[o] \in Nat
      BY <3>5 DEF Ind, MemorySound, Memory, Working
    <3>8. Cardinality(Counting(o)) = Cardinality(K) + Bit(rc /\ o \in A)
      BY <3>2, <3>4 DEF Bit
    <3>9. Cardinality(Counting(o)') = Cardinality(K) + Bit(rc /\ o \in B)
      BY <3>1, <3>4 DEF Bit
    <3>10. \A b : Bit(b) \in {0, 1}
      BY DEF Bit
    <3> QED
      BY <3>4, <3>5, <3>6, <3>7, <3>8, <3>9, <3>10
  <2>2. Once(values)'
    BY <1>5 DEF ValuesSound
  <2> QED
    BY <2>1, <2>2, HoldersCountedNext
<1>8. Exclusive'
  <2> SUFFICES ASSUME NEW t \in Made \cup {s}, NEW o \in T!Contents(sets'[t].tree), sets'[t].policy # "RC"
               PROVE  Holders(o)' = {t} /\ o \notin Members(values)
    BY <1>1 DEF Exclusive, Contents, Members
  <2>1. Holders(o)' = {h \in Made \ {s} : o \in Contents(h)} \cup (IF o \in B THEN {s} ELSE {})
    BY <1>1, <1>2 DEF Holders, Contents
  <2>2. Holders(o) = {h \in Made \ {s} : o \in Contents(h)} \cup (IF o \in A THEN {s} ELSE {})
    BY DEF Holders, Before
  <2>3. \A h \in Made : o \in Contents(h) /\ sets[h].policy # "RC" => Holders(o) = {h} /\ o \notin Members(values)
    BY DEF Ind, Exclusive
  <2>4. o \in B \ A => IF rc THEN \A h \in Holders(o) : sets[h].policy = "RC"
                       ELSE Holders(o) = {} /\ o \notin Members(values)
    BY DEF Passes
  <2>5. o \in A => s \in Made /\ o \in Contents(s) /\ x.set.policy = sets[s].policy
    BY DEF Before
  <2>6. CASE t = s
    <3>1. ~ rc /\ o \in B
      BY <1>1, <1>2, <2>6
    <3> HIDE DEF A, B
    <3> QED
      BY <2>1, <2>2, <2>3, <2>4, <2>5, <2>6, <3>1
  <2>7. CASE t # s
    <3>1. t \in Made \ {s} /\ o \in Contents(t) /\ sets[t].policy # "RC"
      BY <1>1, <1>2, <2>7
    <3>2. Holders(o) = {t} /\ o \notin Members(values)
      BY <2>3, <3>1
    <3>3. o \notin A
      BY <2>2, <3>2, <2>7
    <3>4. o \notin B
      BY <2>4, <3>1, <3>2, <3>3
    <3> HIDE DEF A, B
    <3> QED
      BY <2>1, <2>2, <3>2, <3>3, <3>4
  <2> QED
    BY <2>6, <2>7
<1> QED
  BY <1>3, <1>4, <1>5, <1>6, <1>7, <1>8 DEF Ind

-----------------------------------------------------------------------------
(* What the operations make of a set.  Each lemma names what the set holds *)
(* afterwards, which the refinement needs, and that it passes.             *)
LEMMA MadeIs ==
    ASSUME Ind, NEW s \in Made
    PROVE  /\ On(s) \in Working /\ Held(On(s)) = Contents(s) /\ Before(s) = Contents(s)
           /\ On(s).set = sets[s] /\ On(s).mem = mem
           /\ Upright(sets[s].tree) /\ IsFiniteSet(Contents(s))
           /\ Contents(s) \subseteq mem.live /\ Contents(s) \subseteq Elements
           /\ \A k, m \in Contents(s) : Rank[k] = Rank[m] => k = m
<1>1. IsSet(sets[s]) /\ mem \in Memory
  BY DEF Ind, SetsSound, MemorySound
<1>2. sets[s] \in [tree : Trees, size : Nat, policy : Kinds] /\ Upright(sets[s].tree)
  BY <1>1 DEF IsSet, Upright
<1>3. On(s) \in Working /\ On(s).set = sets[s] /\ On(s).mem = mem
  BY <1>1, <1>2 DEF On, Working
<1>4. Contents(s) \subseteq mem.live /\ Contents(s) \subseteq Elements
  BY <1>1 DEF Ind, ElementsAllocated, Memory
<1>5. IsFiniteSet(Contents(s)) /\ \A k, m \in Contents(s) : Rank[k] = Rank[m] => k = m
  <2>1. CASE Contents(s) = {}
    BY <2>1, FS_EmptySet
  <2>2. CASE Contents(s) # {}
    <3>1. PICK e \in Elements : e \in Contents(s)
      BY <1>4, <2>2
    <3> QED
      BY <1>2, <3>1, TreeIs DEF Contents
  <2> QED
    BY <2>1, <2>2
<1> QED
  BY <1>2, <1>3, <1>4, <1>5 DEF Held, Before, Contents

LEMMA VisitedOnce ==
    ASSUME NEW t, Upright(t), NEW v, v = Visited(t)
    PROVE  /\ v \in Seq(Elements) /\ Once(v) /\ Members(v) = T!Contents(t)
           /\ \A i, j \in 1..Len(v) : Rank[v[i]] = Rank[v[j]] => i = j
BY VisitedIs DEF Once, Members

LEMMA CountsPass ==
    ASSUME Ind, NEW s \in Sets, NEW x \in Working, x.set.policy = "RC", Counts(mem, x.mem, Before(s), Held(x)),
           Before(s) \subseteq Held(x), Held(x) \subseteq mem.live,
           \A o \in Held(x) \ Before(s) : \A h \in Holders(o) : sets[h].policy = "RC"
    PROVE  Passes(s, x)
<1>1. mem \in Memory /\ x.mem \in Memory
  BY DEF Ind, MemorySound, Working
<1>2. ~ x.mem.fault /\ ~ x.mem.crashed /\ x.mem.live = mem.live /\ x.mem.retained = mem.retained
  BY DEF Ind, ElementsAllocated, Counts
<1>3. /\ \A h \in Made \ {s} : Contents(h) \subseteq x.mem.live
      /\ Held(x) \subseteq x.mem.live /\ Members(values) \subseteq x.mem.live
  BY <1>2 DEF Ind, ElementsAllocated, ValuesSound
<1>4. ASSUME NEW o \in x.mem.live, ~ x.mem.retained[o]
      PROVE  x.mem.rc[o] + Bit(x.set.policy = "RC" /\ o \in Before(s))
             >= mem.rc[o] + Bit(x.set.policy = "RC" /\ o \in Held(x))
  <2>1. o \in Elements /\ mem.rc[o] \in Nat /\ x.mem.rc[o] \in Nat
    BY <1>1 DEF Memory
  <2>2. x.mem.rc[o] >= mem.rc[o] /\ (o \in Held(x) \ Before(s) => x.mem.rc[o] >= mem.rc[o] + 1)
    BY <1>2, <1>4, <2>1 DEF Counts
  <2>3. CASE o \in Before(s)
    <3>1. o \in Held(x)
      BY <2>3
    <3> QED
      BY <2>1, <2>2, <2>3, <3>1 DEF Bit
  <2>4. CASE o \notin Before(s)
    BY <2>1, <2>2, <2>4 DEF Bit
  <2> QED
    BY <2>3, <2>4
<1> QED
  BY <1>2, <1>3, <1>4 DEF Passes

LEMMA MakePasses ==
    ASSUME Ind, NEW s \in Sets, s \notin Made, NEW policy \in Policies,
           NEW x, x = [set |-> EmptySet(policy), mem |-> mem]
    PROVE  x \in Working /\ Held(x) = {} /\ x.set.policy = policy /\ Passes(s, x)
<1>1. policy \in Kinds /\ mem \in Memory
  BY SetAssumption DEF Kinds, Ind, MemorySound
<1>2. x \in Working /\ Held(x) = {} /\ x.set.policy = policy /\ x.mem = mem
  BY <1>1, EmptyIs, FS_EmptySet DEF Working, IsSet, EmptySet, Held, Upright
<1>3. Before(s) = {}
  BY DEF Before
<1>4. \A o \in mem.live : mem.rc[o] \in Nat
  BY <1>1 DEF Memory
<1> QED
  BY <1>2, <1>3, <1>4 DEF Passes, Ind, ElementsAllocated, ValuesSound, Bit

LEMMA AddPasses ==
    ASSUME Ind, Freedoms = {}, NEW s \in Made, NEW e \in Elements, MayGive(e, s),
           NEW x, x = Added(On(s), e)
    PROVE  /\ x \in Working /\ x.set.policy = sets[s].policy /\ Passes(s, x)
           /\ Held(x) = IF Equal(Contents(s), e) = {} THEN Contents(s) \cup {e} ELSE Contents(s)
<1> DEFINE A == Contents(s)
           B == Held(x)
<1>1. On(s) \in Working /\ Held(On(s)) = A /\ Before(s) = A /\ On(s).set = sets[s] /\ On(s).mem = mem
  BY MadeIs
<1>2. /\ x \in Working /\ x.set.policy = sets[s].policy
      /\ B = IF Equal(A, e) = {} THEN A \cup {e} ELSE A
      /\ x.mem = Incr(mem, e, sets[s].policy) \/ (x.mem = mem /\ B = A)
      /\ sets[s].policy = "RC" => Counts(mem, x.mem, A, B)
  BY <1>1, AddedIs
<1>3. /\ e \in mem.live /\ A \subseteq mem.live
      /\ e \notin A => IF sets[s].policy = "RC" THEN \A h \in Holders(e) : sets[h].policy = "RC"
                       ELSE Holders(e) = {} /\ e \notin Members(values)
  <2>1. \A p : MayShare(p) <=> p = "RC"
    BY DEF MayShare
  <2>2. e \in Members(values) <=> \E i \in DOMAIN values : values[i] = e
    <3>1. values \in Seq(Elements)
      BY DEF Ind, ValuesSound, Once
    <3>2. DOMAIN values = 1..Len(values)
      BY <3>1
    <3> QED
      BY <3>2 DEF Members
  <2>3. s \in Holders(e) <=> e \in A
    BY DEF Holders
  <2> QED
    BY <2>1, <2>2, <2>3, MadeIs DEF MayGive
<1>4. B \subseteq mem.live /\ B \ A \subseteq {e} /\ A \subseteq B /\ s \in Sets
  BY <1>2, <1>3 DEF Ind, SetsSound
<1> HIDE DEF A, B
<1>5. Passes(s, x)
  <2>1. CASE sets[s].policy = "RC"
    BY <1>1, <1>2, <1>3, <1>4, <2>1, CountsPass DEF B
  <2>2. CASE sets[s].policy # "RC"
    <3>1. mem \in Memory
      BY DEF Ind, MemorySound
    <3>2. /\ x.mem.live = mem.live /\ x.mem.fault = mem.fault /\ x.mem.crashed = mem.crashed
          /\ \A o \in Elements : x.mem.rc[o] = mem.rc[o] /\ (~ x.mem.retained[o] => ~ mem.retained[o])
      <4>1. CASE x.mem = mem
        BY <4>1
      <4>2. CASE x.mem = Incr(mem, e, sets[s].policy)
        <5>1. /\ x.mem.live = mem.live /\ x.mem.fault = mem.fault /\ x.mem.crashed = mem.crashed
              /\ \A o \in Elements : o # e => Unaltered(mem, x.mem, o)
              /\ x.mem.rc[e] = mem.rc[e]
              /\ sets[s].policy # "DEL" => x.mem.retained = mem.retained
              /\ sets[s].policy = "DEL" => x.mem.retained[e]
          BY <2>2, <3>1, <4>2, IncrIs
        <5> QED
          BY <5>1 DEF Unaltered
      <4> QED
        BY <1>2, <4>1, <4>2
    <3>3. \A o \in mem.live : o \in Elements /\ mem.rc[o] \in Nat
      BY <3>1 DEF Memory
    <3>4. ~ mem.fault /\ ~ mem.crashed /\ Members(values) \subseteq mem.live
          /\ \A h \in Made : Contents(h) \subseteq mem.live
      BY DEF Ind, ElementsAllocated, ValuesSound
    <3>5. \A o \in B \ A : Holders(o) = {} /\ o \notin Members(values)
      BY <1>3, <1>4, <2>2
    <3> QED
      BY <1>1, <1>2, <1>4, <2>2, <3>2, <3>3, <3>4, <3>5 DEF Passes, Bit, B
  <2> QED
    BY <2>1, <2>2
<1> QED
  BY <1>2, <1>5 DEF A, B

LEMMA ShrunkIs ==
    ASSUME NEW r \in [tree : Trees, size : Nat, policy : Kinds], NEW c, NEW t, NEW n,
           NEW y, y = [set |-> r, mem |-> c], NEW u, u = [y EXCEPT !.set.tree = t, !.set.size = n]
    PROVE  u = [set |-> [tree |-> t, size |-> n, policy |-> r.policy], mem |-> c]
<1> DEFINE w == [r EXCEPT !.tree = t, !.size = n]
<1>1. w = [tree |-> t, size |-> n, policy |-> r.policy]
  BY GrownIs
<1>2. u = [y EXCEPT !.set = w]
  OBVIOUS
<1> HIDE DEF w
<1> QED
  BY <1>1, <1>2

LEMMA RemovePasses ==
    ASSUME Ind, NEW s \in Made, NEW e \in Elements, NEW x, x = Removed(On(s), e)
    PROVE  /\ x \in Working /\ x.set.policy = sets[s].policy /\ Passes(s, x)
           /\ Held(x) = Contents(s) \ Equal(Contents(s), e)
<1> DEFINE A == Contents(s)
           B == Held(x)
           t == sets[s].tree
<1>1. /\ On(s) \in Working /\ Held(On(s)) = A /\ Before(s) = A /\ On(s).set = sets[s] /\ On(s).mem = mem
      /\ Upright(t) /\ IsFiniteSet(A) /\ A = T!Contents(t) /\ A \subseteq mem.live
      /\ \A k, m \in A : Rank[k] = Rank[m] => k = m
  BY MadeIs DEF Contents
<1>2. /\ T!Has(t, e) <=> \E k \in A : Rank[k] = Rank[e]
      /\ Upright(T!Deleted(t, e)) /\ T!Contents(T!Deleted(t, e)) = {k \in A : Rank[k] # Rank[e]}
  <2> HIDE DEF A, t
  <2> QED
    BY <1>1, TreeIs
<1>3. x \in Working /\ x.set.policy = sets[s].policy /\ x.mem = mem /\ B = A \ Equal(A, e)
  <2>1. CASE ~ T!Has(t, e)
    <3>1. x = On(s) /\ Equal(A, e) = {}
      BY <1>1, <1>2, <2>1 DEF Removed, Equal
    <3> HIDE DEF A
    <3> QED
      BY <1>1, <3>1
  <2>2. CASE T!Has(t, e)
    <3> DEFINE u == T!Deleted(t, e)
               r == sets[s]
               n == r.size - 1
    <3>1. x = [On(s) EXCEPT !.set.tree = u, !.set.size = n]
      BY <1>1, <2>2 DEF Removed
    <3>2. r \in [tree : Trees, size : Nat, policy : Kinds] /\ r.size >= Cardinality(A)
      BY DEF Ind, SetsSound, IsSet, Contents
    <3>3. PICK k \in A : Rank[k] = Rank[e]
      BY <1>2, <2>2
    <3>4. {m \in A : Rank[m] # Rank[e]} = A \ {k} /\ Equal(A, e) = {k}
      BY <1>1, <3>3 DEF Equal
    <3>5. Cardinality(A \ {k}) = Cardinality(A) - 1 /\ Cardinality(A) \in Nat /\ Cardinality(A \ {k}) \in Nat
      <4>1. IsFiniteSet(A) /\ IsFiniteSet(A \ {k})
        BY <1>1, FS_RemoveElement
      <4> QED
        BY <3>3, <4>1, FS_RemoveElement, FS_CardinalityType
    <3>6. n \in Nat /\ n >= Cardinality(A \ {k})
      BY <3>2, <3>5
    <3>7. x = [set |-> [tree |-> u, size |-> n, policy |-> r.policy], mem |-> mem]
      <4> DEFINE y == On(s)
      <4>1. y = [set |-> r, mem |-> mem] /\ x = [y EXCEPT !.set.tree = u, !.set.size = n]
        BY <3>1 DEF On
      <4> HIDE DEF u, n, r, y
      <4>2. r \in [tree : Trees, size : Nat, policy : Kinds]
        BY <3>2
      <4> QED
        BY ONLY <4>1, <4>2, ShrunkIs
    <3> HIDE DEF u, n, r
    <3>8. x.set = [tree |-> u, size |-> n, policy |-> r.policy] /\ x.mem = mem
      BY <3>7
    <3>9. u \in Trees /\ Tree!Upright(u) /\ T!Contents(u) = A \ {k}
      BY <1>2, <3>4 DEF Upright, u
    <3>10. B = A \ {k}
      BY <3>8, <3>9 DEF Held
    <3>11. mem \in Memory
      BY DEF Ind, MemorySound
    <3>12. x.set \in [tree : Trees, size : Nat, policy : Kinds]
      BY <3>2, <3>6, <3>8, <3>9
    <3>13. IsSet(x.set)
      BY <3>6, <3>8, <3>9, <3>12 DEF IsSet
    <3> QED
      BY <3>4, <3>7, <3>8, <3>10, <3>11, <3>12, <3>13 DEF Working, r
  <2> QED
    BY <2>1, <2>2
<1>4. mem \in Memory /\ \A o \in mem.live : mem.rc[o] \in Nat
  BY DEF Ind, MemorySound, Memory
<1> HIDE DEF A, B
<1>5. Passes(s, x)
  BY <1>1, <1>3, <1>4 DEF Passes, Bit, B, A, Ind, ElementsAllocated, ValuesSound
<1> QED
  BY <1>3, <1>5 DEF A, B

LEMMA ClearPasses ==
    ASSUME Ind, NEW s \in Made, NEW x, x = Cleared(On(s))
    PROVE  x \in Working /\ x.set.policy = sets[s].policy /\ Passes(s, x) /\ Held(x) = {}
<1> DEFINE A == Contents(s)
           policy == sets[s].policy
           v == Visited(sets[s].tree)
           d == LetGoAll(mem, v, policy)
<1>1. /\ On(s) \in Working /\ Held(On(s)) = A /\ Before(s) = A /\ On(s).set = sets[s] /\ On(s).mem = mem
      /\ Upright(sets[s].tree) /\ A = T!Contents(sets[s].tree) /\ A \subseteq mem.live /\ A \subseteq Elements
  BY MadeIs DEF Contents
<1>2. Once(v) /\ Members(v) = A
  BY <1>1, VisitedOnce
<1>3. mem \in Memory /\ policy \in Kinds /\ \A o \in mem.live : o \in Elements /\ mem.rc[o] \in Nat
  BY SetAssumption DEF Ind, MemorySound, Memory, SetsSound, Kinds
<1>4. x = [set |-> EmptySet(policy), mem |-> d]
  BY <1>1 DEF Cleared
<1> HIDE DEF A, policy, v, d
<1>5. /\ d \in Memory /\ d.fault = mem.fault /\ d.crashed = mem.crashed
      /\ \A e \in Elements : e \notin A => Unaltered(mem, d, e)
      /\ \A e \in A : LetGone(mem, d, e, policy)
  BY <1>1, <1>2, <1>3, LetGoAllIs DEF d
<1>6. x \in Working /\ Held(x) = {} /\ x.set.policy = policy /\ x.mem = d
  BY <1>3, <1>4, <1>5, EmptyIs, FS_EmptySet DEF Working, IsSet, EmptySet, Held, Upright
<1>7. /\ ~ mem.fault /\ ~ mem.crashed /\ Members(values) \subseteq mem.live
      /\ \A h \in Made : Contents(h) \subseteq mem.live
      /\ Counted
      /\ \A o \in A : policy # "RC" => Holders(o) = {s} /\ o \notin Members(values)
  BY HoldersCountedIs DEF Ind, ElementsAllocated, ValuesSound, Exclusive, A, policy
<1>8. d.live \subseteq mem.live
  <2> SUFFICES ASSUME NEW o \in d.live PROVE o \in mem.live
    OBVIOUS
  <2>1. o \in Elements
    BY <1>5 DEF Memory
  <2> QED
    BY <1>1, <1>5, <2>1 DEF Unaltered
(* Who else holds an element keeps it allocated. *)
<1>9. ASSUME NEW o \in mem.live, o \in Members(values) \/ \E h \in Made \ {s} : o \in Contents(h)
      PROVE  o \in d.live
  <2>1. CASE o \notin A
    BY <1>3, <1>5, <2>1 DEF Unaltered
  <2>2. CASE o \in A
    <3>1. policy = "RC"
      BY <1>7, <1>9, <2>2 DEF Holders
    <3>2. CASE mem.retained[o]
      BY <1>5, <2>2, <3>1, <3>2 DEF LetGone
    <3>3. CASE ~ mem.retained[o]
      <4>1. s \in Counting(o)
        BY <2>2, <3>1 DEF Counting, A, policy
      <4>2. \A h \in Made : o \in Contents(h) => h \in Counting(o)
        <5>1. ASSUME NEW h \in Made, o \in Contents(h), sets[h].policy # "RC" PROVE FALSE
          <6>1. Holders(o) = {h}
            BY <5>1 DEF Ind, Exclusive
          <6>2. s \in Holders(o)
            BY <2>2 DEF Holders, A
          <6> QED
            BY <3>1, <5>1, <6>1, <6>2 DEF policy
        <5> QED
          BY <5>1 DEF Counting
      <4>3. IsFiniteSet(Counting(o))
        <5>1. Counting(o) \subseteq Made
          BY DEF Counting
        <5> QED
          BY <5>1, FS_Subset DEF Ind, SetsSound
      <4>4. /\ Cardinality(Counting(o)) \in Nat /\ Cardinality(Counting(o)) >= 1
            /\ \A h \in Counting(o) : h # s => Cardinality(Counting(o)) >= 2
        <5>1. Cardinality(Counting(o)) \in Nat /\ Cardinality(Counting(o)) # 0
          BY <4>1, <4>3, FS_CardinalityType, FS_EmptySet
        <5>2. ASSUME NEW h \in Counting(o), h # s PROVE Cardinality(Counting(o)) >= 2
          <6>1. {h, s} \subseteq Counting(o)
            BY <4>1, <5>2
          <6>2. Cardinality({h, s}) = 2
            <7>1. Cardinality({s}) = 1 /\ IsFiniteSet({s})
              BY FS_Singleton
            <7>2. {h, s} = {s} \cup {h} /\ h \notin {s}
              BY <5>2
            <7> QED
              BY <7>1, <7>2, FS_AddElement
          <6> QED
            BY <4>3, <5>1, <6>1, <6>2, FS_Subset
        <5> QED
          BY <5>1, <5>2
      <4>5. mem.rc[o] >= Cardinality(Counting(o)) + Bit(o \in Members(values))
        BY <1>7, <3>3 DEF Counted
      <4>6. mem.rc[o] > 1
        <5>1. CASE o \in Members(values)
          BY <1>3, <4>4, <4>5, <5>1 DEF Bit
        <5>2. CASE o \notin Members(values)
          BY <1>3, <1>9, <4>2, <4>4, <4>5, <5>2 DEF Bit
        <5> QED
          BY <5>1, <5>2
      <4> QED
        BY <1>3, <1>5, <2>2, <3>1, <4>6 DEF LetGone
    <3> QED
      BY <3>2, <3>3
  <2> QED
    BY <2>1, <2>2
<1>10. ASSUME NEW o \in d.live, ~ d.retained[o]
       PROVE  /\ ~ mem.retained[o]
              /\ d.rc[o] + Bit(policy = "RC" /\ o \in A) >= mem.rc[o]
  <2>1. o \in mem.live /\ o \in Elements /\ mem.rc[o] \in Nat /\ d.rc[o] \in Nat
    BY <1>3, <1>5, <1>8 DEF Memory
  <2>2. CASE o \notin A
    BY <1>5, <1>10, <2>1, <2>2 DEF Unaltered, Bit
  <2>3. CASE o \in A
    <3>1. LetGone(mem, d, o, policy)
      BY <1>5, <2>3
    <3>2. CASE policy = "RC"
      BY <1>10, <2>1, <2>3, <3>1, <3>2 DEF LetGone, Bit
    <3>3. CASE policy # "RC"
      BY <1>10, <2>1, <3>1, <3>3 DEF LetGone, Unaltered, Bit
    <3> QED
      BY <3>2, <3>3
  <2> QED
    BY <2>2, <2>3
<1>11. Passes(s, x)
  <2>1. ~ x.mem.fault /\ ~ x.mem.crashed /\ x.mem.live \subseteq mem.live
    BY <1>5, <1>6, <1>7, <1>8
  <2>2. \A h \in Made \ {s} : Contents(h) \subseteq x.mem.live
    BY <1>6, <1>7, <1>9
  <2>3. Held(x) \subseteq x.mem.live /\ Members(values) \subseteq x.mem.live
    BY <1>6, <1>7, <1>9
  <2>4. \A o \in x.mem.live : ~ x.mem.retained[o] =>
           /\ ~ mem.retained[o]
           /\ x.mem.rc[o] + Bit(x.set.policy = "RC" /\ o \in Before(s))
              >= mem.rc[o] + Bit(x.set.policy = "RC" /\ o \in Held(x))
    <3> SUFFICES ASSUME NEW o \in d.live, ~ d.retained[o]
                 PROVE  /\ ~ mem.retained[o]
                        /\ d.rc[o] + Bit(policy = "RC" /\ o \in A) >= mem.rc[o] + Bit(policy = "RC" /\ o \in {})
      BY <1>1, <1>6 DEF A
    <3>1. mem.rc[o] \in Nat /\ Bit(policy = "RC" /\ o \in {}) = 0
      BY <1>3, <1>8 DEF Bit
    <3> QED
      BY <1>10, <3>1
  <2> QED
    BY <1>6, <2>1, <2>2, <2>3, <2>4 DEF Passes
<1> QED
  BY <1>6, <1>11 DEF policy

LEMMA HoldersShare ==
    ASSUME Ind, NEW a \in Made, sets[a].policy = "RC", NEW o \in Contents(a)
    PROVE  (\A h \in Holders(o) : sets[h].policy = "RC") /\ (~ mem.retained[o] => mem.rc[o] >= 1)
<1>1. ASSUME NEW h \in Holders(o), sets[h].policy # "RC" PROVE FALSE
  <2>1. Holders(o) = {h}
    BY <1>1 DEF Ind, Exclusive, Holders
  <2> QED
    BY <1>1, <2>1 DEF Holders
<1>2. ASSUME ~ mem.retained[o] PROVE mem.rc[o] >= 1
  <2>1. a \in Counting(o) /\ Counting(o) \subseteq Made
    BY DEF Counting
  <2>2. Cardinality(Counting(o)) \in Nat /\ Cardinality(Counting(o)) # 0
    BY <2>1, FS_Subset, FS_CardinalityType, FS_EmptySet DEF Ind, SetsSound
  <2>3. o \in mem.live /\ mem.rc[o] \in Nat
    BY DEF Ind, ElementsAllocated, MemorySound, Memory
  <2>4. mem.rc[o] >= Cardinality(Counting(o)) + Bit(o \in Members(values))
    BY <1>2, <2>3, HoldersCountedIs DEF Ind, ValuesSound, Counted
  <2> QED
    BY <2>2, <2>3, <2>4 DEF Bit
<1> QED
  BY <1>1, <1>2

LEMMA BlankIs ==
    ASSUME NEW c \in Memory, NEW x, x = [set |-> EmptySet("RC"), mem |-> c]
    PROVE  x \in Working /\ Held(x) = {} /\ x.set.policy = "RC" /\ x.mem = c
BY EmptyIs, FS_EmptySet DEF Working, IsSet, EmptySet, Held, Upright, Kinds

LEMMA ClonePasses ==
    ASSUME Ind, NEW s \in Sets, s \notin Made, NEW a \in Made, sets[a].policy = "RC", NEW x, x = Cloned(a)
    PROVE  x \in Working /\ x.set.policy = "RC" /\ Passes(s, x) /\ Held(x) = Contents(a)
<1> DEFINE v == Visited(sets[a].tree)
           z == [set |-> EmptySet("RC"), mem |-> mem]
<1>1. /\ Upright(sets[a].tree) /\ Contents(a) = T!Contents(sets[a].tree)
      /\ Contents(a) \subseteq mem.live /\ Contents(a) \subseteq Elements
  BY MadeIs DEF Contents
<1>2. mem \in Memory
  BY DEF Ind, MemorySound
<1>3. /\ v \in Seq(Elements) /\ Members(v) = Contents(a)
      /\ \A i, j \in 1..Len(v) : Rank[v[i]] = Rank[v[j]] => i = j
  BY <1>1, VisitedOnce
<1>4. x = AddAll(z, v)
  BY DEF Cloned
<1>5. z \in Working /\ Held(z) = {} /\ z.set.policy = "RC" /\ z.mem = mem
  BY <1>2, BlankIs
<1> HIDE DEF v, z
<1>6. /\ x \in Working /\ x.set.policy = "RC"
      /\ Held(x) = Held(z) \cup {e \in Members(v) : Equal(Held(z), e) = {}}
      /\ Counts(z.mem, x.mem, Held(z), Held(x))
  BY <1>3, <1>4, <1>5, AddAllIs
<1>7. Held(x) = Contents(a)
  BY <1>3, <1>5, <1>6 DEF Equal
<1>8. Before(s) = {}
  BY DEF Before
<1>9. Counts(mem, x.mem, Before(s), Held(x))
  BY <1>5, <1>6, <1>8
<1>10. \A o \in Held(x) : \A h \in Holders(o) : sets[h].policy = "RC"
  BY <1>7, HoldersShare
<1>11. Passes(s, x)
  BY <1>1, <1>6, <1>7, <1>8, <1>9, <1>10, CountsPass
<1> QED
  BY <1>6, <1>7, <1>11

LEMMA UnionPasses ==
    ASSUME Ind, NEW s \in Sets, s \notin Made, NEW a \in Made, NEW b \in Made,
           sets[a].policy = "RC", sets[b].policy = "RC", NEW x, x = United(a, b)
    PROVE  /\ x \in Working /\ x.set.policy = "RC" /\ Passes(s, x)
           /\ Held(x) = Contents(a) \cup {e \in Contents(b) : Equal(Contents(a), e) = {}}
<1> DEFINE v1 == Visited(sets[a].tree)
           v2 == Visited(sets[b].tree)
           c1 == Listed(mem, v1)
           c2 == Listed(c1, v2)
           z0 == [set |-> EmptySet("RC"), mem |-> c2]
           z1 == AddAll(z0, v1)
           z2 == AddAll(z1, v2)
           d1 == LetGoAll(z2.mem, v1, "RC")
           d2 == LetGoAll(d1, v2, "RC")
           A == Contents(a)
           B == Contents(b)
           C == Held(z2)
<1>1. /\ Upright(sets[a].tree) /\ A = T!Contents(sets[a].tree) /\ A \subseteq mem.live /\ A \subseteq Elements
      /\ Upright(sets[b].tree) /\ B = T!Contents(sets[b].tree) /\ B \subseteq mem.live /\ B \subseteq Elements
  BY MadeIs DEF Contents
<1>2. mem \in Memory
  BY DEF Ind, MemorySound
<1>3. /\ v1 \in Seq(Elements) /\ Once(v1) /\ Members(v1) = A
      /\ \A i, j \in 1..Len(v1) : Rank[v1[i]] = Rank[v1[j]] => i = j
      /\ v2 \in Seq(Elements) /\ Once(v2) /\ Members(v2) = B
      /\ \A i, j \in 1..Len(v2) : Rank[v2[i]] = Rank[v2[j]] => i = j
  BY <1>1, VisitedOnce
<1>4. x = [z2 EXCEPT !.mem = d2]
  BY DEF United, Unlisted
<1> HIDE DEF v1, v2, A, B
<1>5. /\ c1 \in Memory /\ c1.live = mem.live /\ c1.fault = mem.fault /\ c1.crashed = mem.crashed
      /\ c1.retained = mem.retained
      /\ \A e \in Elements : c1.rc[e] = IF e \in A /\ ~ mem.retained[e] THEN mem.rc[e] + 1 ELSE mem.rc[e]
  BY <1>2, <1>3, ListedIs
<1> HIDE DEF c1
<1>6. /\ c2 \in Memory /\ c2.live = c1.live /\ c2.fault = c1.fault /\ c2.crashed = c1.crashed
      /\ c2.retained = c1.retained
      /\ \A e \in Elements : c2.rc[e] = IF e \in B /\ ~ c1.retained[e] THEN c1.rc[e] + 1 ELSE c1.rc[e]
  BY <1>3, <1>5, ListedIs
<1> HIDE DEF c2
<1>7. z0 \in Working /\ Held(z0) = {} /\ z0.set.policy = "RC" /\ z0.mem = c2
  BY <1>6, BlankIs
<1> HIDE DEF z0
<1>8. /\ z1 \in Working /\ z1.set.policy = "RC"
      /\ Held(z1) = Held(z0) \cup {e \in Members(v1) : Equal(Held(z0), e) = {}}
      /\ Counts(z0.mem, z1.mem, Held(z0), Held(z1))
  BY <1>3, <1>7, AddAllIs
<1>9. Held(z1) = A /\ Counts(c2, z1.mem, {}, A)
  <2>1. \A e : Equal({}, e) = {}
    BY DEF Equal
  <2> HIDE DEF z1
  <2>2. Held(z1) = A
    BY <1>3, <1>7, <1>8, <2>1
  <2> QED
    BY <1>7, <1>8, <2>2
<1> HIDE DEF z1
<1>10. /\ z2 \in Working /\ z2.set.policy = "RC"
       /\ C = A \cup {e \in B : Equal(A, e) = {}}
       /\ Counts(z1.mem, z2.mem, A, C)
  BY <1>3, <1>8, <1>9, AddAllIs
<1> HIDE DEF z2, C
<1>11. Counts(c2, z2.mem, {}, C) /\ z2.mem \in Memory
  <2>1. z1.mem \in Memory /\ z2.mem \in Memory
    BY <1>8, <1>10 DEF Working
  <2> QED
    BY <1>6, <1>9, <1>10, <2>1, CountsOn
<1>12. /\ z2.mem.live = mem.live /\ z2.mem.retained = mem.retained
       /\ z2.mem.fault = mem.fault /\ z2.mem.crashed = mem.crashed
  BY <1>5, <1>6, <1>11 DEF Counts
<1>13. /\ d1 \in Memory /\ d1.fault = z2.mem.fault /\ d1.crashed = z2.mem.crashed
       /\ \A e \in Elements : e \notin A => Unaltered(z2.mem, d1, e)
       /\ \A e \in A : LetGone(z2.mem, d1, e, "RC")
  BY <1>1, <1>3, <1>11, <1>12, LetGoAllIs
<1> HIDE DEF d1
<1>14. \A e \in Elements : /\ mem.rc[e] \in Nat /\ c1.rc[e] \in Nat /\ c2.rc[e] \in Nat /\ z2.mem.rc[e] \in Nat
                           /\ d1.rc[e] \in Nat
  BY <1>2, <1>5, <1>6, <1>11, <1>13 DEF Memory
(* The list of the first set, when it goes, frees nothing ... *)
<1>15. ASSUME NEW e \in Elements
       PROVE  /\ e \in d1.live <=> e \in mem.live
              /\ d1.retained[e] = mem.retained[e]
              /\ ~ mem.retained[e] => d1.rc[e] >= mem.rc[e] + Bit(e \in B) + Bit(e \in C)
  <2>1. ~ mem.retained[e] => z2.mem.rc[e] >= mem.rc[e] + Bit(e \in A) + Bit(e \in B) + Bit(e \in C)
    BY <1>5, <1>6, <1>11, <1>14 DEF Counts, Bit
  <2>2. Bit(e \in A) \in {0, 1} /\ Bit(e \in B) \in {0, 1} /\ Bit(e \in C) \in {0, 1}
    BY DEF Bit
  <2>3. CASE e \notin A
    BY <1>12, <1>13, <1>14, <2>1, <2>2, <2>3 DEF Unaltered, Bit
  <2>4. CASE e \in A
    <3>1. e \in C /\ Bit(e \in A) = 1 /\ Bit(e \in C) = 1
      BY <1>10, <2>4 DEF Bit
    <3>2. LetGone(z2.mem, d1, e, "RC")
      BY <1>13, <2>4
    <3>3. ~ (~ z2.mem.retained[e] /\ z2.mem.rc[e] <= 1)
      BY <1>12, <1>14, <2>1, <2>2, <3>1
    <3>4. (e \in d1.live <=> e \in z2.mem.live) /\ d1.retained[e] = z2.mem.retained[e]
          /\ d1.rc[e] + 1 >= z2.mem.rc[e]
      BY <3>2, <3>3 DEF LetGone
    <3> QED
      BY <1>12, <1>14, <2>1, <2>2, <3>1, <3>4
  <2> QED
    BY <2>3, <2>4
<1>16. d1.live = mem.live /\ d1.retained = mem.retained
  <2>1. d1.live \subseteq Elements /\ mem.live \subseteq Elements
    BY <1>2, <1>13 DEF Memory
  <2>2. d1.retained \in [Elements -> BOOLEAN] /\ mem.retained \in [Elements -> BOOLEAN]
    BY <1>2, <1>13 DEF Memory
  <2>3. \A e \in Elements : (e \in d1.live <=> e \in mem.live) /\ d1.retained[e] = mem.retained[e]
    BY <1>15
  <2>4. d1.live = mem.live
    BY <2>1, <2>3
  <2>5. d1.retained = mem.retained
    BY ONLY <2>2, <2>3
  <2> QED
    BY <2>4, <2>5
<1>17. /\ d2 \in Memory /\ d2.fault = d1.fault /\ d2.crashed = d1.crashed
       /\ \A e \in Elements : e \notin B => Unaltered(d1, d2, e)
       /\ \A e \in B : LetGone(d1, d2, e, "RC")
  BY <1>1, <1>3, <1>13, <1>16, LetGoAllIs
<1> HIDE DEF d2
<1>18. \A e \in Elements : d2.rc[e] \in Nat
  BY <1>17 DEF Memory
(* ... nor does that of the second. *)
<1>19. ASSUME NEW e \in Elements
       PROVE  /\ e \in d2.live <=> e \in mem.live
              /\ d2.retained[e] = mem.retained[e]
              /\ ~ mem.retained[e] => d2.rc[e] >= mem.rc[e] + Bit(e \in C)
  <2>1. Bit(e \in B) \in {0, 1} /\ Bit(e \in C) \in {0, 1}
    BY DEF Bit
  <2>2. CASE e \notin B
    BY <1>14, <1>15, <1>17, <1>18, <2>1, <2>2 DEF Unaltered
  <2>3. CASE e \in B
    <3>1. Bit(e \in B) = 1
      BY <2>3 DEF Bit
    <3>2. LetGone(d1, d2, e, "RC")
      BY <1>17, <2>3
    <3>3. ~ mem.retained[e] => mem.rc[e] >= 1
      BY <2>3, HoldersShare DEF B
    <3>4. ~ (~ d1.retained[e] /\ d1.rc[e] <= 1)
      BY <1>14, <1>15, <2>1, <3>1, <3>3
    <3>5. (e \in d2.live <=> e \in d1.live) /\ d2.retained[e] = d1.retained[e] /\ d2.rc[e] + 1 >= d1.rc[e]
      BY <3>2, <3>4 DEF LetGone
    <3> QED
      BY <1>14, <1>15, <1>18, <2>1, <3>1, <3>5
  <2> QED
    BY <2>2, <2>3
<1>20. d2.live = mem.live /\ d2.retained = mem.retained
  <2>1. d2.live \subseteq Elements /\ mem.live \subseteq Elements
    BY <1>2, <1>17 DEF Memory
  <2>2. d2.retained \in [Elements -> BOOLEAN] /\ mem.retained \in [Elements -> BOOLEAN]
    BY <1>2, <1>17 DEF Memory
  <2>3. \A e \in Elements : (e \in d2.live <=> e \in mem.live) /\ d2.retained[e] = mem.retained[e]
    BY <1>19
  <2>4. d2.live = mem.live
    BY <2>1, <2>3
  <2>5. d2.retained = mem.retained
    BY ONLY <2>2, <2>3
  <2> QED
    BY <2>4, <2>5
<1>21. x \in Working /\ x.set = z2.set /\ x.mem = d2 /\ Held(x) = C
  BY <1>4, <1>10, <1>17 DEF Working, Held, C
<1>22. Counts(mem, d2, {}, C)
  <2>1. \A e \in Elements : ~ mem.retained[e] => d2.rc[e] >= mem.rc[e] /\ (e \in C => d2.rc[e] >= mem.rc[e] + 1)
    BY <1>14, <1>18, <1>19 DEF Bit
  <2> QED
    BY <1>12, <1>13, <1>17, <1>20, <2>1 DEF Counts
<1>23. Before(s) = {}
  BY DEF Before
<1>24. \A o \in C : \A h \in Holders(o) : sets[h].policy = "RC"
  BY <1>10, HoldersShare DEF A, B
<1>25. C \subseteq mem.live
  BY <1>1, <1>10
<1>26. Passes(s, x)
  BY <1>10, <1>21, <1>22, <1>23, <1>24, <1>25, CountsPass
<1> QED
  BY <1>10, <1>21, <1>26 DEF A, B

-----------------------------------------------------------------------------
(* The steps. *)
LEMMA InitKeeps == Init => Ind
<1> SUFFICES ASSUME Init PROVE Ind
  OBVIOUS
<1>1. Made = {} /\ values = <<>> /\ Members(values) = {} /\ Once(values)
  BY DEF Init, Made, Members, Once
<1>2. mem \in Memory /\ mem.live = {} /\ ~ mem.fault /\ ~ mem.crashed /\ \A o \in Elements : mem.rc[o] = 0
  BY DEF Init, Memory
<1>3. MaxRc \in Nat
  BY SetAssumption
<1>4. SetsSound /\ MemorySound /\ ValuesSound /\ ElementsAllocated /\ Exclusive
  BY <1>1, <1>2, <1>3, FS_EmptySet DEF SetsSound, MemorySound, ValuesSound, ElementsAllocated, Exclusive
<1>5. HoldersCounted
  BY <1>2 DEF HoldersCounted
<1> QED
  BY <1>4, <1>5 DEF Ind

LEMMA StutterKeeps == ASSUME Ind, UNCHANGED vars PROVE Ind'
<1>1. sets' = sets /\ values' = values /\ mem' = mem
  BY DEF vars
<1>2. SetsSound' /\ MemorySound' /\ ValuesSound' /\ ElementsAllocated'
  BY <1>1 DEF Ind, SetsSound, MemorySound, ValuesSound, ElementsAllocated, Made, Once, Contents
<1>3. HoldersCounted' /\ Exclusive'
  BY <1>1 DEF Ind, HoldersCounted, Exclusive, Holders, Made, Contents
<1> QED
  BY <1>2, <1>3 DEF Ind

(* When the sets stay, and the list too, the counts of what is allocated   *)
(* may only be those of before.                                            *)
LEMMA SameSetsKeep ==
    ASSUME Ind, UNCHANGED <<sets, values>>, MemorySound', ~ mem.fault', ~ mem.crashed',
           \A s \in Made : Contents(s) \subseteq mem'.live, Members(values) \subseteq mem'.live,
           \A o \in mem'.live : /\ ~ mem'.retained[o]
                                /\ o \in Members(values) \/ Holders(o) # {}
                                => o \in mem.live /\ ~ mem.retained[o] /\ mem'.rc[o] >= mem.rc[o]
    PROVE  Ind'
<1>1. SetsSound' /\ ValuesSound' /\ ElementsAllocated' /\ Exclusive'
  <2>1. sets' = sets /\ values' = values
    OBVIOUS
  <2>2. SetsSound' /\ ValuesSound'
    BY <2>1 DEF Ind, SetsSound, ValuesSound, Made, Once, Members
  <2>3. ElementsAllocated'
    BY <2>1 DEF ElementsAllocated, Made, Contents
  <2>4. Exclusive'
    BY <2>1 DEF Ind, Exclusive, Holders, Made, Contents, Members
  <2> QED
    BY <2>2, <2>3, <2>4
<1>2. Counted'
  <2> SUFFICES ASSUME NEW o \in mem'.live, ~ mem'.retained[o]
               PROVE  mem'.rc[o] >= Cardinality(Counting(o)) + Bit(o \in Members(values))
    BY DEF Counted, Counting, Made, Contents, Members
  <2>1. mem'.rc[o] \in Nat
    BY DEF MemorySound, Memory
  <2>2. CASE o \in Members(values) \/ Holders(o) # {}
    <3>1. o \in mem.live /\ ~ mem.retained[o] /\ mem'.rc[o] >= mem.rc[o]
      BY <2>2
    <3>2. mem.rc[o] >= Cardinality(Counting(o)) + Bit(o \in Members(values))
      BY <3>1, HoldersCountedIs DEF Ind, ValuesSound, Counted
    <3>3. mem.rc[o] \in Nat
      BY <3>1 DEF Ind, MemorySound, Memory
    <3>4. Cardinality(Counting(o)) \in Nat
      <4>1. Counting(o) \subseteq Made
        BY DEF Counting
      <4> QED
        BY <4>1, FS_Subset, FS_CardinalityType DEF Ind, SetsSound
    <3> QED
      BY <2>1, <3>1, <3>2, <3>3, <3>4 DEF Bit
  <2>3. CASE ~ (o \in Members(values) \/ Holders(o) # {})
    <3>1. Counting(o) = {}
      BY <2>3 DEF Counting, Holders
    <3> QED
      BY <2>1, <2>3, <3>1, FS_EmptySet DEF Bit
  <2> QED
    BY <2>2, <2>3
<1>3. Once(values)'
  BY <1>1 DEF ValuesSound
<1> QED
  BY <1>1, <1>2, <1>3, HoldersCountedNext DEF Ind

LEMMA NewKeeps == ASSUME Ind, NEW o \in Elements, New(o) PROVE Ind'
<1>1. /\ mem \in Memory /\ ~ mem.fault /\ ~ mem.crashed /\ Members(values) \subseteq mem.live
      /\ \A s \in Made : Contents(s) \subseteq mem.live
  BY DEF Ind, MemorySound, ElementsAllocated, ValuesSound
<1>2. /\ mem' = [mem EXCEPT !.live = mem.live \cup {o}] /\ UNCHANGED <<sets, values>> /\ o \notin mem.live
  BY DEF New
<1>3. /\ mem' \in Memory /\ mem'.live = mem.live \cup {o} /\ mem'.rc = mem.rc /\ mem'.retained = mem.retained
      /\ mem'.fault = mem.fault /\ mem'.crashed = mem.crashed
  BY <1>1, <1>2 DEF Memory
<1>4. MemorySound'
  BY <1>3 DEF Ind, MemorySound
<1>5. \A e : Holders(e) # {} => e \in mem.live
  BY <1>1 DEF Holders
<1>6. \A e \in mem.live : mem.rc[e] \in Nat
  BY <1>1 DEF Memory
<1> QED
  BY <1>1, <1>2, <1>3, <1>4, <1>5, <1>6, SameSetsKeep

LEMMA DropKeeps == ASSUME Ind, NEW o \in Elements, Drop(o) PROVE Ind'
<1>1. /\ mem \in Memory /\ ~ mem.fault /\ ~ mem.crashed /\ Members(values) \subseteq mem.live
      /\ \A s \in Made : Contents(s) \subseteq mem.live
      /\ \A e \in Elements : mem.rc[e] <= MaxRc
  BY DEF Ind, MemorySound, ElementsAllocated, ValuesSound
<1>2. o \in mem.live /\ Holders(o) = {} /\ mem' = Freed(mem, o) /\ UNCHANGED <<sets, values>>
  BY DEF Drop
<1>3. o \notin Members(values)
  <2>1. values \in Seq(Elements)
    BY DEF Ind, ValuesSound, Once
  <2>2. DOMAIN values = 1..Len(values)
    BY <2>1
  <2> QED
    BY <2>2 DEF Drop, Members
<1>4. /\ mem' \in Memory /\ mem'.live = mem.live \ {o} /\ mem'.fault = mem.fault /\ mem'.crashed = mem.crashed
      /\ \A e \in Elements : e # o => Unaltered(mem, mem', e)
      /\ mem'.rc[o] = 0
  BY <1>1, <1>2, FreedIs
<1>5. MemorySound'
  <2>1. MaxRc \in Nat
    BY SetAssumption
  <2> QED
    BY <1>1, <1>4, <2>1 DEF MemorySound, Unaltered
<1>6. \A s \in Made : Contents(s) \subseteq mem'.live
  BY <1>1, <1>2, <1>4 DEF Holders
<1>7. \A e \in mem.live : e \in Elements /\ mem.rc[e] \in Nat
  BY <1>1 DEF Memory
<1>8. ASSUME NEW e \in mem'.live, ~ mem'.retained[e]
      PROVE  e \in mem.live /\ ~ mem.retained[e] /\ mem'.rc[e] >= mem.rc[e]
  BY <1>4, <1>7, <1>8 DEF Unaltered
<1> QED
  BY <1>1, <1>2, <1>3, <1>4, <1>5, <1>6, <1>8, SameSetsKeep

LEMMA DeleteKeeps == ASSUME Ind, Freedoms = {}, NEW s \in Made, Delete(s) PROVE Ind'
<1>1. Contents(s) = {} /\ sets' = [n \in Made \ {s} |-> sets[n]] /\ values' = values
  BY DEF Delete
<1>2. mem' = [mem EXCEPT !.crashed = FALSE]
  BY <1>1 DEF Delete
<1>3. mem \in Memory /\ ~ mem.crashed
  BY DEF Ind, MemorySound, ElementsAllocated
<1>4. /\ mem' \in Memory /\ mem'.live = mem.live /\ mem'.rc = mem.rc /\ mem'.retained = mem.retained
      /\ mem'.fault = mem.fault /\ ~ mem'.crashed
  BY <1>2, <1>3 DEF Memory
<1>5. Made' = Made \ {s} /\ \A h \in Made \ {s} : sets'[h] = sets[h]
  BY <1>1 DEF Made
<1>6. SetsSound'
  BY <1>5, FS_RemoveElement DEF Ind, SetsSound
<1>7. MemorySound' /\ ValuesSound' /\ ElementsAllocated'
  BY <1>1, <1>4, <1>5 DEF Ind, MemorySound, ValuesSound, ElementsAllocated, Contents, Once, Members
<1>8. \A o : Holders(o)' = Holders(o)
  BY <1>1, <1>5 DEF Holders, Contents
<1>9. \A o : Counting(o)' = Counting(o)
  BY <1>1, <1>5 DEF Counting, Contents
<1>10. Exclusive'
  BY <1>1, <1>5, <1>8 DEF Ind, Exclusive, Contents, Members
<1>11. Counted'
  BY <1>1, <1>4, <1>9, HoldersCountedIs DEF Ind, ValuesSound, Counted, Members
<1> QED
  BY <1>6, <1>7, <1>10, <1>11, HoldersCountedNext DEF Ind, ValuesSound

LEMMA ValuesKeeps == ASSUME Ind, Freedoms = {}, NEW s \in Made, Values(s) PROVE Ind'
<1> DEFINE v == Visited(sets[s].tree)
           A == Contents(s)
<1>1. /\ values = <<>> /\ sets[s].policy = "RC" /\ values' = v /\ mem' = Listed(mem, v) /\ sets' = sets
      /\ \A o \in A : mem.rc[o] < MaxRc
  BY DEF Values, MayShare
<1>2. Upright(sets[s].tree) /\ A = T!Contents(sets[s].tree) /\ A \subseteq mem.live /\ A \subseteq Elements
  BY MadeIs DEF Contents
<1>3. Once(v) /\ Members(v) = A
  BY <1>2, VisitedOnce
<1>4. /\ mem \in Memory /\ ~ mem.fault /\ ~ mem.crashed /\ \A h \in Made : Contents(h) \subseteq mem.live
      /\ \A e \in Elements : mem.rc[e] <= MaxRc /\ mem.rc[e] \in Nat
  BY DEF Ind, MemorySound, ElementsAllocated, Memory
<1> HIDE DEF v, A
<1>5. /\ mem' \in Memory /\ mem'.live = mem.live /\ mem'.fault = mem.fault /\ mem'.crashed = mem.crashed
      /\ mem'.retained = mem.retained
      /\ \A e \in Elements : mem'.rc[e] = IF e \in A /\ ~ mem.retained[e] THEN mem.rc[e] + 1 ELSE mem.rc[e]
  BY <1>1, <1>3, <1>4, ListedIs
<1>6. SetsSound' /\ ElementsAllocated' /\ ValuesSound'
  BY <1>1, <1>2, <1>3, <1>4, <1>5 DEF Ind, SetsSound, ElementsAllocated, ValuesSound, Made, Contents
<1>7. MemorySound'
  <2>1. MaxRc \in Nat
    BY SetAssumption
  <2> QED
    BY <1>1, <1>2, <1>4, <1>5, <2>1 DEF MemorySound
<1>8. Exclusive'
  <2> SUFFICES ASSUME NEW h \in Made, NEW o \in Contents(h), sets[h].policy # "RC"
               PROVE  Holders(o) = {h} /\ o \notin A
    BY <1>1, <1>3 DEF Exclusive, Holders, Contents, Made
  <2>1. Holders(o) = {h}
    BY DEF Ind, Exclusive
  <2>2. o \in A => s \in Holders(o)
    BY DEF Holders, A
  <2> QED
    BY <1>1, <2>1, <2>2
<1>9. Counted'
  <2> SUFFICES ASSUME NEW o \in mem.live, ~ mem.retained[o]
               PROVE  mem'.rc[o] >= Cardinality(Counting(o)) + Bit(o \in A)
    BY <1>1, <1>3, <1>5 DEF Counted, Counting, Made, Contents
  <2>1. o \in Elements /\ o \notin Members(values)
    BY <1>1, <1>4 DEF Memory, Members
  <2>2. mem.rc[o] >= Cardinality(Counting(o)) + Bit(o \in Members(values))
    BY HoldersCountedIs DEF Ind, ValuesSound, Counted
  <2>3. Cardinality(Counting(o)) \in Nat
    <3>1. Counting(o) \subseteq Made
      BY DEF Counting
    <3> QED
      BY <3>1, FS_Subset, FS_CardinalityType DEF Ind, SetsSound
  <2> QED
    BY <1>4, <1>5, <2>1, <2>2, <2>3 DEF Bit
<1> QED
  BY <1>6, <1>7, <1>8, <1>9, HoldersCountedNext DEF Ind, ValuesSound

LEMMA DropValuesKeeps == ASSUME Ind, DropValues PROVE Ind'
<1>1. values' = <<>> /\ mem' = LetGoAll(mem, values, "RC") /\ sets' = sets
  BY DEF DropValues, Unlisted
<1>2. Once(values) /\ Members(values) \subseteq mem.live
  BY DEF Ind, ValuesSound
<1>3. /\ mem \in Memory /\ ~ mem.fault /\ ~ mem.crashed /\ \A h \in Made : Contents(h) \subseteq mem.live
      /\ \A e \in Elements : mem.rc[e] <= MaxRc /\ mem.rc[e] \in Nat
  BY DEF Ind, MemorySound, ElementsAllocated, Memory
<1>4. /\ mem' \in Memory /\ mem'.fault = mem.fault /\ mem'.crashed = mem.crashed
      /\ \A e \in Elements : e \notin Members(values) => Unaltered(mem, mem', e)
      /\ \A e \in Members(values) : LetGone(mem, mem', e, "RC")
  BY <1>1, <1>2, <1>3, LetGoAllIs
<1>5. \A e \in Elements : mem'.rc[e] \in Nat /\ mem'.rc[e] <= mem.rc[e]
  BY <1>4 DEF Memory, Unaltered, LetGone
<1>6. Once(<<>>) /\ Members(<<>>) = {}
  BY DEF Once, Members
<1>7. SetsSound' /\ ValuesSound'
  BY <1>1, <1>6 DEF Ind, SetsSound, ValuesSound, Made
<1>8. MemorySound'
  <2>1. MaxRc \in Nat
    BY SetAssumption
  <2> QED
    BY <1>3, <1>4, <1>5, <2>1 DEF MemorySound
<1>9. Exclusive'
  BY <1>1, <1>6 DEF Ind, Exclusive, Holders, Made, Contents
<1>10. ASSUME NEW o \in Elements
       PROVE  /\ Cardinality(Counting(o)) \in Nat
              /\ o \in mem.live /\ ~ mem.retained[o]
                 => mem.rc[o] >= Cardinality(Counting(o)) + Bit(o \in Members(values))
              /\ Holders(o) # {} /\ o \in Members(values) => Cardinality(Counting(o)) # 0
  <2>1. IsFiniteSet(Counting(o))
    <3>1. Counting(o) \subseteq Made
      BY DEF Counting
    <3> QED
      BY <3>1, FS_Subset DEF Ind, SetsSound
  <2>2. o \in mem.live /\ ~ mem.retained[o]
        => mem.rc[o] >= Cardinality(Counting(o)) + Bit(o \in Members(values))
    BY <1>2, HoldersCountedIs DEF Ind, Counted
  <2>3. Holders(o) # {} /\ o \in Members(values) => Counting(o) # {}
    BY DEF Ind, Exclusive, Holders, Counting
  <2> QED
    BY <2>1, <2>2, <2>3, FS_CardinalityType, FS_EmptySet
<1>11. ElementsAllocated'
  <2> SUFFICES ASSUME NEW h \in Made, NEW o \in Contents(h) PROVE o \in mem'.live
    BY <1>1, <1>3, <1>4 DEF ElementsAllocated, Made, Contents
  <2>1. o \in mem.live /\ o \in Elements /\ Holders(o) # {}
    BY <1>3 DEF Memory, Holders
  <2>2. CASE o \notin Members(values)
    BY <1>4, <2>1, <2>2 DEF Unaltered
  <2>3. CASE o \in Members(values)
    <3>1. LetGone(mem, mem', o, "RC")
      BY <1>4, <2>3
    <3>2. ~ mem.retained[o] => mem.rc[o] >= Cardinality(Counting(o)) + Bit(o \in Members(values))
      BY <1>10, <2>1
    <3>3. Cardinality(Counting(o)) \in Nat /\ Cardinality(Counting(o)) # 0
      BY <1>10, <2>1, <2>3
    <3>4. ~ (~ mem.retained[o] /\ mem.rc[o] <= 1)
      BY <1>3, <2>1, <2>3, <3>2, <3>3 DEF Bit
    <3> QED
      BY <2>1, <3>1, <3>4 DEF LetGone
  <2> QED
    BY <2>2, <2>3
<1>12. Counted'
  <2> SUFFICES ASSUME NEW o \in mem'.live, ~ mem'.retained[o]
               PROVE  mem'.rc[o] >= Cardinality(Counting(o))
    <3>1. \A o : Counting(o)' = Counting(o)
      BY <1>1 DEF Counting, Made, Contents
    <3>2. \A o : Cardinality(Counting(o)) \in Nat
      <4>1. \A o : Counting(o) \subseteq Made
        BY DEF Counting
      <4> QED
        BY <4>1, FS_Subset, FS_CardinalityType DEF Ind, SetsSound
    <3>3. \A o : Bit(o \in Members(values')) = 0
      BY <1>1, <1>6 DEF Bit
    <3>4. \A o \in mem'.live : mem'.rc[o] \in Nat
      BY <1>4 DEF Memory
    <3> QED
      BY <3>1, <3>2, <3>3, <3>4 DEF Counted
  <2>1. o \in Elements
    BY <1>4 DEF Memory
  <2>2. CASE o \notin Members(values)
    <3>1. o \in mem.live /\ ~ mem.retained[o] /\ mem'.rc[o] = mem.rc[o]
      BY <1>4, <2>1, <2>2 DEF Unaltered
    <3> QED
      BY <1>3, <1>10, <2>1, <2>2, <3>1 DEF Bit
  <2>3. CASE o \in Members(values)
    <3>1. LetGone(mem, mem', o, "RC")
      BY <1>4, <2>3
    <3>2. o \in mem.live /\ ~ mem.retained[o] /\ mem'.rc[o] + 1 >= mem.rc[o]
      BY <3>1 DEF LetGone
    <3> QED
      BY <1>3, <1>5, <1>10, <2>1, <2>3, <3>2 DEF Bit
  <2> QED
    BY <2>2, <2>3
<1> QED
  BY <1>7, <1>8, <1>9, <1>11, <1>12, HoldersCountedNext DEF Ind, ValuesSound

LEMMA NextKeeps == ASSUME Ind, Freedoms = {}, Next PROVE Ind'
<1>0. \A p : MayShare(p) <=> p = "RC"
  BY DEF MayShare
<1>01. Made \subseteq Sets /\ \A s \in Made : sets[s].policy \in Policies
  BY DEF Ind, SetsSound
<1>1. ASSUME NEW o \in Elements, New(o) \/ Drop(o) PROVE Ind'
  BY <1>1, NewKeeps, DropKeeps
<1>2. ASSUME NEW s \in Sets, NEW policy \in Policies, Make(s, policy) PROVE Ind'
  BY <1>2, MakePasses, BecomeKeeps DEF Make
<1>3. ASSUME NEW s \in Sets, NEW a \in Made, NEW b \in Made, Union(s, a, b) PROVE Ind'
  <2>1. s \notin Made /\ sets[a].policy = "RC" /\ sets[b].policy = "RC" /\ Become(s, United(a, b))
    BY <1>0, <1>3 DEF Union
  <2>2. United(a, b) \in Working /\ United(a, b).set.policy = "RC" /\ Passes(s, United(a, b))
    BY <2>1, UnionPasses
  <2>3. "RC" \in Policies
    BY <1>01, <2>1
  <2> QED
    BY <2>1, <2>2, <2>3, BecomeKeeps
<1>4. ASSUME NEW s \in Sets, NEW a \in Made, Clone(s, a) PROVE Ind'
  <2>1. s \notin Made /\ sets[a].policy = "RC" /\ Become(s, Cloned(a))
    BY <1>0, <1>4 DEF Clone
  <2>2. Cloned(a) \in Working /\ Cloned(a).set.policy = "RC" /\ Passes(s, Cloned(a))
    BY <2>1, ClonePasses
  <2>3. "RC" \in Policies
    BY <1>01, <2>1
  <2> QED
    BY <2>1, <2>2, <2>3, BecomeKeeps
<1>5. ASSUME NEW s \in Made, Clear(s) PROVE Ind'
  BY <1>01, <1>5, ClearPasses, BecomeKeeps DEF Clear
<1>6. ASSUME NEW s \in Made, Values(s) \/ Delete(s) PROVE Ind'
  BY <1>6, ValuesKeeps, DeleteKeeps
<1>7. ASSUME NEW s \in Made, NEW e \in Elements, Add(s, e) PROVE Ind'
  BY <1>01, <1>7, AddPasses, BecomeKeeps DEF Add
<1>8. ASSUME NEW s \in Made, NEW e \in Elements, RemoveFrom(s, e) PROVE Ind'
  BY <1>01, <1>8, RemovePasses, BecomeKeeps DEF RemoveFrom
<1>9. CASE DropValues
  BY <1>9, DropValuesKeeps
<1> QED
  BY <1>1, <1>2, <1>3, <1>4, <1>5, <1>6, <1>7, <1>8, <1>9 DEF Next

-----------------------------------------------------------------------------
(* The theorems. *)

LEMMA IndAlways == ASSUME Freedoms = {} PROVE Spec => []Ind
<1>1. Init => Ind
  BY InitKeeps
<1>2. Ind /\ [Next]_vars => Ind'
  BY NextKeeps, StutterKeeps
<1> QED
  BY <1>1, <1>2, PTL DEF Spec

(* Safety: whatever is added, removed, united, cloned, listed and cleared, *)
(* no element of a set is freed and none is freed twice (set.c:129,        *)
(* cee-common.c:37), every holder has its count, and no size is too small. *)
THEOREM SetsKeepMemorySafe == ASSUME Freedoms = {} PROVE Spec => []MemorySafe
<1>1. ASSUME Ind PROVE MemorySafe
  <2>1. mem \in Memory /\ \A o \in Elements : mem.rc[o] <= MaxRc
    BY <1>1 DEF Ind, MemorySound
  <2>2. mem.rc \in [Elements -> 0..MaxRc]
    <3>1. mem.rc \in [Elements -> Nat] /\ MaxRc \in Nat
      BY <2>1, SetAssumption DEF Memory
    <3> QED
      BY <2>1, <3>1
  <2>3. \A s \in Made : /\ sets[s].size \in Nat /\ sets[s].policy \in Policies
                        /\ sets[s].size >= Cardinality(Contents(s))
    BY <1>1 DEF Ind, SetsSound, IsSet, Contents
  <2>4. \A s \in Made : Contents(s) \subseteq Elements
    BY <1>1, MadeIs
  <2>5. TypeOK
    BY <1>1, <2>1, <2>2, <2>3, <2>4 DEF TypeOK, Ind, SetsSound, ValuesSound, Once, Memory
  <2> QED
    BY <1>1, <2>3, <2>5 DEF MemorySafe, Ind, SizeCovers
<1> QED
  BY <1>1, IndAlways, PTL

(* What becomes of a set is what becomes of its elements. *)
LEMMA BecomeMaps ==
    ASSUME NEW s, NEW x, Become(s, x)
    PROVE  Algebra!Become(s, Held(x))
<1>1. Made' = Made \cup {s} /\ sets'[s] = x.set /\ \A h \in Made \ {s} : sets'[h] = sets[h]
  BY DEF Become, Made
<1> DEFINE before == [h \in Made |-> Contents(h)]
<1>2. [h \in Made |-> Contents(h)]' = [h \in Made \cup {s} |-> IF h = s THEN Held(x) ELSE before[h]]
  BY <1>1 DEF Contents, Held
<1>3. DOMAIN before = Made
  OBVIOUS
<1> HIDE DEF before
<1> QED
  BY <1>2, <1>3 DEF Algebra!Become, before

(* Refinement: as its elements are concerned, a set is a set (set.c:112,   *)
(* 181, 194, 265): adding takes in what equals nothing that is there,      *)
(* removing takes out what is equal, unions and clones are what they say,  *)
(* and nothing happens to any other set.                                   *)
THEOREM SetsAreSets == ASSUME Freedoms = {} PROVE Spec => ImplementsAlgebra
<1> DEFINE held == [h \in Made |-> Contents(h)]
<1>1. ASSUME Init PROVE Algebra!Init
  <2>1. Made = {}
    BY <1>1 DEF Init, Made
  <2> QED
    BY <2>1 DEF Algebra!Init
<1>2. ASSUME Ind, [Next]_vars PROVE [Algebra!Next]_held
  <2>0. \A p : MayShare(p) <=> p = "RC"
    BY DEF MayShare
  <2>1. /\ DOMAIN held = Made /\ \A h \in Made : held[h] = Contents(h)
        /\ Made \subseteq Sets
    BY <1>2 DEF Ind, SetsSound
  <2>2. \A A, e : Algebra!Equal(A, e) = Equal(A, e)
    BY DEF Algebra!Equal, Equal
  <2>3. ASSUME sets' = sets PROVE held' = held
    BY <2>3 DEF Made, Contents
  <2>4. ASSUME NEW o \in Elements, New(o) \/ Drop(o) PROVE held' = held
    BY <2>3, <2>4 DEF New, Drop
  <2>5. ASSUME NEW s \in Sets, NEW policy \in Policies, Make(s, policy) PROVE Algebra!Next
    <3>1. s \notin Made /\ Algebra!Become(s, {})
      BY <1>2, <2>5, MakePasses, BecomeMaps DEF Make
    <3> QED
      BY <2>1, <3>1 DEF Algebra!Next
  <2>6. ASSUME NEW s \in Sets, NEW a \in Made, NEW b \in Made, Union(s, a, b) PROVE Algebra!Next
    <3>1. s \notin Made /\ sets[a].policy = "RC" /\ sets[b].policy = "RC" /\ Become(s, United(a, b))
      BY <2>0, <2>6 DEF Union
    <3>2. Held(United(a, b)) = Contents(a) \cup {e \in Contents(b) : Equal(Contents(a), e) = {}}
      BY <1>2, <3>1, UnionPasses
    <3>3. Algebra!Become(s, Held(United(a, b)))
      BY <3>1, BecomeMaps
    <3>4. Algebra!Union(s, a, b)
      BY <2>1, <2>2, <3>2, <3>3 DEF Algebra!Union
    <3> QED
      BY <2>1, <3>1, <3>4 DEF Algebra!Next
  <2>7. ASSUME NEW s \in Sets, NEW a \in Made, Clone(s, a) PROVE Algebra!Next
    <3>1. s \notin Made /\ sets[a].policy = "RC" /\ Become(s, Cloned(a))
      BY <2>0, <2>7 DEF Clone
    <3>2. Held(Cloned(a)) = held[a]
      BY <1>2, <2>1, <3>1, ClonePasses
    <3>3. Algebra!Become(s, held[a])
      BY <3>1, <3>2, BecomeMaps
    <3> QED
      BY <2>1, <3>1, <3>3 DEF Algebra!Next
  <2>8. ASSUME NEW s \in Made, Clear(s) PROVE Algebra!Next
    <3>1. Algebra!Become(s, {})
      BY <1>2, <2>8, ClearPasses, BecomeMaps DEF Clear
    <3> QED
      BY <2>1, <3>1 DEF Algebra!Next
  <2>9. ASSUME NEW s \in Made, Values(s) PROVE held' = held
    BY <2>3, <2>9 DEF Values
  <2>10. ASSUME NEW s \in Made, Delete(s) PROVE Algebra!Next
    <3>1. held' = [h \in Made \ {s} |-> held[h]]
      BY <2>10 DEF Delete, Made, Contents
    <3>2. Algebra!Delete(s)
      BY <2>1, <3>1 DEF Algebra!Delete
    <3> QED
      BY <2>1, <3>2 DEF Algebra!Next
  <2>11. ASSUME NEW s \in Made, NEW e \in Elements, Add(s, e) PROVE Algebra!Next
    <3>1. Held(Added(On(s), e)) = IF Equal(Contents(s), e) = {} THEN Contents(s) \cup {e} ELSE Contents(s)
      BY <1>2, <2>11, AddPasses DEF Add
    <3>2. Algebra!Become(s, Held(Added(On(s), e)))
      BY <2>11, BecomeMaps DEF Add
    <3>3. Algebra!Add(s, e)
      BY <2>1, <2>2, <3>1, <3>2 DEF Algebra!Add
    <3> QED
      BY <2>1, <3>3 DEF Algebra!Next
  <2>12. ASSUME NEW s \in Made, NEW e \in Elements, RemoveFrom(s, e) PROVE Algebra!Next
    <3>1. Held(Removed(On(s), e)) = Contents(s) \ Equal(Contents(s), e)
      BY <1>2, RemovePasses
    <3>2. Algebra!Become(s, Held(Removed(On(s), e)))
      BY <2>12, BecomeMaps DEF RemoveFrom
    <3>3. Algebra!Remove(s, e)
      BY <2>1, <2>2, <3>1, <3>2 DEF Algebra!Remove
    <3> QED
      BY <2>1, <3>3 DEF Algebra!Next
  <2>13. ASSUME DropValues \/ UNCHANGED vars PROVE held' = held
    BY <2>3, <2>13 DEF DropValues, vars
  <2> HIDE DEF held
  <2>14. CASE UNCHANGED vars
    BY <2>13, <2>14
  <2>15. CASE Next
    BY <2>4, <2>5, <2>6, <2>7, <2>8, <2>9, <2>10, <2>11, <2>12, <2>13, <2>15 DEF Next
  <2> QED
    BY <1>2, <2>14, <2>15
<1>3. Init => Algebra!Init
  BY <1>1
<1>4. Ind /\ [Next]_vars => [Algebra!Next]_([s \in Made |-> Contents(s)])
  BY <1>2
<1>5. Spec => []Ind
  BY IndAlways
<1> HIDE DEF held
<1> QED
  BY <1>3, <1>4, <1>5, PTL DEF ImplementsAlgebra, Algebra!Spec, Spec

=============================================================================
