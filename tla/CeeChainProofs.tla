---------------------------- MODULE CeeChainProofs ----------------------------
(***************************************************************************)
(* Proofs about CeeChain for any set of addresses and for programs that    *)
(* grow any block they like: the links of the allocated blocks stay        *)
(* consistent, cee_del of a state leaves no block behind, and a collection *)
(* that returns has freed all it should.  For programs that only grow the  *)
(* newest block, the chain implements the list of blocks of CeeTracked.    *)
(***************************************************************************)
EXTENDS CeeChainRefinement, TLAPS, WellFoundedInduction, FiniteSetTheorems, SequenceTheorems

(* Following trace_prev goes down in rank, so it cannot come back: the     *)
(* links of the blocks in L, consistent or not, form no cycle.             *)
RankedOn(c, L, rank) == \A b \in L : rank[c.prev[b]] < rank[b]

AcyclicOn(c, L) == \E rank \in [Sects -> Nat] : RankedOn(c, L, rank)

ChainOn(c, L) == c \in LinksType /\ ConsistentOn(c, L) /\ AcyclicOn(c, L)

(* The inductive invariant. *)
IInv == TypeOK /\ ChainOn(links, live) /\ TeardownLeavesNothing

-----------------------------------------------------------------------------
(* The list operations preserve the shape of the chain. *)

(* chain adds a block at the tail of a well-formed chain. *)
LEMMA ChainAppends ==
    ASSUME NEW c, NEW L \in SUBSET Blocks, NEW h \in Blocks \ L, ChainOn(c, L)
    PROVE  ChainOn(Chain(c, h), L \cup {h})
<1> USE ChainAssumption DEF Sects
<1> DEFINE d == Chain(c, h)
<1>1. /\ c \in LinksType /\ ConsistentOn(c, L)
  BY DEF ChainOn
<1>2. PICK rank \in [Sects -> Nat] : RankedOn(c, L, rank)
  BY DEF ChainOn, AcyclicOn
<1>3. /\ d \in LinksType
      /\ d.tail = h
      /\ \A x \in Sects : d.next[x] = IF x = c.tail THEN h ELSE c.next[x]
      /\ \A x \in Sects : d.prev[x] = IF x = h THEN c.tail ELSE c.prev[x]
  BY <1>1 DEF Chain, LinksType
<1>4. ConsistentOn(d, L \cup {h})
  BY <1>1, <1>3 DEF ConsistentOn, LinksType
<1>5. AcyclicOn(d, L \cup {h})
  <2> DEFINE r == [rank EXCEPT ![h] = rank[c.tail] + 1]
  <2>1. r \in [Sects -> Nat]
    BY <1>1 DEF LinksType
  <2>2. RankedOn(d, L \cup {h}, r)
    BY <1>1, <1>2, <1>3 DEF RankedOn, ConsistentOn, LinksType
  <2> QED BY <2>1, <2>2 DEF AcyclicOn
<1> QED BY <1>3, <1>4, <1>5 DEF ChainOn

(* de_chain takes a block out of a well-formed chain. *)
LEMMA DeChainRemoves ==
    ASSUME NEW c, NEW L \in SUBSET Blocks, NEW h \in L, ChainOn(c, L)
    PROVE  ChainOn(DeChain(c, h), L \ {h})
<1> USE ChainAssumption DEF Sects
<1> DEFINE d == DeChain(c, h)
<1>1. /\ c \in LinksType /\ ConsistentOn(c, L)
  BY DEF ChainOn
<1>2. PICK rank \in [Sects -> Nat] : RankedOn(c, L, rank)
  BY DEF ChainOn, AcyclicOn
<1>3. /\ rank[c.prev[h]] < rank[h] /\ c.prev[h] # h
      /\ c.prev[h] \in L \cup {State} /\ c.prev[h] \in Sects
  BY <1>1, <1>2 DEF RankedOn, ConsistentOn, LinksType
<1>4. CASE c.tail = h
  <2>1. /\ d \in LinksType
        /\ d.tail = c.prev[h]
        /\ d.prev = c.prev
        /\ \A x \in Sects : d.next[x] = IF x = c.prev[h] THEN NULL ELSE c.next[x]
    BY <1>1, <1>3, <1>4 DEF DeChain, LinksType
  <2>2. ConsistentOn(d, L \ {h})
    BY <1>1, <1>3, <1>4, <2>1 DEF ConsistentOn, LinksType
  <2>3. RankedOn(d, L \ {h}, rank)
    BY <1>2, <2>1 DEF RankedOn
  <2> QED BY <2>1, <2>2, <2>3 DEF ChainOn, AcyclicOn
<1>5. CASE c.tail # h
  <2>1. c.next[h] \in L /\ c.prev[c.next[h]] = h /\ c.next[h] # NULL
    BY <1>1, <1>5 DEF ConsistentOn
  <2>2. c.next[h] # h
    BY <1>2, <2>1 DEF RankedOn
  <2>3. /\ d \in LinksType
        /\ d.tail = c.tail
        /\ \A x \in Sects : d.next[x] = IF x = c.prev[h] THEN c.next[h] ELSE c.next[x]
        /\ \A x \in Sects : d.prev[x] = IF x = c.next[h] THEN c.prev[h] ELSE c.prev[x]
    BY <1>1, <1>3, <1>5, <2>1 DEF DeChain, LinksType
  <2>4. ConsistentOn(d, L \ {h})
    BY <1>1, <1>3, <1>5, <2>1, <2>2, <2>3 DEF ConsistentOn, LinksType
  <2>5. RankedOn(d, L \ {h}, rank)
    BY <1>1, <1>2, <1>3, <2>1, <2>2, <2>3 DEF RankedOn, ConsistentOn, LinksType
  <2> QED BY <2>3, <2>4, <2>5 DEF ChainOn, AcyclicOn
<1> QED BY <1>4, <1>5

(* Writing the links of a block that is not on the chain changes nothing. *)
LEMMA OffChainWrite ==
    ASSUME NEW c, NEW L \in SUBSET Blocks, NEW h \in Blocks \ L, ChainOn(c, L),
           NEW n \in Sects \cup {NULL}, NEW p \in Sects \cup {NULL}
    PROVE  ChainOn([c EXCEPT !.next[h] = n, !.prev[h] = p], L)
<1> USE ChainAssumption DEF Sects
<1> DEFINE d == [c EXCEPT !.next[h] = n, !.prev[h] = p]
<1>1. /\ c \in LinksType /\ ConsistentOn(c, L)
  BY DEF ChainOn
<1>2. PICK rank \in [Sects -> Nat] : RankedOn(c, L, rank)
  BY DEF ChainOn, AcyclicOn
<1>3. /\ d \in LinksType
      /\ d.tail = c.tail
      /\ \A x \in L \cup {State} : d.next[x] = c.next[x] /\ d.prev[x] = c.prev[x]
  BY <1>1 DEF LinksType
<1>4. ConsistentOn(d, L)
  BY <1>1, <1>3 DEF ConsistentOn
<1>5. RankedOn(d, L, rank)
  BY <1>2, <1>3 DEF RankedOn
<1> QED BY <1>3, <1>4, <1>5 DEF ChainOn, AcyclicOn

(* The links of a new state are a well-formed chain of no block. *)
LEMMA EmptyIsChain == ChainOn(EmptyChain, {})
<1> USE ChainAssumption DEF Sects
<1>1. EmptyChain \in LinksType /\ ConsistentOn(EmptyChain, {})
  BY DEF EmptyChain, LinksType, ConsistentOn
<1>2. AcyclicOn(EmptyChain, {})
  <2> DEFINE zero == [x \in Sects |-> 0]
  <2>1. zero \in [Sects -> Nat] /\ RankedOn(EmptyChain, {}, zero)
    BY DEF RankedOn
  <2> QED BY <2>1 DEF AcyclicOn
<1> QED BY <1>1, <1>2 DEF ChainOn

(* A chain whose tail is the state holds no block. *)
LEMMA EmptyWhenTailIsState ==
    ASSUME NEW c, NEW L \in SUBSET Blocks, ChainOn(c, L), c.tail = State
    PROVE  L = {}
<1> USE ChainAssumption DEF Sects
<1>1. ConsistentOn(c, L)
  BY DEF ChainOn
<1>2. PICK rank \in [Sects -> Nat] : RankedOn(c, L, rank)
  BY DEF ChainOn, AcyclicOn
<1>3. \A b \in L : c.prev[b] \in L /\ rank[c.prev[b]] < rank[b]
  BY <1>1, <1>2 DEF ConsistentOn, RankedOn
<1>4. SUFFICES ASSUME L # {} PROVE FALSE
  OBVIOUS
<1> DEFINE T == {rank[b] : b \in L}
<1>5. T \subseteq Nat /\ T # {}
  BY <1>4
<1>6. PICK m \in T : \A n \in T : ~ (<<n, m>> \in OpToRel(<, Nat))
  BY <1>5, NatLessThanWellFounded, WFMin
<1>7. PICK b \in L : m = rank[b]
  OBVIOUS
<1>8. <<rank[c.prev[b]], m>> \in OpToRel(<, Nat)
  BY <1>3, <1>7 DEF OpToRel
<1> QED BY <1>3, <1>6, <1>7, <1>8

-----------------------------------------------------------------------------
(* The inductive invariant. *)

LEMMA InitIInv == Init => IInv
<1> USE ChainAssumption DEF Sects
<1> SUFFICES ASSUME Init PROVE IInv
  OBVIOUS
<1>1. TypeOK
  BY DEF Init, TypeOK, LinksType, EmptyChain
<1>2. ChainOn(links, live)
  BY EmptyIsChain DEF Init
<1> QED BY <1>1, <1>2 DEF IInv, TeardownLeavesNothing, Init

(* Freeing an allocated block preserves the shape of the chain. *)
LEMMA ReleaseKeepsChain ==
    ASSUME IInv, NEW b \in live, Release(b)
    PROVE  /\ ChainOn(links', live')
           /\ links' \in LinksType /\ live' \subseteq Blocks
BY DeChainRemoves DEF IInv, TypeOK, Release, ChainOn

LEMMA NextIInv == IInv /\ [Next]_vars => IInv'
<1> USE ChainAssumption
<1> SUFFICES ASSUME IInv, [Next]_vars PROVE IInv'
  OBVIOUS
<1> USE DEF IInv, TypeOK
<1>1. CASE Create
  BY <1>1, EmptyIsChain DEF Create, TeardownLeavesNothing, ChainOn, Sects
<1>2. ASSUME NEW b \in Blocks, Alloc(b) PROVE IInv'
  <2>1. ChainOn(Zeroed(links, b), live)
    BY <1>2, OffChainWrite DEF Alloc, Zeroed, Sects
  <2>2. ChainOn(links', live')
    BY <1>2, <2>1, ChainAppends DEF Alloc
  <2> QED BY <1>2, <2>2 DEF Alloc, TeardownLeavesNothing, ChainOn
<1>3. ASSUME NEW b \in Blocks, Del(b) PROVE IInv'
  BY <1>3, ReleaseKeepsChain DEF Del, TeardownLeavesNothing
<1>4. ASSUME NEW b \in Blocks, NEW new \in Blocks, ResizeRealloc(b, new)
      PROVE  IInv'
  <2> DEFINE c == DeChain(links, b)
  <2>1. b \in live /\ new \in Blocks \ (live \ {b})
    BY <1>4 DEF ResizeRealloc, Growable
  <2>2. ChainOn(c, live \ {b}) /\ c \in LinksType
    BY <2>1, DeChainRemoves DEF ChainOn
  <2>3. ChainOn(CopyLinks(c, b, new), live \ {b})
    <3> HIDE DEF c
    <3> QED BY <2>1, <2>2, OffChainWrite DEF CopyLinks, Sects, LinksType
  <2>4. ChainOn(links', live')
    <3> DEFINE d == CopyLinks(c, b, new)
    <3>1. links' = Chain(d, new) /\ live' = (live \ {b}) \cup {new}
      BY <1>4 DEF ResizeRealloc
    <3>2. ChainOn(d, live \ {b})
      BY <2>3
    <3> HIDE DEF d
    <3> QED BY <2>1, <3>1, <3>2, ChainAppends
  <2> QED BY <1>4, <2>1, <2>4 DEF ResizeRealloc, Growable, TeardownLeavesNothing, ChainOn
<1>5. ASSUME NEW b \in Blocks, NEW new \in Blocks, ResizeMalloc(b, new)
      PROVE  IInv'
  <2>1. b \in live /\ new \in Blocks \ live
    BY <1>5 DEF ResizeMalloc, Growable
  <2>2. ChainOn(CopyLinks(links, b, new), live)
    BY <2>1, OffChainWrite DEF CopyLinks, Sects, LinksType
  <2>3. ChainOn(links', live')
    <3> DEFINE d == CopyLinks(links, b, new)
    <3>1. links' = Chain(d, new) /\ live' = live \cup {new}
      BY <1>5 DEF ResizeMalloc
    <3>2. ChainOn(d, live)
      BY <2>2
    <3> HIDE DEF d
    <3> QED BY <2>1, <3>1, <3>2, ChainAppends
  <2> QED BY <1>5, <2>1, <2>3 DEF ResizeMalloc, Growable, TeardownLeavesNothing, ChainOn
<1>6. ASSUME NEW marked \in SUBSET live, GcStart(marked) PROVE IInv'
  BY <1>6 DEF GcStart, TeardownLeavesNothing, Sects
<1>7. CASE SweepKeep
  BY <1>7 DEF SweepKeep, TeardownLeavesNothing, LinksType, Sects
<1>8. CASE SweepFree
  BY <1>8, ReleaseKeepsChain DEF SweepFree, TeardownLeavesNothing, LinksType, Sects
<1>9. CASE SweepFault \/ SweepEnd \/ DelState
  BY <1>9 DEF SweepFault, SweepEnd, DelState, TeardownLeavesNothing
<1>10. CASE TeardownFree
  <2>1. links.tail \in live
    BY <1>10 DEF TeardownFree, ChainOn, ConsistentOn
  <2> QED BY <1>10, <2>1, ReleaseKeepsChain DEF TeardownFree, TeardownLeavesNothing
<1>11. CASE TeardownEnd
  BY <1>11, EmptyWhenTailIsState DEF TeardownEnd, TeardownLeavesNothing
<1>12. CASE UNCHANGED vars
  BY <1>12 DEF vars, TeardownLeavesNothing
<1> QED
  BY <1>1, <1>2, <1>3, <1>4, <1>5, <1>6, <1>7, <1>8, <1>9, <1>10, <1>11, <1>12
  DEF Next

-----------------------------------------------------------------------------
LEMMA Invariance == Spec => []IInv
BY InitIInv, NextIInv, PTL DEF Spec

(* Every link is a header or NULL, whatever a program does. *)
THEOREM TypeCorrect == Spec => []TypeOK
BY Invariance, PTL DEF IInv

(* No sequence of allocations, frees, growths, collections and deletions   *)
(* makes a link of an allocated block (the trace_next of the tail aside)   *)
(* lead to a freed one: resize, de_chain and chain of cee-resize.h are     *)
(* safe on any block, in any order.                                        *)
THEOREM ChainStaysConsistent == Spec => []LinksConsistent
<1>1. IInv => LinksConsistent
  BY DEF IInv, ChainOn, LinksConsistent
<1> QED BY <1>1, Invariance, PTL

(* cee_del of a state leaves no block behind, even when the forward chain  *)
(* is broken: the loop of state.c goes backward along trace_prev, which    *)
(* has no cycle, until the tail is the state, and then nothing is left.    *)
THEOREM NothingLeaks == Spec => []TeardownLeavesNothing
BY Invariance, PTL DEF IInv

-----------------------------------------------------------------------------
(***************************************************************************)
(* The sweep of state.c: a collection that returns has freed all it        *)
(* should, whatever the program grew before; and it touches allocated      *)
(* blocks only, if the program has grown no block but the newest.          *)
(***************************************************************************)

(* The headers in W are behind the cursor: the sweep has kept them, and    *)
(* all but the tail lead to each other or to the cursor.                   *)
SweptPast(W) ==
    /\ W \subseteq (live \cap keep) \cup {State}
    /\ head = State \/ State \in W
    /\ \A w \in W \ {links.tail} : links.next[w] \in W \cup {head}

SweepInv == pc = "sweep" => \E W \in SUBSET Sects : SweptPast(W)

-----------------------------------------------------------------------------
(* What is behind the cursor when it meets NULL is the whole chain.        *)
LEMMA AllSwept ==
    ASSUME IInv, NEW W \in SUBSET Sects, SweptPast(W), head = NULL
    PROVE  live \subseteq keep
<1> USE ChainAssumption DEF Sects
<1>1. ConsistentOn(links, live) /\ live \subseteq Blocks
  BY DEF IInv, ChainOn, TypeOK
<1>2. PICK rank \in [Sects -> Nat] : RankedOn(links, live, rank)
  BY DEF IInv, ChainOn, AcyclicOn
<1>3. State \in W
  BY DEF SweptPast
<1>4. ASSUME NEW b \in live \ W
      PROVE  links.prev[b] \in live \ W /\ rank[links.prev[b]] < rank[b]
  <2>1. links.prev[b] \in (live \cup {State}) \ {links.tail} /\ links.next[links.prev[b]] = b
    BY <1>1 DEF ConsistentOn
  <2>2. links.prev[b] \notin W
    BY <1>1, <2>1 DEF SweptPast
  <2> QED BY <1>2, <1>3, <2>1, <2>2 DEF RankedOn
<1>5. live \ W = {}
  <2> SUFFICES ASSUME live \ W # {} PROVE FALSE
    OBVIOUS
  <2> DEFINE T == {rank[b] : b \in live \ W}
  <2>1. T \subseteq Nat /\ T # {}
    BY <1>1
  <2>2. PICK m \in T : \A n \in T : ~ (<<n, m>> \in OpToRel(<, Nat))
    BY <2>1, NatLessThanWellFounded, WFMin
  <2>3. PICK b \in live \ W : m = rank[b]
    OBVIOUS
  <2>4. rank[links.prev[b]] \in T /\ <<rank[links.prev[b]], m>> \in OpToRel(<, Nat)
    BY <1>1, <1>4, <2>3 DEF OpToRel
  <2> QED BY <2>2, <2>4
<1> QED BY <1>1, <1>5 DEF SweptPast

(* The cursor moves on from a header that is kept. *)
LEMMA KeepMovesOn ==
    ASSUME IInv, SweepKeep, NEW W \in SUBSET Sects, SweptPast(W),
           NEW V \in SUBSET Sects, V = W \cup {head}
    PROVE  SweptPast(V)'
BY DEF SweepKeep, SweptPast

(* The cursor moves on from a block that is freed: the predecessor takes   *)
(* over its trace_next, which is where the cursor goes.                    *)
LEMMA FreeMovesOn ==
    ASSUME IInv, SweepFree, NEW W \in SUBSET Sects, SweptPast(W)
    PROVE  SweptPast(W)'
<1> USE ChainAssumption DEF Sects
<1>1. /\ ConsistentOn(links, live) /\ links \in LinksType /\ live \subseteq Blocks
      /\ keep \subseteq Blocks
  BY DEF IInv, ChainOn, TypeOK
<1>2. /\ head \in live \ keep /\ head \notin W /\ head # State
      /\ head' = links.next[head] /\ keep' = keep
      /\ links' = DeChain(links, head) /\ live' = live \ {head}
  BY <1>1 DEF SweepFree, SweptPast, Release
<1>3. /\ State \in W
      /\ W \subseteq (live' \cap keep') \cup {State}
  BY <1>2 DEF SweptPast
<1>4. links.prev[head] \in Sects
  BY <1>1, <1>2 DEF ConsistentOn
<1>5. ASSUME NEW w \in W \ {links'.tail} PROVE links'.next[w] \in W \cup {head'}
  <2>1. w \in (live \cup {State}) \ {head}
    BY <1>2, <1>3
  <2>2. CASE links.tail = head
    <3>1. links'.tail = links.prev[head]
      BY <1>2, <2>2 DEF DeChain
    <3>2. w # links.prev[head] /\ w # links.tail
      BY <2>1, <2>2, <3>1
    <3>3. links'.next[w] = links.next[w]
      BY <1>1, <1>2, <1>4, <2>2, <3>2 DEF DeChain, LinksType
    <3>4. links.next[w] # head
      BY <1>1, <2>1, <3>2 DEF ConsistentOn
    <3> QED BY <3>2, <3>3, <3>4 DEF SweptPast
  <2>3. CASE links.tail # head
    <3>1. w # links.tail
      BY <1>2, <2>3 DEF DeChain
    <3>2. links'.next[w] = IF w = links.prev[head] THEN links.next[head] ELSE links.next[w]
      BY <1>1, <1>4, <1>2, <2>3 DEF DeChain, LinksType
    <3>3. links.next[w] = head => w = links.prev[head]
      BY <1>1, <2>1, <3>1 DEF ConsistentOn
    <3> QED BY <1>2, <3>1, <3>2, <3>3 DEF SweptPast
  <2> QED BY <2>2, <2>3
<1> QED BY <1>3, <1>5 DEF SweptPast

LEMMA SweepInvariance == Spec => []SweepInv
<1>1. Init => SweepInv
  BY DEF Init, SweepInv
<1>2. IInv /\ SweepInv /\ [Next]_vars => SweepInv'
  <2> SUFFICES ASSUME IInv, SweepInv, [Next]_vars, pc' = "sweep"
               PROVE  \E W \in SUBSET Sects : SweptPast(W)'
    BY DEF SweepInv
  <2>1. ASSUME NEW marked \in SUBSET live, GcStart(marked)
        PROVE  SweptPast({})'
    BY <2>1 DEF GcStart, SweptPast
  <2>2. CASE SweepKeep
    <3>1. PICK W \in SUBSET Sects : SweptPast(W)
      BY <2>2 DEF SweepKeep, SweepInv
    <3>2. PICK V \in SUBSET Sects : V = W \cup {head}
      BY <2>2 DEF SweepKeep, IInv, TypeOK, Sects
    <3> QED BY <2>2, <3>1, <3>2, KeepMovesOn
  <2>3. CASE SweepFree
    <3>1. PICK W \in SUBSET Sects : SweptPast(W)
      BY <2>3 DEF SweepFree, SweepInv
    <3> QED BY <2>3, <3>1, FreeMovesOn
  <2>4. CASE UNCHANGED vars
    BY <2>4 DEF SweepInv, SweptPast, vars
  <2>5. CASE \/ Create \/ \E b \in Blocks : Alloc(b) \/ Del(b)
             \/ \E b, new \in Blocks : ResizeRealloc(b, new) \/ ResizeMalloc(b, new)
             \/ SweepFault \/ SweepEnd \/ DelState \/ TeardownFree \/ TeardownEnd
    BY <2>5 DEF Create, Alloc, Del, ResizeRealloc, ResizeMalloc, Growable,
                SweepFault, SweepEnd, DelState, TeardownFree, TeardownEnd
  <2> QED BY <2>1, <2>2, <2>3, <2>4, <2>5 DEF Next
<1> QED BY <1>1, <1>2, Invariance, PTL DEF Spec

(* A collection that returns has freed every block that its mark phase did *)
(* not reach, even if a resize before it broke the forward chain: then it  *)
(* may not return, but it never returns early.                             *)
THEOREM SweepFreesAll == Spec => SweepIsComplete
<1>1. IInv /\ SweepInv => (SweepEnd => live \subseteq keep)
  BY AllSwept DEF SweepEnd, SweepInv
<1>2. IInv /\ SweepInv /\ [Next]_vars => [SweepEnd => live \subseteq keep]_vars
  BY <1>1
<1> QED BY <1>2, Invariance, SweepInvariance, PTL DEF Spec, SweepIsComplete

-----------------------------------------------------------------------------
(* A program that grows the newest block only keeps the forward chain, too. *)
EndInv == links.next[links.tail] = NULL /\ SweepOnLiveBlock

(* Where trace_next leads from an allocated header. *)
LEMMA ForwardStaysLive ==
    ASSUME IInv, EndInv, NEW h \in live \cup {State}
    PROVE  links.next[h] \in (live \ {h}) \cup {NULL}
<1> USE ChainAssumption DEF Sects
<1>1. CASE h = links.tail
  BY <1>1 DEF EndInv
<1>2. CASE h # links.tail
  <2>1. /\ links.next[h] \in live /\ links.prev[links.next[h]] = h
        /\ live \subseteq Blocks /\ links \in LinksType
    BY <1>2 DEF IInv, ChainOn, ConsistentOn, TypeOK
  <2>2. PICK rank \in [Sects -> Nat] : RankedOn(links, live, rank)
    BY DEF IInv, ChainOn, AcyclicOn
  <2>3. rank[h] < rank[links.next[h]] /\ rank[h] \in Nat
    BY <2>1, <2>2 DEF RankedOn
  <2> QED BY <2>1, <2>3
<1> QED BY <1>1, <1>2

(* Taking a block out leaves a tail that ends the chain. *)
LEMMA DeChainEnds ==
    ASSUME IInv, EndInv, NEW h \in live
    PROVE  LET d == DeChain(links, h) IN d.next[d.tail] = NULL
<1> USE ChainAssumption DEF Sects
<1>1. /\ ConsistentOn(links, live) /\ links \in LinksType /\ live \subseteq Blocks
      /\ links.prev[h] \in Sects
  BY DEF IInv, ChainOn, ConsistentOn, TypeOK
<1>2. CASE links.tail = h
  BY <1>1, <1>2 DEF DeChain, LinksType
<1>3. CASE links.tail # h
  BY <1>1, <1>3 DEF DeChain, LinksType, ConsistentOn, EndInv
<1> QED BY <1>2, <1>3

LEMMA EndInvariance == ASSUME GrowOld = FALSE PROVE Spec => []EndInv
<1> USE ChainAssumption
<1>1. Init => EndInv
  BY DEF Init, EndInv, SweepOnLiveBlock, EmptyChain, Sects
<1>2. IInv /\ EndInv /\ [Next]_vars => EndInv'
  <2> SUFFICES ASSUME IInv, EndInv, [Next]_vars PROVE EndInv'
    OBVIOUS
  <2>0. /\ links \in LinksType /\ live \subseteq Blocks /\ links.tail \in Sects
    BY DEF IInv, TypeOK, LinksType
  <2> USE DEF EndInv, SweepOnLiveBlock
  <2>1. CASE Create
    BY <2>1 DEF Create, EmptyChain, Sects
  <2>2. ASSUME NEW b \in Blocks, Alloc(b) PROVE EndInv'
    <3>1. links.tail # b
      BY <2>2 DEF Alloc, IInv, ChainOn, ConsistentOn
    <3> QED BY <2>0, <2>2, <3>1 DEF Alloc, Chain, Zeroed, LinksType, Sects
  <2>3. ASSUME NEW b \in Blocks, Del(b) PROVE EndInv'
    BY <2>3, DeChainEnds DEF Del, Release
  <2>4. ASSUME NEW b \in Blocks, NEW new \in Blocks, ResizeRealloc(b, new) PROVE EndInv'
    <3>1. b = links.tail /\ b \in live /\ new \notin live \ {b} /\ pc' = "run"
      BY <2>4 DEF ResizeRealloc, Growable
    <3>2. /\ links.prev[b] \in (live \cup {State}) \ {b}
          /\ links.prev[b] # new
      BY <3>1 DEF IInv, ChainOn, ConsistentOn
    <3> DEFINE c == CopyLinks(DeChain(links, b), b, new)
    <3>3. /\ c.next[new] = NULL /\ c.tail = links.prev[b] /\ c.next \in [Sects -> Sects \cup {NULL}]
      BY <2>0, <3>1, <3>2 DEF CopyLinks, DeChain, LinksType, Sects
    <3>4. links' = Chain(c, new)
      BY <2>4 DEF ResizeRealloc
    <3> HIDE DEF c
    <3> QED BY <3>1, <3>2, <3>3, <3>4 DEF Chain, Sects
  <2>5. ASSUME NEW b \in Blocks, NEW new \in Blocks, ResizeMalloc(b, new) PROVE EndInv'
    <3>1. b = links.tail /\ b \in live /\ new \notin live /\ pc' = "run"
      BY <2>5 DEF ResizeMalloc, Growable
    <3> DEFINE c == CopyLinks(links, b, new)
    <3>2. c.next[new] = NULL /\ c.tail = b /\ c.next \in [Sects -> Sects \cup {NULL}]
      BY <2>0, <3>1 DEF CopyLinks, LinksType, Sects
    <3>3. links' = Chain(c, new)
      BY <2>5 DEF ResizeMalloc
    <3> HIDE DEF c
    <3> QED BY <3>1, <3>2, <3>3 DEF Chain, Sects
  <2>6. ASSUME NEW marked \in SUBSET live, GcStart(marked) PROVE EndInv'
    BY <2>6 DEF GcStart
  <2>7. CASE SweepKeep
    BY <2>7, ForwardStaysLive DEF SweepKeep
  <2>8. CASE SweepFree
    BY <2>8, ForwardStaysLive, DeChainEnds DEF SweepFree, Release
  <2>9. CASE SweepFault \/ SweepEnd \/ DelState \/ TeardownEnd
    BY <2>9 DEF SweepFault, SweepEnd, DelState, TeardownEnd
  <2>10. CASE TeardownFree
    <3>1. links.tail \in live
      BY <2>10 DEF TeardownFree, IInv, ChainOn, ConsistentOn
    <3> QED BY <2>10, <3>1, DeChainEnds DEF TeardownFree, Release
  <2>11. CASE UNCHANGED vars
    BY <2>11 DEF vars
  <2> QED BY <2>1, <2>2, <2>3, <2>4, <2>5, <2>6, <2>7, <2>8, <2>9, <2>10, <2>11 DEF Next
<1> QED BY <1>1, <1>2, Invariance, PTL DEF Spec

(* A collection touches allocated blocks only, as long as the program has  *)
(* grown no block but the one it registered last (chain_hang shows that    *)
(* the condition is needed).                                               *)
THEOREM SweepStaysOnLiveBlocks ==
    ASSUME GrowOld = FALSE PROVE Spec => []SweepOnLiveBlock
BY EndInvariance, PTL DEF EndInv

-----------------------------------------------------------------------------
(***************************************************************************)
(* The refinement of CeeTracked: the chain is a list of blocks, s, and     *)
(* each step changes it as CeeTracked says.                                *)
(***************************************************************************)

(* trace_prev spells s from the tail to the state; s has the blocks in L,  *)
(* each once.                                                              *)
Ordered(c, L, s) ==
    /\ s \in Seq(L) /\ IsFiniteSet(L) /\ Len(s) = Cardinality(L)
    /\ c.tail = IF Len(s) = 0 THEN State ELSE s[Len(s)]
    /\ \A i \in 1..Len(s) : c.prev[s[i]] = IF i = 1 THEN State ELSE s[i - 1]
    /\ \A i, j \in 1..Len(s) : s[i] = s[j] => i = j
    /\ \A b \in L : \E i \in 1..Len(s) : s[i] = b

(* Following trace_prev from the tail comes to the blocks of s in turn and *)
(* stays at the state then.                                                *)
LEMMA PredecessorsAre ==
    ASSUME IsFiniteSet(Blocks), live \subseteq Blocks, NEW s, Ordered(links, live, s)
    PROVE  /\ Len(s) \in 0..Cardinality(Blocks) /\ Cardinality(Blocks) \in Nat
           /\ Predecessor = [n \in 0..Cardinality(Blocks) |->
                                IF n < Len(s) THEN s[Len(s) - n] ELSE State]
<1> USE ChainAssumption
<1> DEFINE N == Cardinality(Blocks)
           m == Len(s)
           Next1(f, n) == IF n = 0 THEN links.tail ELSE IF f[n - 1] = State THEN State
                                                     ELSE links.prev[f[n - 1]]
           g == [n \in 0..N |-> IF n < m THEN s[m - n] ELSE State]
<1>1. N \in Nat /\ m \in 0..N
  <2>1. N \in Nat /\ Cardinality(live) \in Nat /\ Cardinality(live) <= N
    BY FS_Subset, FS_CardinalityType
  <2> QED
    BY <2>1 DEF Ordered
<1>2. \A i \in 1..m : s[i] \in live /\ s[i] # State
  BY DEF Ordered
<1>3. g = [n \in 0..N |-> Next1(g, n)]
  <2>1. ASSUME NEW n \in 0..N PROVE g[n] = Next1(g, n)
    <3>1. CASE n = 0
      BY <1>1, <3>1 DEF Ordered
    <3>2. CASE n # 0 /\ n - 1 < m
      <4>1. g[n - 1] = s[m - (n - 1)] /\ m - (n - 1) \in 1..m /\ n - 1 \in 0..N
        BY <1>1, <3>2
      <4>2. links.prev[g[n - 1]] = IF m - (n - 1) = 1 THEN State ELSE s[m - n]
        BY <1>1, <4>1 DEF Ordered
      <4>3. g[n] = IF n < m THEN s[m - n] ELSE State
        OBVIOUS
      <4>4. n < m <=> m - (n - 1) # 1
        BY <1>1, <3>2
      <4> QED
        BY <1>2, <3>2, <4>1, <4>2, <4>3, <4>4
    <3>3. CASE n # 0 /\ ~ (n - 1 < m)
      BY <1>1, <3>3
    <3> QED
      BY <3>1, <3>2, <3>3
  <2> QED
    BY <2>1
<1> HIDE DEF g
<1>4. ASSUME NEW f, f = [n \in 0..N |-> Next1(f, n)] PROVE f = g
  <2>1. DOMAIN f = 0..N /\ DOMAIN g = 0..N
    BY <1>3, <1>4
  <2>2. \A n \in 0..N : f[n] = g[n]
    <3> SUFFICES ASSUME \E n \in 0..N : f[n] # g[n] PROVE FALSE
      OBVIOUS
    <3> DEFINE T == {n \in 0..N : f[n] # g[n]}
    <3>1. T \subseteq Nat /\ T # {}
      BY <1>1
    <3>2. PICK n \in T : \A k \in T : ~ (<<k, n>> \in OpToRel(<, Nat))
      BY <3>1, NatLessThanWellFounded, WFMin
    <3>3. f[n] = Next1(f, n) /\ g[n] = Next1(g, n)
      BY <1>3, <1>4
    <3>4. n # 0 => n - 1 \notin T
      <4> SUFFICES ASSUME n # 0, n - 1 \in T PROVE FALSE
        OBVIOUS
      <4>1. n \in Nat /\ n - 1 \in Nat /\ n - 1 < n
        BY <3>1
      <4>2. <<n - 1, n>> \in OpToRel(<, Nat)
        BY <4>1 DEF OpToRel
      <4> QED
        BY <3>2, <4>2
    <3>5. n # 0 => f[n - 1] = g[n - 1]
      BY <1>1, <3>4
    <3> QED
      BY <3>3, <3>5
  <2> QED
    BY <1>3, <1>4, <2>1, <2>2
<1>5. Predecessor = CHOOSE f : f = [n \in 0..N |-> Next1(f, n)]
  BY DEF Predecessor
<1>6. Predecessor = g
  <2> HIDE DEF Next1
  <2> QED
    BY <1>3, <1>4, <1>5
<1> QED
  BY <1>1, <1>6 DEF g

LEMMA BelowSize ==
    ASSUME NEW m \in Nat
    PROVE  Cardinality(0..m - 1) = m
<1> DEFINE k == m - 1
<1>1. k \in Int /\ 0 \in Int
  OBVIOUS
<1> HIDE DEF k
<1>2. Cardinality(0..k) = IF 0 > k THEN 0 ELSE k - 0 + 1
  BY <1>1, FS_Interval
<1>3. Cardinality(0..k) = k + 1
  <2>1. k >= -1
    BY DEF k
  <2> QED
    BY <1>1, <1>2, <2>1
<1> QED
  BY <1>3 DEF k

LEMMA ReadsOrder ==
    ASSUME IsFiniteSet(Blocks)
    PROVE  live \subseteq Blocks => \A s : Ordered(links, live, s) => TrackedSeq = s
<1> SUFFICES ASSUME live \subseteq Blocks, NEW s, Ordered(links, live, s) PROVE TrackedSeq = s
  OBVIOUS
<1> DEFINE N == Cardinality(Blocks)
           m == Len(s)
           K == {k \in DOMAIN Predecessor : Predecessor[k] # State}
<1>1. /\ N \in Nat /\ m \in 0..N
      /\ Predecessor = [n \in 0..N |-> IF n < m THEN s[m - n] ELSE State]
  BY PredecessorsAre
<1>2. s \in Seq(live) /\ \A i \in 1..m : s[i] # State
  BY ChainAssumption DEF Ordered
<1>3. K = 0..m - 1
  BY <1>1, <1>2
<1>4. Cardinality(K) = m
  <2>1. m \in Nat
    BY <1>1
  <2> HIDE DEF m, K
  <2>2. Cardinality(0..m - 1) = m
    BY <2>1, BelowSize
  <2> QED
    BY <1>3, <2>2
<1>5. TrackedSeq = [i \in 1..m |-> Predecessor[m - i]]
  BY <1>4 DEF TrackedSeq
<1>6. \A i \in 1..m : Predecessor[m - i] = s[i]
  BY <1>1
<1>7. TrackedSeq = [i \in 1..m |-> s[i]]
  BY <1>5, <1>6
<1> QED
  BY <1>2, <1>7

(* Taking an element out of a list moves those behind it up. *)
LEMMA WithoutIs ==
    ASSUME NEW L, NEW s \in Seq(L), NEW i \in 1..Len(s),
           \A j, k \in 1..Len(s) : s[j] = s[k] => j = k
    PROVE  /\ Tracked!Without(s, s[i]) \in Seq(L)
           /\ Len(Tracked!Without(s, s[i])) = Len(s) - 1
           /\ \A j \in 1..Len(s) - 1 :
                 Tracked!Without(s, s[i])[j] = IF j < i THEN s[j] ELSE s[j + 1]
<1> DEFINE a == SubSeq(s, 1, i - 1)
           b == SubSeq(s, i + 1, Len(s))
           n == Len(s)
<1>1. (CHOOSE k \in DOMAIN s : s[k] = s[i]) = i
  OBVIOUS
<1>2. Tracked!Without(s, s[i]) = a \o b
  BY <1>1 DEF Tracked!Without, Tracked!RemoveAt
<1>3. n \in Nat /\ \A k \in 1..n : s[k] \in L
  OBVIOUS
<1>4. a \in Seq(L) /\ Len(a) = i - 1 /\ \A j \in 1..i - 1 : a[j] = s[j]
  <2>1. \A k \in 1..i - 1 : s[k] \in L
    BY <1>3
  <2>2. 1 \in Int /\ i - 1 \in Int
    OBVIOUS
  <2> QED
    BY <2>1, <2>2, SubSeqProperties
<1>5. b \in Seq(L) /\ Len(b) = n - i /\ \A j \in 1..n - i : b[j] = s[i + j]
  <2>1. \A k \in i + 1..n : s[k] \in L
    BY <1>3
  <2>2. i + 1 \in Int /\ n \in Int
    BY <1>3
  <2>3. /\ b \in Seq(L) /\ Len(b) = IF i + 1 <= n THEN n - (i + 1) + 1 ELSE 0
        /\ \A j \in 1..n - (i + 1) + 1 : b[j] = s[(i + 1) + j - 1]
    BY <2>1, <2>2, SubSeqProperties
  <2> HIDE DEF b
  <2> QED
    BY <1>3, <2>3
<1> HIDE DEF a, b
<1>6. /\ a \o b \in Seq(L) /\ Len(a \o b) = (i - 1) + (n - i)
      /\ \A j \in 1..(i - 1) + (n - i) : (a \o b)[j] = IF j <= i - 1 THEN a[j] ELSE b[j - (i - 1)]
  <2>1. /\ a \o b \in Seq(L) /\ Len(a \o b) = Len(a) + Len(b)
        /\ \A j \in 1..Len(a) + Len(b) :
              (a \o b)[j] = IF j <= Len(a) THEN a[j] ELSE b[j - Len(a)]
    <3>1. a \in Seq(L) /\ b \in Seq(L)
      BY <1>4, <1>5
    <3> QED
      BY <3>1, ConcatProperties
  <2> QED
    BY <1>4, <1>5, <2>1
<1>7. Len(a \o b) = n - 1
  BY <1>3, <1>6
<1>8. ASSUME NEW j \in 1..n - 1 PROVE (a \o b)[j] = IF j < i THEN s[j] ELSE s[j + 1]
  <2>1. j \in 1..(i - 1) + (n - i)
    BY <1>3
  <2>2. CASE j < i
    BY <1>3, <1>4, <1>6, <2>1, <2>2
  <2>3. CASE ~ (j < i)
    <3>1. ~ (j <= i - 1) /\ j - (i - 1) \in 1..n - i /\ i + (j - (i - 1)) = j + 1
      BY <1>3, <2>3
    <3>2. b[j - (i - 1)] = s[i + (j - (i - 1))]
      BY <1>5, <3>1
    <3> QED
      BY <1>6, <2>1, <2>3, <3>1, <3>2
  <2> QED
    BY <2>2, <2>3
<1> QED
  BY <1>2, <1>6, <1>7, <1>8

(* chain puts a block at the end of the list. *)
LEMMA OrderAppends ==
    ASSUME NEW c \in LinksType, NEW L \in SUBSET Blocks, NEW h \in Blocks \ L,
           NEW s, Ordered(c, L, s)
    PROVE  Ordered(Chain(c, h), L \cup {h}, Append(s, h))
<1> USE ChainAssumption
<1> DEFINE d == Chain(c, h)
           t == Append(s, h)
           n == Len(s)
<1>1. /\ d.tail = h
      /\ \A x \in Sects : d.prev[x] = IF x = h THEN c.tail ELSE c.prev[x]
  BY DEF Chain, LinksType, Sects
<1>2. /\ t \in Seq(L \cup {h}) /\ Len(t) = n + 1 /\ n \in Nat /\ t[n + 1] = h
      /\ \A i \in 1..n : t[i] = s[i] /\ s[i] \in L
  BY DEF Ordered
<1>3. IsFiniteSet(L \cup {h}) /\ Cardinality(L \cup {h}) = n + 1
  BY FS_AddElement DEF Ordered
<1> HIDE DEF t, d
<1>4. \A i, j \in 1..n + 1 : t[i] = t[j] => i = j
  BY <1>2 DEF Ordered
<1>5. \A b \in L \cup {h} : \E i \in 1..n + 1 : t[i] = b
  BY <1>2 DEF Ordered
<1>6. ASSUME NEW i \in 1..n + 1 PROVE d.prev[t[i]] = IF i = 1 THEN State ELSE t[i - 1]
  <2>1. CASE i = n + 1
    BY <1>1, <1>2, <2>1 DEF Ordered, Sects
  <2>2. CASE i # n + 1
    <3>1. i \in 1..n /\ t[i] = s[i] /\ s[i] \in L /\ (i # 1 => t[i - 1] = s[i - 1])
      BY <1>2, <2>2
    <3>2. d.prev[s[i]] = c.prev[s[i]]
      BY <1>1, <3>1 DEF Sects
    <3> QED
      BY <3>1, <3>2 DEF Ordered
  <2> QED
    BY <2>1, <2>2
<1>7. d.tail = IF Len(t) = 0 THEN State ELSE t[Len(t)]
  BY <1>1, <1>2
<1>8. Ordered(d, L \cup {h}, t)
  BY <1>2, <1>3, <1>4, <1>5, <1>6, <1>7 DEF Ordered
<1> QED
  BY <1>8 DEF d, t

(* Links of other headers do not matter. *)
LEMMA OrderOff ==
    ASSUME NEW c, NEW d, NEW L, NEW s, Ordered(c, L, s),
           d.tail = c.tail, \A x \in L : d.prev[x] = c.prev[x]
    PROVE  Ordered(d, L, s)
<1>1. \A i \in 1..Len(s) : s[i] \in L
  BY DEF Ordered
<1> QED
  BY <1>1 DEF Ordered

(* de_chain takes a block out of the list. *)
LEMMA OrderRemoves ==
    ASSUME NEW c, NEW L \in SUBSET Blocks, ChainOn(c, L), NEW h \in L,
           NEW s, Ordered(c, L, s)
    PROVE  Ordered(DeChain(c, h), L \ {h}, Tracked!Without(s, h))
<1> USE ChainAssumption
<1> DEFINE d == DeChain(c, h)
           t == Tracked!Without(s, h)
           n == Len(s)
<1>1. c \in LinksType /\ ConsistentOn(c, L)
  BY DEF ChainOn
<1>2. /\ s \in Seq(L) /\ n \in Nat /\ \A i, j \in 1..n : s[i] = s[j] => i = j
      /\ \A i \in 1..n : s[i] \in L /\ c.prev[s[i]] = IF i = 1 THEN State ELSE s[i - 1]
      /\ c.tail = IF n = 0 THEN State ELSE s[n]
  BY DEF Ordered
<1>3. PICK i \in 1..n : s[i] = h
  BY DEF Ordered
<1>4. /\ t \in Seq(L) /\ Len(t) = n - 1
      /\ \A j \in 1..n - 1 : t[j] = IF j < i THEN s[j] ELSE s[j + 1]
  <2>1. /\ s \in Seq(L) /\ i \in 1..Len(s)
        /\ \A j, k \in 1..Len(s) : s[j] = s[k] => j = k
    BY <1>2
  <2>2. /\ Tracked!Without(s, s[i]) \in Seq(L)
        /\ Len(Tracked!Without(s, s[i])) = Len(s) - 1
        /\ \A j \in 1..Len(s) - 1 :
              Tracked!Without(s, s[i])[j] = IF j < i THEN s[j] ELSE s[j + 1]
    BY ONLY <2>1, WithoutIs
  <2> QED
    BY <1>3, <2>2
<1>5. IsFiniteSet(L \ {h}) /\ Cardinality(L \ {h}) = n - 1
  BY FS_RemoveElement DEF Ordered
<1> HIDE DEF t, d
<1>6. \A j \in 1..n - 1 : t[j] # h
  BY <1>2, <1>3, <1>4
<1>7. t \in Seq(L \ {h})
  <2>1. \A j \in 1..Len(t) : t[j] \in L \ {h}
    BY <1>2, <1>4, <1>6
  <2>2. t \in [1..Len(t) -> L] /\ Len(t) \in Nat
    BY <1>4
  <2>3. t \in [1..Len(t) -> L \ {h}]
    BY <2>1, <2>2
  <2> QED
    BY <2>2, <2>3
<1>8. \A j, k \in 1..n - 1 : t[j] = t[k] => j = k
  <2> SUFFICES ASSUME NEW j \in 1..n - 1, NEW k \in 1..n - 1, t[j] = t[k] PROVE j = k
    OBVIOUS
  <2> DEFINE At(x) == IF x < i THEN x ELSE x + 1
  <2>1. At(j) \in 1..n /\ At(k) \in 1..n /\ t[j] = s[At(j)] /\ t[k] = s[At(k)]
    BY <1>2, <1>4
  <2>2. At(j) = At(k)
    BY <1>2, <2>1
  <2> QED
    BY <1>2, <2>2
<1>9. ASSUME NEW b \in L \ {h} PROVE \E j \in 1..n - 1 : t[j] = b
  <2>1. PICK k \in 1..n : s[k] = b
    BY DEF Ordered
  <2>2. k # i
    BY <1>3, <2>1
  <2>3. CASE k < i
    <3>1. k \in 1..n - 1 /\ t[k] = b
      BY <1>2, <1>4, <2>1, <2>3
    <3> QED
      BY <3>1
  <2>4. CASE k > i
    <3>1. k - 1 \in 1..n - 1 /\ ~ (k - 1 < i) /\ (k - 1) + 1 = k
      BY <1>2, <2>4
    <3>2. t[k - 1] = b
      BY <1>4, <2>1, <3>1
    <3> QED
      BY <3>1, <3>2
  <2> QED
    BY <1>2, <2>2, <2>3, <2>4
<1>10. c.prev[h] = IF i = 1 THEN State ELSE s[i - 1]
  BY <1>2, <1>3
<1>11. /\ d.tail = IF n - 1 = 0 THEN State ELSE t[n - 1]
       /\ \A j \in 1..n - 1 : d.prev[t[j]] = IF j = 1 THEN State ELSE t[j - 1]
  <2>1. CASE i = n
    <3>1. c.tail = h /\ d.tail = c.prev[h] /\ d.prev = c.prev
      BY <1>1, <1>2, <1>3, <2>1 DEF d, DeChain, LinksType
    <3>2. \A j \in 1..n - 1 : t[j] = s[j]
      BY <1>2, <1>4, <2>1
    <3> QED
      BY <1>2, <1>10, <2>1, <3>1, <3>2
  <2>2. CASE i # n
    <3>1. i + 1 \in 1..n /\ c.tail # h /\ c.tail = s[n] /\ i < n
      BY <1>2, <1>3, <2>2
    <3>2. c.next[h] = s[i + 1] /\ s[i + 1] \in L
      <4>1. c.prev[s[i + 1]] = h /\ s[i + 1] \in L
        BY <1>2, <1>3, <3>1
      <4> QED
        BY <1>1, <4>1 DEF ConsistentOn
    <3>3. /\ d.tail = c.tail
          /\ \A x \in Sects : d.prev[x] = IF x = s[i + 1] THEN c.prev[h] ELSE c.prev[x]
      <4>1. s[i + 1] # NULL /\ s[i + 1] \in Sects
        BY <3>2 DEF Sects
      <4> QED
        BY <1>1, <3>1, <3>2, <4>1 DEF d, DeChain, LinksType
    <3>4. t[n - 1] = s[n] /\ n - 1 # 0
      BY <1>2, <1>4, <3>1
    <3>5. ASSUME NEW j \in 1..n - 1 PROVE d.prev[t[j]] = IF j = 1 THEN State ELSE t[j - 1]
      <4>1. t[j] \in L /\ t[j] \in Sects
        BY <1>2, <1>4 DEF Sects
      <4>2. CASE j < i
        <5>1. t[j] = s[j] /\ j \in 1..n /\ s[j] # s[i + 1] /\ (j # 1 => t[j - 1] = s[j - 1])
          <6>1. j \in 1..n /\ j # i + 1 /\ t[j] = s[j]
            BY <1>2, <1>4, <4>2
          <6>2. j # 1 => j - 1 \in 1..n - 1 /\ j - 1 < i
            BY <1>2, <4>2
          <6>3. j # 1 => t[j - 1] = s[j - 1]
            BY <1>4, <6>2
          <6>4. s[j] # s[i + 1]
            BY <1>2, <3>1, <6>1
          <6> QED
            BY <6>1, <6>3, <6>4
        <5> QED
          BY <1>2, <3>3, <4>1, <5>1
      <4>3. CASE j = i
        <5>1. t[j] = s[i + 1] /\ (j # 1 => t[j - 1] = s[i - 1])
          BY <1>2, <1>4, <4>3
        <5> QED
          BY <1>10, <3>3, <4>1, <4>3, <5>1
      <4>4. CASE j > i
        <5>1. /\ t[j] = s[j + 1] /\ j + 1 \in 1..n /\ s[j + 1] # s[i + 1] /\ t[j - 1] = s[j]
              /\ j # 1 /\ j + 1 # 1 /\ (j + 1) - 1 = j
          <6>1. j \in 1..n - 1 /\ j - 1 \in 1..n - 1 /\ ~ (j < i) /\ ~ (j - 1 < i) /\ (j - 1) + 1 = j
            BY <1>2, <4>4
          <6>2. j + 1 \in 1..n /\ j + 1 # i + 1
            BY <1>2, <4>4
          <6> QED
            BY <1>2, <1>4, <3>1, <6>1, <6>2
        <5>2. c.prev[s[j + 1]] = s[j]
          BY <1>2, <5>1
        <5> QED
          BY <3>3, <4>1, <5>1, <5>2
      <4> QED
        BY <1>2, <4>2, <4>3, <4>4
    <3> QED
      BY <3>1, <3>3, <3>4, <3>5
  <2> QED
    BY <2>1, <2>2
<1>12. Ordered(d, L \ {h}, t)
  BY <1>2, <1>4, <1>5, <1>7, <1>8, <1>9, <1>11 DEF Ordered
<1> QED
  BY <1>12 DEF d, t

(* The list of an empty chain. *)
LEMMA OrderEmpty == Ordered(EmptyChain, {}, <<>>)
<1>1. IsFiniteSet({}) /\ Cardinality({}) = 0
  BY FS_EmptySet
<1>2. <<>> \in Seq({}) /\ Len(<<>>) = 0
  OBVIOUS
<1> QED
  BY <1>1, <1>2 DEF Ordered, EmptyChain

(* What a list says about the blocks in it. *)
LEMMA OrderHolds ==
    ASSUME NEW c, NEW L \in SUBSET Blocks, NEW s, Ordered(c, L, s)
    PROVE  /\ s \in Seq(L) /\ Tracked!ToSet(s) = L
           /\ c.tail = State <=> s = <<>>
<1> USE ChainAssumption
<1>1. s \in Seq(L) /\ \A i \in 1..Len(s) : s[i] \in L
  BY DEF Ordered
<1>2. Tracked!ToSet(s) = {s[i] : i \in 1..Len(s)}
  BY <1>1 DEF Tracked!ToSet
<1>3. \A b \in L : \E i \in 1..Len(s) : s[i] = b
  BY DEF Ordered
<1>4. Tracked!ToSet(s) = L
  <2> DEFINE T == {s[i] : i \in 1..Len(s)}
  <2>1. \A b \in L : b \in T
    BY <1>3
  <2>2. \A b \in T : b \in L
    BY <1>1
  <2> HIDE DEF T
  <2>3. T = L
    BY <2>1, <2>2
  <2> QED
    BY <1>2, <2>3 DEF T
<1>5. CASE s = <<>>
  BY <1>1, <1>4, <1>5 DEF Ordered
<1>6. CASE s # <<>>
  <2>1. Len(s) # 0 /\ Len(s) \in 1..Len(s)
    BY <1>1, <1>6
  <2>2. c.tail = s[Len(s)]
    BY <2>1 DEF Ordered
  <2> QED
    BY <1>1, <1>4, <1>6, <2>1, <2>2
<1> QED
  BY <1>1, <1>4, <1>5, <1>6

(* Leaving out the newest block leaves the front of the list. *)
LEMMA WithoutNewest ==
    ASSUME NEW c, NEW L \in SUBSET Blocks, NEW s, Ordered(c, L, s), s # <<>>
    PROVE  c.tail \in L /\ Tracked!Without(s, c.tail) = Tracked!Front(s)
<1> DEFINE n == Len(s)
           t == Tracked!Without(s, s[n])
           f == Tracked!Front(s)
<1>1. /\ s \in Seq(L) /\ n \in Nat /\ n # 0 /\ n \in 1..n
      /\ \A i, j \in 1..n : s[i] = s[j] => i = j
  BY DEF Ordered
<1>2. c.tail = s[n] /\ s[n] \in L
  BY <1>1 DEF Ordered
<1>3. /\ t \in Seq(L) /\ Len(t) = n - 1
      /\ \A j \in 1..n - 1 : t[j] = IF j < n THEN s[j] ELSE s[j + 1]
  <2>1. /\ s \in Seq(L) /\ n \in 1..Len(s)
        /\ \A j, k \in 1..Len(s) : s[j] = s[k] => j = k
    BY <1>1
  <2>2. /\ Tracked!Without(s, s[n]) \in Seq(L)
        /\ Len(Tracked!Without(s, s[n])) = Len(s) - 1
        /\ \A j \in 1..Len(s) - 1 :
              Tracked!Without(s, s[n])[j] = IF j < n THEN s[j] ELSE s[j + 1]
    BY ONLY <2>1, WithoutIs
  <2> QED
    BY <2>2
<1>4. f \in Seq(L) /\ Len(f) = n - 1 /\ \A j \in 1..n - 1 : f[j] = s[j]
  <2> DEFINE k == n - 1
             g == SubSeq(s, 1, k)
  <2>1. f = g
    BY DEF Tracked!Front
  <2>2. (\A j \in 1..k : s[j] \in L) /\ 1 \in Int /\ k \in Nat
    BY <1>1
  <2>3. /\ g \in Seq(L) /\ Len(g) = IF 1 <= k THEN k - 1 + 1 ELSE 0
        /\ \A j \in 1..k - 1 + 1 : g[j] = s[1 + j - 1]
    <3> HIDE DEF k
    <3> QED
      BY <2>2, SubSeqProperties
  <2> HIDE DEF g, k
  <2>4. g \in Seq(L) /\ Len(g) = k /\ \A j \in 1..k : g[j] = s[j]
    BY <2>2, <2>3
  <2> QED
    BY <2>1, <2>4 DEF k
<1>5. t = f
  <2> HIDE DEF t, f
  <2>1. \A j \in 1..n - 1 : t[j] = f[j]
    BY <1>1, <1>3, <1>4
  <2>2. \A j \in 1..Len(t) : t[j] = f[j]
    BY <1>3, <2>1
  <2> QED
    BY <1>3, <1>4, <2>2, SeqEqual
<1> QED
  BY <1>2, <1>5

(* Every step from a state whose chain is the list s changes the list as   *)
(* CeeTracked says, and leaves a chain that is a list.                     *)
LEMMA StepsTrack ==
    ASSUME GrowOld = FALSE, IsFiniteSet(Blocks), IInv, SweepInv, EndInv, pc # "fault",
           NEW s, Ordered(links, live, s), TrackedSeq = s,
           \A t : Ordered(links', live', t) => TrackedSeq' = t,
           [Next]_vars
    PROVE  /\ [Tracked!Next]_(Tracked!vars)
           /\ \E t : Ordered(links', live', t)
           /\ pc' # "fault"
<1> USE ChainAssumption
<1> DEFINE Follows(t) == Ordered(links', live', t)
           Step == [Tracked!Next]_(Tracked!vars)
           Goal == Step /\ (\E t : Follows(t)) /\ pc' # "fault"
<1> SUFFICES Goal
  OBVIOUS
<1>1. /\ links \in LinksType /\ live \in SUBSET Blocks /\ ChainOn(links, live)
      /\ ConsistentOn(links, live)
  BY DEF IInv, TypeOK, ChainOn
<1>2. /\ s \in Seq(live) /\ Tracked!ToSet(TrackedSeq) = live
      /\ links.tail = State <=> s = <<>>
  BY <1>1, OrderHolds
<1>3. Tracked!Free = Blocks \ live
  BY <1>2 DEF Tracked!Free
<1>4. ASSUME NEW t, Follows(t) PROVE TrackedSeq' = t
  BY <1>4
<1>5. ASSUME NEW b \in live
      PROVE  Ordered(DeChain(links, b), live \ {b}, Tracked!Without(s, b))
  BY <1>1, OrderRemoves
<1>6. CASE Create
  <2>1. Follows(<<>>)
    BY <1>6, OrderEmpty DEF Create
  <2>2. TrackedSeq' = <<>>
    BY <1>4, <2>1
  <2>3. Tracked!Create /\ pc' = "run"
    BY <1>6, <2>2 DEF Create, Tracked!Create
  <2> QED
    BY <2>1, <2>3 DEF Tracked!Next
<1>7. ASSUME NEW b \in Blocks, Alloc(b) PROVE Goal
  <2>1. /\ pc = "run" /\ pc' = "run" /\ b \in Blocks \ live
        /\ links' = Chain(Zeroed(links, b), b) /\ live' = live \cup {b}
    BY <1>7 DEF Alloc
  <2> DEFINE c == Zeroed(links, b)
  <2>2. c \in LinksType /\ Ordered(c, live, s)
    <3>1. c \in LinksType /\ c.tail = links.tail /\ \A x \in live : c.prev[x] = links.prev[x]
      BY <1>1, <2>1 DEF Zeroed, LinksType, Sects
    <3> HIDE DEF c
    <3> QED
      BY <3>1, OrderOff
  <2>3. Follows(Append(s, b))
    <3> HIDE DEF c
    <3>1. Ordered(Chain(c, b), live \cup {b}, Append(s, b))
      BY <1>1, <2>1, <2>2, OrderAppends
    <3> QED
      BY <2>1, <3>1 DEF c
  <2>4. TrackedSeq' = Append(s, b)
    BY <1>4, <2>3
  <2>5. b \in Tracked!Free /\ Tracked!Register(b)
    BY <1>3, <2>1, <2>4 DEF Tracked!Register, Tracked!Running
  <2> QED
    BY <2>1, <2>3, <2>5 DEF Tracked!Next
<1>8. ASSUME NEW b \in Blocks, Del(b) PROVE Goal
  <2>1. /\ pc = "run" /\ pc' = "run" /\ b \in live
        /\ links' = DeChain(links, b) /\ live' = live \ {b}
    BY <1>8 DEF Del, Release
  <2>2. Follows(Tracked!Without(s, b))
    BY <1>5, <2>1
  <2>3. TrackedSeq' = Tracked!Without(s, b)
    BY <1>4, <2>2
  <2>4. b \in Tracked!ToSet(TrackedSeq) /\ Tracked!Forget(b)
    BY <1>2, <2>1, <2>3 DEF Tracked!Forget, Tracked!Running
  <2> QED
    BY <2>1, <2>2, <2>4 DEF Tracked!Next
<1>9. ASSUME NEW b \in Blocks, NEW new \in Blocks, ResizeRealloc(b, new) PROVE Goal
  <2> DEFINE d == DeChain(links, b)
             c == CopyLinks(d, b, new)
             t == Tracked!Without(s, b)
  <2>1. /\ pc = "run" /\ pc' = "run" /\ b \in live /\ new \in Blocks \ (live \ {b})
        /\ links' = Chain(c, new) /\ live' = (live \ {b}) \cup {new}
    BY <1>9 DEF ResizeRealloc, Growable
  <2>2. d \in LinksType /\ Ordered(d, live \ {b}, t)
    BY <1>1, <1>5, <2>1, DeChainRemoves DEF ChainOn
  <2> HIDE DEF d, t
  <2>3. c \in LinksType /\ c.tail = d.tail /\ \A x \in live \ {b} : c.prev[x] = d.prev[x]
    BY <1>1, <2>1, <2>2 DEF CopyLinks, LinksType, Sects
  <2> HIDE DEF c
  <2>4. Ordered(c, live \ {b}, t)
    BY <2>2, <2>3, OrderOff
  <2>5. Ordered(Chain(c, new), (live \ {b}) \cup {new}, Append(t, new))
    <3>1. live \ {b} \in SUBSET Blocks
      BY <1>1
    <3> QED
      BY <2>1, <2>3, <2>4, <3>1, OrderAppends
  <2>6. Follows(Append(t, new))
    BY <2>1, <2>5
  <2>7. TrackedSeq' = Append(t, new)
    BY <1>4, <2>6
  <2>8. /\ b \in Tracked!ToSet(TrackedSeq) /\ new \in Tracked!Free \cup {b}
        /\ Tracked!Move(b, new)
    BY <1>2, <1>3, <2>1, <2>7 DEF t, Tracked!Move, Tracked!Running
  <2> QED
    BY <2>1, <2>6, <2>8 DEF Tracked!Next
<1>10. ASSUME NEW b \in Blocks, NEW new \in Blocks, ResizeMalloc(b, new) PROVE Goal
  <2> DEFINE c == CopyLinks(links, b, new)
  <2>1. /\ pc = "run" /\ pc' = "run" /\ b \in live /\ new \in Blocks \ live
        /\ links' = Chain(c, new) /\ live' = live \cup {new}
    BY <1>10 DEF ResizeMalloc, Growable
  <2>2. c \in LinksType /\ c.tail = links.tail /\ \A x \in live : c.prev[x] = links.prev[x]
    BY <1>1, <2>1 DEF CopyLinks, LinksType, Sects
  <2> HIDE DEF c
  <2>3. Ordered(c, live, s)
    BY <2>2, OrderOff
  <2>4. Follows(Append(s, new))
    BY <1>1, <2>1, <2>2, <2>3, OrderAppends
  <2>5. TrackedSeq' = Append(s, new)
    BY <1>4, <2>4
  <2>6. new \in Tracked!Free /\ Tracked!Register(new)
    BY <1>3, <2>1, <2>5 DEF Tracked!Register, Tracked!Running
  <2> QED
    BY <2>1, <2>4, <2>6 DEF Tracked!Next
<1>11. ASSUME UNCHANGED <<links, live>> PROVE Follows(s) /\ TrackedSeq' = TrackedSeq
  <2>1. Follows(s)
    BY <1>11
  <2> QED
    BY <1>4, <2>1
<1>12. ASSUME NEW marked \in SUBSET live, GcStart(marked) PROVE Goal
  <2>1. /\ pc = "run" /\ pc' = "sweep" /\ keep' = marked /\ live' = live
        /\ UNCHANGED <<links, live>>
    BY <1>12 DEF GcStart
  <2>2. marked \in SUBSET Tracked!ToSet(TrackedSeq) /\ Tracked!Collect(marked)
    BY <1>2, <1>11, <2>1 DEF Tracked!Collect
  <2> QED
    BY <1>11, <2>1, <2>2 DEF Tracked!Next
<1>13. CASE SweepKeep
  <2>1. /\ pc = "sweep" /\ pc' = pc /\ keep' = keep /\ live' = live
        /\ UNCHANGED <<links, live>>
    BY <1>13 DEF SweepKeep
  <2>2. UNCHANGED Tracked!vars
    BY <1>11, <2>1 DEF Tracked!vars
  <2> QED
    BY <1>11, <2>1, <2>2
<1>14. CASE SweepFree
  <2>1. /\ pc = "sweep" /\ pc' = pc /\ keep' = keep /\ head \in live \ keep
        /\ links' = DeChain(links, head) /\ live' = live \ {head}
    BY <1>14 DEF SweepFree, Release
  <2>2. Follows(Tracked!Without(s, head))
    BY <1>5, <2>1
  <2>3. TrackedSeq' = Tracked!Without(s, head)
    BY <1>4, <2>2
  <2>4. Tracked!Reap(head)
    BY <2>1, <2>3 DEF Tracked!Reap
  <2> QED
    BY <2>1, <2>2, <2>4 DEF Tracked!Next
<1>15. CASE SweepFault
  BY <1>1, <1>15 DEF SweepFault, EndInv, SweepOnLiveBlock
<1>16. CASE SweepEnd
  <2>1. /\ pc = "sweep" /\ pc' = "run" /\ live \subseteq keep
        /\ UNCHANGED <<links, live>>
    BY <1>16, AllSwept DEF SweepEnd, SweepInv
  <2>2. Tracked!CollectDone
    BY <1>11, <2>1 DEF Tracked!CollectDone
  <2> QED
    BY <1>11, <2>1, <2>2 DEF Tracked!Next
<1>17. CASE DelState
  <2>1. pc = "run" /\ pc' = "teardown" /\ UNCHANGED <<links, live>>
    BY <1>17 DEF DelState
  <2>2. Tracked!Delete
    BY <1>11, <2>1 DEF Tracked!Delete
  <2> QED
    BY <1>11, <2>1, <2>2 DEF Tracked!Next
<1>18. CASE TeardownFree
  <2>1. /\ pc = "teardown" /\ pc' = pc /\ links.tail # State
        /\ links' = DeChain(links, links.tail) /\ live' = live \ {links.tail}
    BY <1>18 DEF TeardownFree, Release
  <2>2. links.tail \in live /\ Tracked!Without(s, links.tail) = Tracked!Front(s)
    BY <1>1, <1>2, <2>1, WithoutNewest
  <2>3. Follows(Tracked!Front(s))
    <3>1. Ordered(DeChain(links, links.tail), live \ {links.tail},
                  Tracked!Without(s, links.tail))
      BY <1>5, <2>2
    <3> QED
      BY <2>1, <2>2, <3>1
  <2>4. TrackedSeq' = Tracked!Front(s)
    BY <1>4, <2>3
  <2>5. Tracked!DropNewest
    BY <1>2, <2>1, <2>4 DEF Tracked!DropNewest
  <2> QED
    BY <2>1, <2>3, <2>5 DEF Tracked!Next
<1>19. CASE TeardownEnd
  <2>1. pc = "teardown" /\ pc' = "gone" /\ links.tail = State /\ UNCHANGED <<links, live>>
    BY <1>19 DEF TeardownEnd
  <2>2. Tracked!DeleteDone
    BY <1>2, <1>11, <2>1 DEF Tracked!DeleteDone
  <2> QED
    BY <1>11, <2>1, <2>2 DEF Tracked!Next
<1>20. CASE UNCHANGED vars
  <2>1. UNCHANGED <<pc, links, live, keep>>
    BY <1>20 DEF vars
  <2>2. UNCHANGED Tracked!vars
    BY <1>11, <2>1 DEF Tracked!vars
  <2> QED
    BY <1>11, <2>1, <2>2
<1> HIDE DEF Goal
<1> QED
  BY <1>6, <1>7, <1>8, <1>9, <1>10, <1>12, <1>13, <1>14, <1>15, <1>16, <1>17, <1>18,
     <1>19, <1>20 DEF Next

-----------------------------------------------------------------------------
(* The chain is always a list, and no sweep ever stood on a freed block. *)
ListInv == (\E s : Ordered(links, live, s)) /\ pc # "fault"

(* What trace_prev spells from the tail is that list. *)
Reads == \A s : Ordered(links, live, s) => TrackedSeq = s

LEMMA ListStep ==
    ASSUME GrowOld = FALSE, IsFiniteSet(Blocks)
    PROVE  IInv /\ SweepInv /\ EndInv /\ ListInv /\ Reads /\ Reads' /\ [Next]_vars
              => ListInv' /\ [Tracked!Next]_(Tracked!vars)
<1> SUFFICES ASSUME IInv, SweepInv, EndInv, ListInv, Reads, Reads', [Next]_vars
             PROVE  ListInv' /\ [Tracked!Next]_(Tracked!vars)
  OBVIOUS
<1>1. PICK s : Ordered(links, live, s)
  BY DEF ListInv
<1>2. TrackedSeq = s /\ pc # "fault" /\ \A t : Ordered(links', live', t) => TrackedSeq' = t
  BY <1>1 DEF Reads, ListInv
<1>3. /\ [Tracked!Next]_(Tracked!vars)
      /\ \E t : Ordered(links', live', t)
      /\ pc' # "fault"
  BY <1>1, <1>2, StepsTrack
<1> QED
  BY <1>3 DEF ListInv

(* The trace chain implements the list of tracked blocks: an allocation, a *)
(* free, a growth, a collection and a deletion change trace_next and       *)
(* trace_prev so that the chain read backward from the tail is the list    *)
(* CeeTracked keeps, in the order of registration, for any finite set of   *)
(* addresses and as long as a program grows only the block it registered   *)
(* last.  (That the loops come to their end is not in it.)                 *)
THEOREM ChainKeepsTheList ==
    ASSUME GrowOld = FALSE, IsFiniteSet(Blocks)
    PROVE  Spec => Tracked!Safety
<1>1. IInv => Reads
  BY ReadsOrder DEF IInv, TypeOK, Reads
<1>2. Init => ListInv
  BY OrderEmpty DEF Init, ListInv
<1>3. Init /\ Reads => Tracked!Init
  BY OrderEmpty DEF Init, Reads, Tracked!Init
<1>4. IInv /\ SweepInv /\ EndInv /\ ListInv /\ Reads /\ Reads' /\ [Next]_vars
         => ListInv' /\ [Tracked!Next]_(Tracked!vars)
  BY ListStep
<1>5. Spec => []EndInv
  BY EndInvariance
<1> QED
  BY <1>1, <1>2, <1>3, <1>4, <1>5, Invariance, SweepInvariance, PTL DEF Spec, Tracked!Safety

=============================================================================
