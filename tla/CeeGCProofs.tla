----------------------------- MODULE CeeGCProofs -----------------------------
(***************************************************************************)
(* Proofs about CeeGC for any number of objects and of collections.  With  *)
(* any containers, cyclic or not, a collection frees what is unreachable   *)
(* and older than the last one; with containers whose trace function marks *)
(* all they refer to, what the roots lead to survives.                     *)
(***************************************************************************)
EXTENDS MCCeeGC, TLAPS, SequenceTheorems, FiniteSetTheorems, FunctionTheorems

HeapObjects == [kind : {"free", "list", "map", "closure"}, refs : Seq(Objs),
                side : Objs \cup {NONE}, rc : Nat, gc_mark : {0, 1}]

(* An object that is older than the last collection carries the mark value *)
(* of the current one only if the mark phase has reached it.               *)
Marking ==
    /\ pc = "run" => /\ frames = <<>>
                     /\ \A o \in Live \ young : heap[o].gc_mark # next_mark
    /\ pc = "mark" => /\ \A o \in Live \ young : heap[o].gc_mark = next_mark => o \in Reachable
                      /\ todo \subseteq Reachable
                      /\ \A f \in DOMAIN frames : frames[f].obj \in Reachable

(* The inductive invariant. *)
GInv == TypeOK /\ Marking

(* What the program may use is allocated, and leads to such objects only.  *)
Usable(C) ==
    /\ C \subseteq Live /\ known \cup roots \subseteq C
    /\ \A o \in C : Used(o) \subseteq C
    /\ pc = "mark" => todo \subseteq C /\ \A f \in DOMAIN frames : frames[f].obj \in C

(* What the mark phase has reached is marked, and what its objects refer   *)
(* to is reached as well or still to come in a call of trace.              *)
Reached(V) ==
    /\ V \subseteq Live /\ \A o \in V : heap[o].gc_mark = next_mark
    /\ roots \ todo \subseteq V
    /\ \A f \in DOMAIN frames : frames[f].obj \in V
    /\ \A o \in V : \A i \in DOMAIN heap[o].refs :
          \/ heap[o].refs[i] \in V
          \/ \E f \in DOMAIN frames : frames[f].obj = o /\ i >= frames[f].at

OthersMade == \E o, p \in Objs : MkClosure(o, p) \/ MkMap(o, p)
OnlyLists == \A o \in Objs : heap[o].kind \in {"free", "list"} /\ heap[o].side = NONE

(* The counts of those objects cover the references between them.          *)
ReferencesIn(h, C, e) ==
    {x \in C \X (1..MaxRefs) : x[2] \in DOMAIN h[x[1]].refs /\ h[x[1]].refs[x[2]] = e}
Counted(C) == \A e \in C : heap[e].rc >= Cardinality(ReferencesIn(heap, C, e))
RefsBounded == \A o \in Objs : Len(heap[o].refs) <= MaxRefs

(* The inductive invariant for lists. *)
LInv == /\ OnlyLists /\ pc # "fault"
        /\ \E C \in SUBSET Objs : Usable(C) /\ Counted(C)
        /\ pc = "mark" => \E V \in SUBSET Objs : Reached(V)

-----------------------------------------------------------------------------
(* Removing an element of a sequence moves those behind it to the front.   *)
LEMMA RemovesAt ==
    ASSUME NEW s \in Seq(Objs), NEW i \in DOMAIN s
    PROVE  /\ RemoveAt(s, i) \in Seq(Objs) /\ Len(RemoveAt(s, i)) = Len(s) - 1
           /\ \A j \in 1..Len(s) - 1 : RemoveAt(s, i)[j] = IF j < i THEN s[j] ELSE s[j + 1]
<1> DEFINE a == SubSeq(s, 1, i - 1)
           b == SubSeq(s, i + 1, Len(s))
<1>1. Len(s) \in Nat /\ i \in 1..Len(s) /\ \A j \in 1..Len(s) : s[j] \in Objs
  OBVIOUS
<1>2. a \in Seq(Objs) /\ b \in Seq(Objs)
  BY <1>1
<1>3. Len(a) = i - 1 /\ \A j \in 1..i - 1 : a[j] = s[j]
  BY <1>1
<1>4. Len(b) = Len(s) - i /\ \A j \in 1..Len(s) - i : b[j] = s[i + j]
  BY <1>1
<1>5. RemoveAt(s, i) = a \o b
  BY DEF RemoveAt
<1> HIDE DEF a, b
<1>6. a \o b \in Seq(Objs) /\ Len(a \o b) = Len(s) - 1
  BY <1>1, <1>2, <1>3, <1>4
<1>7. ASSUME NEW j \in 1..Len(s) - 1 PROVE (a \o b)[j] = IF j < i THEN s[j] ELSE s[j + 1]
  <2>1. CASE j < i
    BY <1>1, <1>2, <1>3, <2>1
  <2>2. CASE j >= i
    <3>1. j - (i - 1) \in 1..Len(s) - i /\ i + (j - (i - 1)) = j + 1 /\ ~ (j < i)
      BY <1>1, <2>2
    <3>2. (a \o b)[j] = b[j - (i - 1)]
      BY SMTT(20), <1>1, <1>2, <1>3, <1>4, <2>2
    <3> QED BY <1>4, <3>1, <3>2
  <2>3. j < i \/ j >= i
    BY <1>1
  <2> QED BY <2>1, <2>2, <2>3
<1> QED BY <1>5, <1>6, <1>7

(* It leaves a sequence of the others.                                     *)
LEMMA RemovesOne ==
    ASSUME NEW s \in Seq(Objs), NEW i \in DOMAIN s
    PROVE  RemoveAt(s, i) \in Seq(Objs) /\ ToSet(RemoveAt(s, i)) \subseteq ToSet(s)
<1> DEFINE t == RemoveAt(s, i)
<1>1. /\ t \in Seq(Objs) /\ Len(t) = Len(s) - 1
      /\ \A j \in 1..Len(s) - 1 : t[j] = IF j < i THEN s[j] ELSE s[j + 1]
  BY RemovesAt
<1> HIDE DEF t
<1>2. /\ DOMAIN t = 1..Len(s) - 1 /\ DOMAIN s = 1..Len(s)
      /\ \A j \in 1..Len(s) - 1 : j \in 1..Len(s) /\ j + 1 \in 1..Len(s)
  BY <1>1
<1> QED BY <1>1, <1>2 DEF ToSet, t

(* So does appending one.                                                  *)
LEMMA AppendsOne ==
    ASSUME NEW s \in Seq(Objs), NEW e \in Objs
    PROVE  Append(s, e) \in Seq(Objs) /\ ToSet(Append(s, e)) = ToSet(s) \cup {e}
<1>1. /\ Append(s, e) \in Seq(Objs) /\ DOMAIN Append(s, e) = 1..Len(s) + 1
      /\ Len(s) \in Nat /\ DOMAIN s = 1..Len(s)
      /\ \A j \in 1..Len(s) : Append(s, e)[j] = s[j]
      /\ Append(s, e)[Len(s) + 1] = e
  OBVIOUS
<1>2. \A j \in DOMAIN Append(s, e) : j \in DOMAIN s \/ j = Len(s) + 1
  BY <1>1
<1>3. \A j \in DOMAIN s : j \in DOMAIN Append(s, e)
  BY <1>1
<1>4. Len(s) + 1 \in DOMAIN Append(s, e)
  BY <1>1
<1> QED BY <1>1, <1>2, <1>3, <1>4 DEF ToSet

(* The last element of a sequence that is not empty, and the others.       *)
LEMMA LastAndFront ==
    ASSUME NEW S, NEW s \in Seq(S), s # <<>>
    PROVE  /\ Len(s) \in DOMAIN s /\ Last(s) = s[Len(s)] /\ Last(s) \in S
           /\ Front(s) \in Seq(S) /\ Len(s) \in Nat /\ Len(s) > 0 /\ Len(Front(s)) = Len(s) - 1
           /\ \A i \in DOMAIN s : i # Len(s) => i \in DOMAIN Front(s)
           /\ \A i \in DOMAIN Front(s) : i \in DOMAIN s /\ Front(s)[i] = s[i]
<1>1. Len(s) \in Nat /\ Len(s) > 0 /\ DOMAIN s = 1..Len(s)
  BY EmptySeq
<1> DEFINE t == SubSeq(s, 1, Len(s) - 1)
<1>2. t \in Seq(S) /\ Len(t) = Len(s) - 1 /\ DOMAIN t = 1..Len(s) - 1
  BY <1>1
<1>3. \A i \in 1..Len(s) - 1 : t[i] = s[i]
  BY <1>1
<1>4. Len(s) \in DOMAIN s /\ s[Len(s)] \in S
  BY <1>1
<1>5. Front(s) = t /\ Last(s) = s[Len(s)]
  BY DEF Front, Last
<1> HIDE DEF t
<1>6. /\ \A i \in DOMAIN s : i # Len(s) => i \in DOMAIN t
      /\ \A i \in DOMAIN t : i \in DOMAIN s /\ t[i] = s[i]
  BY <1>1, <1>2, <1>3
<1> QED BY <1>1, <1>2, <1>4, <1>5, <1>6

(* What an object refers to is objects.                                    *)
LEMMA UsesObjects ==
    ASSUME TypeOK, NEW o \in Objs
    PROVE  /\ heap[o] \in HeapObjects /\ heap[o].refs \in Seq(Objs)
           /\ \A i \in DOMAIN heap[o].refs : heap[o].refs[i] \in Traced(o)
           /\ Traced(o) \subseteq Used(o) /\ Used(o) \subseteq Objs
<1>1. heap[o] \in HeapObjects /\ heap[o].refs \in Seq(Objs) /\ heap[o].side \in Objs \cup {NONE}
  BY DEF TypeOK, HeapObjects
<1>2. \A i \in DOMAIN heap[o].refs : heap[o].refs[i] \in Objs
  BY <1>1
<1> QED BY <1>1, <1>2 DEF Traced, Used, ToSet

(* The roots are reachable, and what reachable objects use.                *)
LEMMA ReachableCloses ==
    ASSUME TypeOK
    PROVE  /\ roots \subseteq Reachable /\ Reachable \subseteq Objs
           /\ \A o \in Reachable : Used(o) \subseteq Reachable
<1>1. roots \subseteq Objs
  BY DEF TypeOK
<1>2. ASSUME NEW o \in Reachable, NEW p \in Used(o) PROVE p \in Reachable
  <2>1. o \in Objs /\ p \in Objs
    BY <1>2, UsesObjects DEF Reachable, ReachableBy
  <2> QED BY <1>2, <2>1 DEF Reachable, ReachableBy, Closed
<1> QED BY <1>1, <1>2 DEF Reachable, ReachableBy

(* A closed set that has the roots has all they lead to.                   *)
LEMMA ReachableIsLeast ==
    ASSUME NEW S \in SUBSET Objs, roots \subseteq S, \A o \in S : Used(o) \subseteq S
    PROVE  Reachable \subseteq S
BY DEF Reachable, ReachableBy, Closed

(* Marking an object changes nothing that is reachable.                    *)
LEMMA MarksOne ==
    ASSUME TypeOK, NEW o \in Objs, heap' = Marked(o)
    PROVE  /\ heap' \in [Objs -> HeapObjects]
           /\ \A p \in Objs : /\ heap'[p].kind = heap[p].kind /\ heap'[p].refs = heap[p].refs
                              /\ heap'[p].side = heap[p].side
                              /\ p # o => heap'[p].gc_mark = heap[p].gc_mark
           /\ heap[o].kind # "closure" => heap'[o].gc_mark = next_mark
           /\ heap[o].kind = "closure" => heap'[o].gc_mark = heap[o].gc_mark
           /\ \A p \in Objs : Traced(p)' = Traced(p) /\ Used(p)' = Used(p)
           /\ Live' = Live
<1>1. heap \in [Objs -> HeapObjects] /\ next_mark \in {0, 1}
  BY DEF TypeOK, HeapObjects
<1>2. CASE heap[o].kind = "closure"
  BY <1>1, <1>2 DEF Marked, Traced, Used, Live
<1>3. CASE heap[o].kind # "closure"
  <2>1. heap' = [heap EXCEPT ![o].gc_mark = next_mark]
    BY <1>3 DEF Marked
  <2>2. heap' \in [Objs -> HeapObjects]
    BY <1>1, <2>1 DEF HeapObjects
  <2>3. \A p \in Objs : /\ heap'[p].kind = heap[p].kind /\ heap'[p].refs = heap[p].refs
                        /\ heap'[p].side = heap[p].side
                        /\ heap'[p].gc_mark = IF p = o THEN next_mark ELSE heap[p].gc_mark
    BY <1>1, <2>1 DEF HeapObjects
  <2>4. \A p \in Objs : Traced(p)' = Traced(p) /\ Used(p)' = Used(p)
    BY <2>3 DEF Traced, Used
  <2>5. Live' = Live
    BY <2>3 DEF Live
  <2> QED BY <1>3, <2>2, <2>3, <2>4, <2>5
<1> QED BY <1>2, <1>3

(* If nothing is referred to otherwise, the same is reachable.             *)
LEMMA ReachableStays ==
    ASSUME TypeOK, roots' = roots, \A p \in Objs : Used(p)' = Used(p)
    PROVE  Reachable' = Reachable
<1>1. \A S \in SUBSET Objs : (\A o \in S : Used(o) \subseteq S) <=> (\A o \in S : Used(o)' \subseteq S)
  OBVIOUS
<1>2. \A o : o \in Reachable' <=> o \in Objs /\ \A S \in SUBSET Objs :
          (roots' \subseteq S /\ \A p \in S : Used(p)' \subseteq S) => o \in S
  BY DEF Reachable, ReachableBy, Closed
<1>3. \A o : o \in Reachable <=> o \in Objs /\ \A S \in SUBSET Objs :
          (roots \subseteq S /\ \A p \in S : Used(p) \subseteq S) => o \in S
  BY DEF Reachable, ReachableBy, Closed
<1> QED BY <1>1, <1>2, <1>3

-----------------------------------------------------------------------------
(* Type correctness, action by action. *)
LEMMA TypeStep == TypeOK /\ [Next]_vars => TypeOK'
<1> SUFFICES ASSUME TypeOK, [Next]_vars PROVE TypeOK'
  OBVIOUS
<1> DEFINE FT == Seq([obj : Objs, at : Nat \ {0}])
<1>0. /\ heap \in [Objs -> HeapObjects] /\ next_mark \in {0, 1} /\ pc \in {"run", "mark", "fault"}
      /\ ctx_list \in BOOLEAN /\ roots \subseteq Objs /\ known \subseteq Objs /\ young \subseteq Objs /\ todo \subseteq Objs
      /\ frames \in FT
  BY DEF TypeOK, HeapObjects
<1> DEFINE Typed == /\ heap \in [Objs -> HeapObjects] /\ next_mark \in {0, 1} /\ pc \in {"run", "mark", "fault"}
                    /\ ctx_list \in BOOLEAN /\ roots \subseteq Objs /\ known \subseteq Objs /\ young \subseteq Objs /\ todo \subseteq Objs
                    /\ frames \in FT
<1> SUFFICES Typed'
  BY DEF TypeOK, HeapObjects
<1>1. Free \in HeapObjects /\ (\A k \in {"list", "map", "closure"} : \A s \in Objs \cup {NONE} : Object(k, s) \in HeapObjects)
  BY EmptySeq DEF Free, Object, HeapObjects
<1> HIDE DEF FT
<1>2. ASSUME NEW o \in Objs, MkList(o) PROVE heap' \in [Objs -> HeapObjects]
  BY <1>0, <1>1, <1>2 DEF MkList, New
<1>3. ASSUME NEW o \in Objs, NEW p \in Objs, MkClosure(o, p) PROVE heap' \in [Objs -> HeapObjects]
  BY <1>0, <1>1, <1>3 DEF MkClosure, New
<1>4. ASSUME NEW o \in Objs, NEW p \in Objs, MkMap(o, p) PROVE heap' \in [Objs -> HeapObjects]
  BY <1>0, <1>1, <1>4 DEF MkMap
<1>5. ASSUME NEW o \in Objs, NEW p \in Objs, Link(o, p) PROVE heap' \in [Objs -> HeapObjects]
  <2>1. Append(heap[o].refs, p) \in Seq(Objs)
    BY <1>0, AppendsOne DEF HeapObjects
  <2> DEFINE h == [heap EXCEPT ![o].refs = Append(heap[o].refs, p)]
  <2>2. h \in [Objs -> HeapObjects]
    BY <1>0, <2>1 DEF HeapObjects
  <2>3. heap' = [h EXCEPT ![p].rc = @ + 1]
    BY <1>0, <1>5 DEF Link
  <2> HIDE DEF h
  <2> QED BY <2>2, <2>3 DEF HeapObjects
<1>6. ASSUME NEW o \in Objs, NEW i \in DOMAIN heap[o].refs, Unlink(o, i) PROVE heap' \in [Objs -> HeapObjects]
  <2>1. RemoveAt(heap[o].refs, i) \in Seq(Objs) /\ heap[o].refs[i] \in Objs
    BY <1>0, RemovesOne DEF HeapObjects
  <2> DEFINE h == [heap EXCEPT ![o].refs = RemoveAt(heap[o].refs, i)]
             b == heap[o].refs[i]
  <2>2. h \in [Objs -> HeapObjects]
    BY <1>0, <2>1 DEF HeapObjects
  <2>3. heap' = [h EXCEPT ![b].rc = IF @ > 0 THEN @ - 1 ELSE 0]
    BY <1>0, <1>6 DEF Unlink
  <2>4. b \in Objs
    BY <2>1
  <2> HIDE DEF h, b
  <2> QED BY SMTT(20), <2>2, <2>3, <2>4 DEF HeapObjects
<1>7. ASSUME NEW o \in Objs, MkList(o) \/ AddRoot(o) \/ RemoveRoot(o)
      PROVE  Typed'
  BY <1>0, <1>2, <1>7 DEF MkList, New, AddRoot, RemoveRoot, Running
<1>8. ASSUME NEW o \in Objs, Load(o) PROVE Typed'
  BY <1>0, <1>8, UsesObjects DEF Load, Running
<1>9. ASSUME NEW o \in Objs, NEW p \in Objs, MkClosure(o, p) \/ MkMap(o, p) \/ Link(o, p) PROVE Typed'
  BY ZenonT(40), <1>0, <1>3, <1>4, <1>5, <1>9 DEF MkClosure, New, MkMap, Link, Running
<1>10. ASSUME NEW o \in Objs, NEW i \in DOMAIN heap[o].refs, Unlink(o, i) PROVE Typed'
  BY <1>0, <1>6, <1>10 DEF Unlink, Running
<1>11. CASE GcStart
  BY <1>0, <1>11 DEF GcStart
<1>12. ASSUME NEW o \in Objs, MarkRoot(o) PROVE Typed'
  <2>1. heap' \in [Objs -> HeapObjects]
    BY <1>12, MarksOne DEF MarkRoot
  <2>2. frames' \in FT
    BY <1>12 DEF MarkRoot, FT
  <2> QED BY <1>0, <1>12, <2>1, <2>2 DEF MarkRoot
<1>13. CASE MarkChild
  <2> DEFINE child == heap[Top.obj].refs[Top.at]
             g == [frames EXCEPT ![Len(frames)].at = @ + 1]
  <2>1. Len(frames) \in DOMAIN frames /\ Top = frames[Len(frames)] /\ Top \in [obj : Objs, at : Nat \ {0}]
    BY <1>0, <1>13, LastAndFront DEF MarkChild, Top, FT
  <2>2. child \in Objs
    <3>1. heap[Top.obj].refs \in Seq(Objs) /\ Top.at \in 1..Len(heap[Top.obj].refs)
      BY <1>13, <2>1, UsesObjects DEF MarkChild
    <3> QED BY <3>1
  <2>3. heap' \in [Objs -> HeapObjects]
    BY <1>13, <2>2, MarksOne DEF MarkChild
  <2>4. g \in FT
    BY <1>0, <2>1 DEF FT
  <2>5. frames' = Append(g, [obj |-> child, at |-> 1])
    BY <1>13 DEF MarkChild
  <2> HIDE DEF g, child
  <2>6. frames' \in FT
    BY <2>2, <2>4, <2>5 DEF FT
  <2> QED BY <1>0, <1>13, <2>3, <2>6 DEF MarkChild
<1>14. CASE MarkReturn
  <2>1. frames' \in FT
    BY <1>0, <1>14, LastAndFront DEF MarkReturn, FT
  <2> QED BY <1>0, <1>14, <2>1 DEF MarkReturn
<1>15. CASE Sweep
  <2>1. heap' \in [Objs -> HeapObjects] /\ next_mark' \in {0, 1} /\ known' \subseteq Objs
    BY <1>0, <1>1, <1>15 DEF Sweep
  <2> QED BY <1>0, <1>15, <2>1 DEF Sweep
<1>16. CASE Fault
  BY <1>0, <1>16 DEF Fault
<1>17. CASE Restart
  BY <1>0, <1>1, <1>17 DEF Restart, FT
<1>18. CASE UNCHANGED vars
  BY <1>0, <1>18 DEF vars
<1> QED BY <1>7, <1>8, <1>9, <1>10, <1>11, <1>12, <1>13, <1>14, <1>15, <1>16, <1>17, <1>18
        DEF Next, Gc, AddContext, RemoveContext

-----------------------------------------------------------------------------
(* Marks: old objects that carry the mark value are reachable.             *)
LEMMA MarkingStep == GInv /\ [Next]_vars => Marking'
<1> SUFFICES ASSUME TypeOK, Marking, [Next]_vars PROVE Marking'
  BY DEF GInv
<1>0. /\ heap \in [Objs -> HeapObjects] /\ next_mark \in {0, 1}
      /\ frames \in Seq([obj : Objs, at : Nat \ {0}]) /\ roots \subseteq Objs /\ todo \subseteq Objs
  BY DEF TypeOK, HeapObjects
<1>1. ASSUME Running, \A o \in Live' : o \in young' \/ (o \in Live /\ o \notin young /\ heap'[o].gc_mark = heap[o].gc_mark)
      PROVE  Marking'
  BY <1>1 DEF Running, Marking, Live
<1>2. ASSUME NEW o \in Objs, MkList(o) PROVE Marking'
  BY <1>0, <1>1, <1>2 DEF MkList, New, Live
<1>3. ASSUME NEW o \in Objs, NEW p \in Objs, MkClosure(o, p) PROVE Marking'
  BY <1>0, <1>1, <1>3 DEF MkClosure, New, Live
<1>4. ASSUME NEW o \in Objs, NEW p \in Objs, MkMap(o, p) PROVE Marking'
  BY <1>0, <1>1, <1>4 DEF MkMap, Live
<1>5. ASSUME NEW o \in Objs, NEW p \in Objs, Link(o, p) PROVE Marking'
  <2>1. \A q \in Objs : heap'[q].kind = heap[q].kind /\ heap'[q].gc_mark = heap[q].gc_mark
    BY <1>0, <1>5 DEF Link, HeapObjects
  <2> QED BY <1>1, <1>5, <2>1 DEF Link, Live
<1>6. ASSUME NEW o \in Objs, NEW i \in DOMAIN heap[o].refs, Unlink(o, i) PROVE Marking'
  <2>1. \A q \in Objs : heap'[q].kind = heap[q].kind /\ heap'[q].gc_mark = heap[q].gc_mark
    BY ZenonT(40), <1>0, <1>6 DEF Unlink, HeapObjects
  <2> QED BY <1>1, <1>6, <2>1 DEF Unlink, Live
<1>7. ASSUME NEW o \in Objs, AddRoot(o) \/ RemoveRoot(o) \/ Load(o) PROVE Marking'
  BY <1>1, <1>7 DEF AddRoot, RemoveRoot, Load, Live
<1>8. CASE GcStart
  <2>1. Reachable' = Reachable /\ Live' = Live
    <3>1. \A p \in Objs : Used(p)' = Used(p)
      BY <1>8 DEF GcStart, Used, Traced
    <3> QED BY <1>8, <3>1, ReachableStays DEF GcStart, Live
  <2> QED BY <1>8, <2>1, ReachableCloses DEF GcStart, Marking
<1>9. ASSUME NEW o \in Reachable \cap Objs, heap' = Marked(o), pc = "mark",
             UNCHANGED <<roots, young, next_mark, pc>>, todo' \subseteq todo,
             \A f \in DOMAIN frames' : frames'[f].obj = o \/ \E g \in DOMAIN frames : frames'[f].obj = frames[g].obj
      PROVE  Marking'
  <2>1. Reachable' = Reachable /\ Live' = Live
    BY <1>9, MarksOne, ReachableStays
  <2>2. \A p \in Live' \ young' : heap'[p].gc_mark = next_mark' => p \in Reachable'
    BY <1>9, <2>1, MarksOne DEF Marking, Live
  <2> QED BY <1>9, <2>1, <2>2 DEF Marking
<1>10. ASSUME NEW o \in Objs, MarkRoot(o) PROVE Marking'
  <2>1. o \in Reachable /\ heap' = Marked(o)
    BY <1>10 DEF MarkRoot, Marking
  <2>2. \A f \in DOMAIN frames' : frames'[f].obj = o
    BY <1>10 DEF MarkRoot
  <2> QED BY <1>9, <1>10, <2>1, <2>2 DEF MarkRoot
<1>11. CASE MarkChild
  <2> DEFINE child == heap[Top.obj].refs[Top.at]
             g == [frames EXCEPT ![Len(frames)].at = @ + 1]
  <2>1. Len(frames) \in DOMAIN frames /\ Top = frames[Len(frames)] /\ Top \in [obj : Objs, at : Nat \ {0}]
    BY <1>0, <1>11, LastAndFront DEF MarkChild, Top
  <2>2. child \in Traced(Top.obj) /\ child \in Objs /\ Top.obj \in Reachable
    <3>1. heap[Top.obj].refs \in Seq(Objs) /\ Top.at \in DOMAIN heap[Top.obj].refs
      BY <1>11, <2>1, UsesObjects DEF MarkChild
    <3> QED BY <1>11, <2>1, <3>1, UsesObjects DEF MarkChild, Marking
  <2>3. child \in Reachable
    BY <2>1, <2>2, ReachableCloses, UsesObjects
  <2>4. /\ g \in Seq([obj : Objs, at : Nat \ {0}]) /\ Len(g) = Len(frames) /\ DOMAIN g = DOMAIN frames
        /\ \A f \in DOMAIN frames : g[f].obj = frames[f].obj
    BY <1>0, <2>1
  <2>5. frames' = Append(g, [obj |-> child, at |-> 1]) /\ heap' = Marked(child)
    BY <1>11 DEF MarkChild
  <2> HIDE DEF g, child
  <2>6. \A f \in DOMAIN frames' : frames'[f].obj = child \/ \E h \in DOMAIN frames : frames'[f].obj = frames[h].obj
    <3>1. ASSUME NEW f \in DOMAIN frames', f # Len(g) + 1 PROVE f \in DOMAIN frames /\ frames'[f] = g[f]
      BY <2>4, <2>5, <3>1
    <3>2. frames'[Len(g) + 1].obj = child
      BY <2>4, <2>5
    <3> QED BY <2>4, <3>1, <3>2
  <2> QED BY <1>9, <1>11, <2>2, <2>3, <2>5, <2>6 DEF MarkChild
<1>12. CASE MarkReturn
  <2>1. Reachable' = Reachable /\ Live' = Live
    <3>1. \A p \in Objs : Used(p)' = Used(p)
      BY <1>12 DEF MarkReturn, Used, Traced
    <3> QED BY <1>12, <3>1, ReachableStays DEF MarkReturn, Live
  <2>2. \A f \in DOMAIN frames' : f \in DOMAIN frames /\ frames'[f] = frames[f]
    BY <1>0, <1>12, LastAndFront DEF MarkReturn
  <2> QED BY <1>12, <2>1, <2>2 DEF MarkReturn, Marking
<1>13. CASE Sweep
  BY <1>0, <1>13 DEF Sweep, Marking, Live, Free, HeapObjects
<1>14. CASE Fault
  BY <1>14 DEF Fault, Marking
<1>15. CASE Restart
  BY <1>15 DEF Restart, Marking, Live, Free
<1>16. CASE UNCHANGED vars
  <2>1. Reachable' = Reachable
    <3>1. \A p \in Objs : Used(p)' = Used(p)
      BY <1>16 DEF vars, Used, Traced
    <3> QED BY <1>16, <3>1, ReachableStays DEF vars
  <2> QED BY <1>16, <2>1 DEF vars, Marking, Live
<1> QED BY <1>2, <1>3, <1>4, <1>5, <1>6, <1>7, <1>8, <1>10, <1>11, <1>12, <1>13, <1>14, <1>15, <1>16
        DEF Next, Gc, AddContext, RemoveContext

(* Types and marks, in every state. *)
LEMMA Collecting == Spec => []GInv
<1>1. Init => GInv
  <2> SUFFICES ASSUME Init PROVE GInv
    OBVIOUS
  <2>1. Free \in HeapObjects
    BY EmptySeq DEF Free, HeapObjects
  <2>2. TypeOK
    BY <2>1, EmptySeq DEF Init, TypeOK, HeapObjects
  <2> QED BY <2>2 DEF Init, GInv, Marking, Live, Free
<1>2. GInv /\ [Next]_vars => GInv'
  BY TypeStep, MarkingStep DEF GInv
<1> QED BY <1>1, <1>2, PTL DEF Spec

(* For any objects of any kinds, cyclic or not: what a collection leaves   *)
(* is reachable, or was made since the last one, although the mark value   *)
(* alternates and no mark is ever cleared (state.c:76, :107).              *)
THEOREM GarbageGoes == Spec => SweepFreesOldGarbage
<1>1. GInv => (Sweep => Live' \subseteq Reachable \cup young)
  <2> SUFFICES ASSUME GInv, Sweep PROVE Live' \subseteq Reachable \cup young
    OBVIOUS
  <2>1. \A o \in Live' : o \in Live /\ heap[o].gc_mark = next_mark
    BY DEF Sweep, Live, Free
  <2> QED BY <2>1 DEF GInv, Marking, Sweep
<1>2. GInv /\ [Next]_vars => [Sweep => Live' \subseteq Reachable \cup young]_vars
  BY <1>1
<1> QED BY <1>2, Collecting, PTL DEF Spec, SweepFreesOldGarbage

-----------------------------------------------------------------------------
(* Lists only: no object has another to use beside its elements.           *)
LEMMA ListsStep ==
    ASSUME ~ OthersMade, TypeOK, OnlyLists, [Next]_vars
    PROVE  OnlyLists'
<1>0. heap \in [Objs -> HeapObjects]
  BY DEF TypeOK, HeapObjects
<1>1. ASSUME NEW o \in Objs, MkList(o) PROVE OnlyLists'
  BY <1>0, <1>1 DEF MkList, New, OnlyLists, Object, Free
<1>2. ASSUME NEW o \in Objs, NEW p \in Objs, MkClosure(o, p) \/ MkMap(o, p) PROVE FALSE
  BY <1>2 DEF OthersMade
<1>3. ASSUME \A o \in Objs : heap'[o].kind = heap[o].kind /\ heap'[o].side = heap[o].side PROVE OnlyLists'
  BY <1>3 DEF OnlyLists
<1>4. ASSUME NEW o \in Objs, NEW p \in Objs, Link(o, p) PROVE OnlyLists'
  BY ZenonT(40), <1>0, <1>3, <1>4 DEF Link, HeapObjects
<1>5. ASSUME NEW o \in Objs, NEW i \in DOMAIN heap[o].refs, Unlink(o, i) PROVE OnlyLists'
  BY <1>0, <1>3, <1>5 DEF Unlink, HeapObjects
<1>6. ASSUME NEW o \in Objs, heap' = Marked(o) PROVE OnlyLists'
  BY <1>3, <1>6, MarksOne
<1>7. ASSUME NEW o \in Objs, MarkRoot(o) PROVE OnlyLists'
  BY <1>6, <1>7 DEF MarkRoot
<1>8. CASE MarkChild
  <2>1. Top \in [obj : Objs, at : Nat \ {0}]
    BY <1>8, LastAndFront DEF MarkChild, Top, TypeOK
  <2>2. heap[Top.obj].refs[Top.at] \in Objs
    <3>1. heap[Top.obj].refs \in Seq(Objs) /\ Top.at \in 1..Len(heap[Top.obj].refs)
      BY <1>8, <2>1, UsesObjects DEF MarkChild
    <3> QED BY <3>1
  <2> QED BY <1>6, <1>8, <2>2 DEF MarkChild
<1>9. CASE Sweep \/ Restart
  BY <1>9 DEF Sweep, Restart, OnlyLists, Free
<1>10. ASSUME UNCHANGED heap PROVE OnlyLists'
  BY <1>10 DEF OnlyLists
<1> QED BY <1>1, <1>2, <1>4, <1>5, <1>7, <1>8, <1>9, <1>10
        DEF Next, Gc, AddRoot, RemoveRoot, AddContext, RemoveContext, Load, GcStart, MarkReturn, Fault, vars

(* What a list uses is its elements.                                       *)
LEMMA ListsUse == ASSUME OnlyLists, NEW o \in Objs PROVE Used(o) = Traced(o)
BY DEF OnlyLists, Used

(* What is called in a step of the mark phase.                             *)
LEMMA NextChild ==
    ASSUME TypeOK, MarkChild
    PROVE  LET child == heap[Top.obj].refs[Top.at]
           IN  /\ Len(frames) \in DOMAIN frames /\ Top = frames[Len(frames)] /\ Top.obj \in Objs
               /\ Top.at \in Nat /\ child \in Traced(Top.obj) /\ child \in Objs
               /\ heap' = Marked(child)
               /\ DOMAIN frames' = DOMAIN frames \cup {Len(frames) + 1}
               /\ frames'[Len(frames) + 1] = [obj |-> child, at |-> 1]
               /\ Len(frames) + 1 \notin DOMAIN frames
               /\ \A f \in DOMAIN frames : frames'[f] = IF f = Len(frames) THEN [frames[f] EXCEPT !.at = @ + 1] ELSE frames[f]
<1> DEFINE child == heap[Top.obj].refs[Top.at]
           S == [obj : Objs, at : Nat \ {0}]
           g == [frames EXCEPT ![Len(frames)].at = @ + 1]
           x == [obj |-> child, at |-> 1]
<1>1. frames \in Seq(S) /\ frames # <<>>
  BY DEF TypeOK, MarkChild
<1>2. Len(frames) \in DOMAIN frames /\ Top = frames[Len(frames)] /\ Top \in S /\ Len(frames) \in Nat
  BY <1>1, LastAndFront DEF Top
<1>3. heap[Top.obj].refs \in Seq(Objs) /\ Top.at \in DOMAIN heap[Top.obj].refs
  BY <1>2, UsesObjects DEF MarkChild
<1>4. child \in Traced(Top.obj) /\ child \in Objs
  BY <1>2, <1>3, UsesObjects
<1>5. frames' = Append(g, x) /\ heap' = Marked(child)
  BY DEF MarkChild
<1>6. /\ g \in Seq(S) /\ Len(g) = Len(frames) /\ DOMAIN g = DOMAIN frames /\ DOMAIN frames = 1..Len(frames)
      /\ \A f \in DOMAIN frames : g[f] = IF f = Len(frames) THEN [frames[f] EXCEPT !.at = @ + 1] ELSE frames[f]
  BY <1>1, <1>2
<1> HIDE DEF g, x, child
<1>7. /\ DOMAIN Append(g, x) = 1..Len(g) + 1 /\ Append(g, x)[Len(g) + 1] = x
      /\ \A f \in 1..Len(g) : Append(g, x)[f] = g[f]
  BY <1>6
<1>8. 1..Len(frames) + 1 = 1..Len(frames) \cup {Len(frames) + 1} /\ Len(frames) + 1 \notin 1..Len(frames)
  BY <1>2
<1>9. /\ DOMAIN frames' = DOMAIN frames \cup {Len(frames) + 1}
      /\ frames'[Len(frames) + 1] = x
      /\ Len(frames) + 1 \notin DOMAIN frames
      /\ \A f \in DOMAIN frames : frames'[f] = IF f = Len(frames) THEN [frames[f] EXCEPT !.at = @ + 1] ELSE frames[f]
  BY <1>5, <1>6, <1>7, <1>8
<1> QED BY <1>2, <1>4, <1>5, <1>9 DEF x, child

(* How the objects that the program may use change in a step: a new one is *)
(* added, and a collection leaves what is reachable.                       *)
Continues(C, D) ==
    \/ D = C /\ UNCHANGED heap
    \/ D = C /\ \E o \in Objs : heap' = Marked(o)
    \/ D = C /\ \E o, p \in Objs : Link(o, p)
    \/ D = C /\ \E o \in Objs : \E i \in DOMAIN heap[o].refs : Unlink(o, i)
    \/ \E o \in Objs : MkList(o) /\ D = C \cup {o}
    \/ Sweep /\ D = Reachable

(* What the program may use stays closed and allocated.                    *)
LEMMA UsableStep ==
    ASSUME ~ OthersMade, GInv, OnlyLists, pc # "fault", [Next]_vars,
           pc = "mark" => \E V \in SUBSET Objs : Reached(V),
           NEW C \in SUBSET Objs, Usable(C)
    PROVE  \E D \in SUBSET Objs : Usable(D)' /\ Continues(C, D)
<1>0. /\ heap \in [Objs -> HeapObjects] /\ TypeOK /\ OnlyLists
      /\ frames \in Seq([obj : Objs, at : Nat \ {0}])
  BY DEF GInv, LInv, TypeOK, HeapObjects
<1>1. Usable(C)
  OBVIOUS
<1>2. ASSUME Running, known' \cup roots' \subseteq C, Live \subseteq Live', \A o \in C : Used(o)' \subseteq C PROVE Usable(C)'
  BY <1>1, <1>2 DEF Running, Usable
<1>3. ASSUME UNCHANGED <<heap, known, roots>>, \A o \in Objs : Used(o)' = Used(o)
      PROVE  Usable(C)' <=> (pc' = "mark" => todo' \subseteq C /\ \A f \in DOMAIN frames' : frames'[f].obj \in C)
  BY <1>1, <1>3 DEF Usable, Live
<1>4. ASSUME UNCHANGED heap PROVE \A o \in Objs : Used(o)' = Used(o)
  BY <1>4 DEF Used, Traced
<1>5. ASSUME NEW o \in Objs, MkList(o) PROVE \E D \in SUBSET Objs : Usable(D)' /\ Continues(C, D)
  <2>1. o \notin C /\ heap' = [heap EXCEPT ![o] = Object("list", NONE)]
    BY <1>1, <1>5 DEF MkList, New, Usable, Live, Free
  <2>2. Traced(o)' = {} /\ Used(o)' = {}
    BY <1>0, <2>1, EmptySeq DEF Object, Free, Traced, Used, ToSet
  <2>3. \A p \in C : Used(p)' = Used(p)
    BY <1>0, <2>1 DEF Used, Traced
  <2>4. Live' = Live \cup {o}
    BY <1>0, <2>1 DEF Live, Object, Free
  <2>5. Usable(C \cup {o})'
    BY <1>1, <1>5, <2>2, <2>3, <2>4 DEF Usable, MkList, New, Running
  <2> QED BY <1>5, <2>5 DEF Continues
<1>6. ASSUME NEW o \in Objs, NEW p \in Objs, MkClosure(o, p) \/ MkMap(o, p) PROVE FALSE
  BY <1>6 DEF OthersMade
<1>7. ASSUME NEW o \in Objs, NEW p \in Objs, Link(o, p) PROVE Usable(C)'
  <2>1. o \in C /\ p \in C
    BY <1>1, <1>7 DEF Link, Usable
  <2>2. \A q \in Objs : heap'[q].kind = heap[q].kind /\ heap'[q].side = heap[q].side
                         /\ heap'[q].refs = IF q = o THEN Append(heap[o].refs, p) ELSE heap[q].refs
    BY <1>0, <1>7 DEF Link, HeapObjects
  <2>3. \A q \in Objs : Used(q)' \subseteq Used(q) \cup {p}
    <3>1. \A q \in Objs : heap[q].refs \in Seq(Objs)
      BY <1>0 DEF HeapObjects
    <3>2. \A q \in Objs : Traced(q)' \subseteq Traced(q) \cup {p}
      BY <2>2, <3>1, AppendsOne DEF Traced
    <3> QED BY <2>2, <3>2 DEF Used
  <2>4. \A q \in C : Used(q)' \subseteq C
    BY <1>1, <2>1, <2>3 DEF Usable
  <2> QED BY <1>1, <1>2, <1>7, <2>2, <2>4 DEF Link, Usable, Live
<1>8. ASSUME NEW o \in Objs, NEW i \in DOMAIN heap[o].refs, Unlink(o, i) PROVE Usable(C)'
  <2>1. \A q \in Objs : heap'[q].kind = heap[q].kind /\ heap'[q].side = heap[q].side
                         /\ heap'[q].refs = IF q = o THEN RemoveAt(heap[o].refs, i) ELSE heap[q].refs
    BY <1>0, <1>8 DEF Unlink, HeapObjects
  <2>2. \A q \in Objs : Used(q)' \subseteq Used(q)
    <3>1. ToSet(RemoveAt(heap[o].refs, i)) \subseteq ToSet(heap[o].refs)
      BY <1>0, RemovesOne DEF HeapObjects
    <3> QED BY <2>1, <3>1 DEF Used, Traced
  <2>3. \A q \in C : Used(q)' \subseteq C
    BY <1>1, <2>2 DEF Usable
  <2> QED BY <1>1, <1>2, <1>8, <2>1, <2>3 DEF Unlink, Usable, Live
<1>9. ASSUME NEW o \in Objs, AddRoot(o) \/ RemoveRoot(o) \/ Load(o) PROVE Usable(C)'
  <2>1. \A q \in Objs : Used(q)' = Used(q) /\ Traced(q) = Used(q)
    BY <1>0, <1>4, <1>9, ListsUse DEF AddRoot, RemoveRoot, Load
  <2>2. known' \cup roots' \subseteq C
    BY <1>1, <1>9, <2>1 DEF Usable, AddRoot, RemoveRoot, Load
  <2> QED BY <1>1, <1>2, <1>9, <2>1, <2>2 DEF Usable, AddRoot, RemoveRoot, Load, Live
<1>10. ASSUME GcStart PROVE Usable(C)'
  <2>1. frames = <<>>
    BY <1>10 DEF GInv, Marking, GcStart
  <2> QED BY SMTT(20), <1>1, <1>3, <1>4, <1>10, <2>1 DEF GcStart, Usable
<1>11. ASSUME NEW o \in C, heap' = Marked(o), UNCHANGED <<known, roots, pc>>, todo' \subseteq todo,
              \A f \in DOMAIN frames' : frames'[f].obj \in C
       PROVE  Usable(C)'
  <2>1. Live' = Live /\ \A p \in Objs : Used(p)' = Used(p)
    BY <1>0, <1>11, MarksOne
  <2> QED BY <1>1, <1>11, <2>1 DEF Usable
<1>12. ASSUME NEW o \in Objs, MarkRoot(o) PROVE Usable(C)'
  BY <1>1, <1>11, <1>12 DEF MarkRoot, Usable
<1>13. ASSUME MarkChild PROVE Usable(C)'
  <2> DEFINE child == heap[Top.obj].refs[Top.at]
  <2>1. Top.obj \in C
    BY <1>0, <1>1, <1>13, NextChild DEF Usable, MarkChild
  <2>2. child \in C
    BY <1>0, <1>1, <1>13, <2>1, NextChild, ListsUse DEF Usable
  <2>3. \A f \in DOMAIN frames' : frames'[f].obj \in C
    BY <1>0, <1>1, <1>13, <2>2, NextChild DEF Usable, MarkChild
  <2>4. heap' = Marked(child)
    BY <1>13 DEF MarkChild
  <2> HIDE DEF child
  <2> QED BY <1>11, <1>13, <2>2, <2>3, <2>4 DEF MarkChild
<1>14. ASSUME MarkReturn PROVE Usable(C)'
  <2>1. \A f \in DOMAIN frames' : f \in DOMAIN frames /\ frames'[f] = frames[f]
    BY <1>0, <1>14, LastAndFront DEF MarkReturn
  <2> QED BY <1>1, <1>3, <1>4, <1>14, <2>1 DEF MarkReturn, Usable
<1>15. ASSUME Sweep PROVE \E D \in SUBSET Objs : Usable(D)' /\ Continues(C, D)
  <2>1. PICK V \in SUBSET Objs : Reached(V)
    BY <1>15 DEF Sweep
  <2>2. /\ frames = <<>> /\ roots \subseteq V
        /\ \A o \in V : \A i \in DOMAIN heap[o].refs : heap[o].refs[i] \in V
    BY <1>15, <2>1, EmptySeq DEF Sweep, Reached
  <2>3. \A o \in V : Used(o) \subseteq V
    BY <1>0, <2>2, ListsUse DEF Traced, ToSet
  <2>4. Reachable \subseteq V
    BY <2>2, <2>3, ReachableIsLeast
  <2>5. \A o \in V : heap'[o] = heap[o] /\ o \in Live'
    BY <1>15, <2>1 DEF Reached, Sweep, Live
  <2>6. \A o \in V : Used(o)' = Used(o)
    BY <2>5 DEF Used, Traced
  <2>7. PICK D \in SUBSET Objs : D = Reachable
    BY <1>0, ReachableCloses
  <2>8. D \subseteq Live' /\ known' \cup roots' \subseteq D /\ \A o \in D : Used(o)' \subseteq D
    BY <1>0, <1>15, <2>4, <2>5, <2>6, <2>7, ReachableCloses DEF Sweep
  <2>9. Usable(D)'
    BY <1>15, <2>8 DEF Usable, Sweep
  <2> QED BY <1>15, <2>7, <2>9 DEF Continues
<1>16. ASSUME Fault PROVE Usable(C)'
  BY <1>1, <1>3, <1>4, <1>16 DEF Fault
<1>17. ~ Restart
  BY DEF Restart
<1>18. ASSUME UNCHANGED vars PROVE Usable(C)'
  BY <1>1, <1>3, <1>4, <1>18 DEF vars, Usable
<1> DEFINE Goal == \E D \in SUBSET Objs : Usable(D)' /\ Continues(C, D)
<1>19. ASSUME Usable(C)', UNCHANGED heap \/ \E o \in Objs : heap' = Marked(o) PROVE Goal
  BY <1>19 DEF Continues
<1>20. ASSUME NEW o \in Objs, AddRoot(o) \/ RemoveRoot(o) \/ Load(o) PROVE Goal
  BY <1>9, <1>19, <1>20 DEF AddRoot, RemoveRoot, Load
<1>21. ASSUME GcStart \/ MarkReturn \/ Fault \/ UNCHANGED vars PROVE Goal
  BY <1>10, <1>14, <1>16, <1>18, <1>19, <1>21 DEF GcStart, MarkReturn, Fault, vars
<1>22. ASSUME NEW o \in Objs, MarkRoot(o) PROVE Goal
  BY <1>12, <1>19, <1>22 DEF MarkRoot
<1>23. ASSUME MarkChild PROVE Goal
  BY <1>0, <1>13, <1>19, <1>23, NextChild
<1>24. ASSUME NEW o \in Objs, NEW p \in Objs, Link(o, p) PROVE Goal
  BY <1>7, <1>24 DEF Continues
<1>25. ASSUME NEW o \in Objs, NEW i \in DOMAIN heap[o].refs, Unlink(o, i) PROVE Goal
  BY <1>8, <1>25 DEF Continues
<1> QED BY <1>5, <1>6, <1>15, <1>17, <1>20, <1>21, <1>22, <1>23, <1>24, <1>25
        DEF Next, Gc, AddContext, RemoveContext

(* The mark phase: what it has reached.                                    *)
LEMMA ReachedStep ==
    ASSUME GInv, LInv, [Next]_vars, pc' = "mark"
    PROVE  \E V \in SUBSET Objs : Reached(V)'
<1>0. /\ heap \in [Objs -> HeapObjects] /\ TypeOK /\ OnlyLists
      /\ frames \in Seq([obj : Objs, at : Nat \ {0}])
  BY DEF GInv, LInv, TypeOK, HeapObjects
<1>1. CASE GcStart
  <2>1. frames = <<>>
    BY <1>1 DEF GInv, Marking, GcStart
  <2>2. Reached({})'
    BY <1>1, <2>1 DEF GcStart, Reached
  <2> QED BY <2>2
<1>2. ASSUME NEW V \in SUBSET Objs, Reached(V), NEW c \in Objs, c \in Live, heap' = Marked(c)
      PROVE  /\ V \cup {c} \subseteq Live'
             /\ \A o \in V \cup {c} : heap'[o].gc_mark = next_mark
             /\ \A o \in Objs : heap'[o].refs = heap[o].refs
  BY <1>0, <1>2, MarksOne DEF Reached, OnlyLists
<1>3. ASSUME NEW o \in Objs, MarkRoot(o) PROVE \E V \in SUBSET Objs : Reached(V)'
  <2>1. PICK V \in SUBSET Objs : Reached(V)
    BY <1>3 DEF LInv, MarkRoot
  <2>2. frames = <<>> /\ frames' = <<[obj |-> o, at |-> 1]>> /\ o \in Live /\ todo' = todo \ {o}
    BY <1>3 DEF MarkRoot
  <2>3. DOMAIN frames' = {1} /\ frames'[1].obj = o /\ frames'[1].at = 1 /\ DOMAIN frames = {}
    BY <2>2, EmptySeq
  <2>4. \A p \in V \cup {o} : \A i \in DOMAIN heap[p].refs :
          heap[p].refs[i] \in V \cup {o} \/ \E f \in DOMAIN frames' : frames'[f].obj = p /\ i >= frames'[f].at
    <3>1. \A i \in DOMAIN heap[o].refs : i >= 1
      <4>1. heap[o].refs \in Seq(Objs)
        BY <1>0, UsesObjects
      <4> QED BY <4>1
    <3> QED BY <2>1, <2>3, <3>1 DEF Reached
  <2>5. Reached(V \cup {o})'
    BY SMTT(20), <1>2, <1>3, <2>1, <2>2, <2>3, <2>4 DEF Reached, MarkRoot
  <2> QED BY <2>5
<1>4. CASE MarkChild
  <2>1. PICK V \in SUBSET Objs : Reached(V)
    BY <1>4 DEF LInv, MarkChild
  <2> DEFINE c == heap[Top.obj].refs[Top.at]
             n == Len(frames)
  <2>2. /\ n \in DOMAIN frames /\ Top = frames[n] /\ Top.at \in Nat /\ c \in Objs /\ c \in Live
        /\ heap' = Marked(c) /\ DOMAIN frames' = DOMAIN frames \cup {n + 1}
        /\ frames'[n + 1] = [obj |-> c, at |-> 1] /\ n + 1 \notin DOMAIN frames
        /\ \A f \in DOMAIN frames : frames'[f] = IF f = n THEN [frames[f] EXCEPT !.at = @ + 1] ELSE frames[f]
    BY <1>0, <1>4, NextChild DEF MarkChild
  <2>3. /\ \A f \in DOMAIN frames : frames[f] \in [obj : Objs, at : Nat \ {0}]
        /\ \A p \in Objs : DOMAIN heap[p].refs \subseteq Nat \ {0}
    <3>1. \A p \in Objs : heap[p].refs \in Seq(Objs)
      BY <1>0, UsesObjects
    <3>2. \A s \in Seq(Objs) : DOMAIN s \subseteq Nat \ {0}
      OBVIOUS
    <3>3. \A S : \A s \in Seq(S) : \A f \in DOMAIN s : s[f] \in S
      OBVIOUS
    <3>4. \A f \in DOMAIN frames : frames[f] \in [obj : Objs, at : Nat \ {0}]
      BY <1>0, <3>3
    <3> QED BY <3>1, <3>2, <3>4
  <2>4. /\ \A f \in DOMAIN frames : frames'[f].obj = frames[f].obj
        /\ \A f \in DOMAIN frames : f # n => frames'[f].at = frames[f].at
        /\ frames'[n].at = frames[n].at + 1
        /\ frames'[n + 1].obj = c /\ frames'[n + 1].at = 1
    BY <2>2, <2>3
  <2>5. c = heap[frames[n].obj].refs[frames[n].at]
    BY <2>2
  <2> HIDE DEF c, n
  <2>6. ASSUME NEW p \in V \cup {c}, NEW i \in DOMAIN heap[p].refs
        PROVE  heap[p].refs[i] \in V \cup {c} \/ \E f \in DOMAIN frames' : frames'[f].obj = p /\ i >= frames'[f].at
    <3>1. i \in Nat /\ i >= 1
      BY <2>1, <2>2, <2>3
    <3>2. CASE p = c
      BY <2>2, <2>4, <3>1, <3>2
    <3>3. CASE p \in V /\ heap[p].refs[i] \notin V
      <4>1. PICK f \in DOMAIN frames : frames[f].obj = p /\ i >= frames[f].at
        BY <2>1, <3>3 DEF Reached
      <4>2. CASE f # n
        BY <2>2, <2>4, <4>1, <4>2
      <4>3. CASE f = n /\ i = frames[n].at
        BY <2>5, <4>1, <4>3
      <4>4. CASE f = n /\ i # frames[n].at
        <5>1. i >= frames[n].at + 1
          BY <2>2, <2>3, <3>1, <4>1, <4>4
        <5> QED BY <2>2, <2>4, <4>1, <4>4, <5>1
      <4> QED BY <4>2, <4>3, <4>4
    <3> QED BY <3>2, <3>3
  <2>7. \A f \in DOMAIN frames' : frames'[f].obj \in V \cup {c}
    BY <2>1, <2>2, <2>4 DEF Reached
  <2>8. PICK W \in SUBSET Objs : W = V \cup {c}
    BY <2>2
  <2>9. /\ W \subseteq Live' /\ \A o \in W : heap'[o].gc_mark = next_mark
        /\ \A o \in Objs : heap'[o].refs = heap[o].refs
    BY <1>2, <2>1, <2>2, <2>8
  <2>10. UNCHANGED <<roots, todo, next_mark>> /\ roots \ todo \subseteq W
    BY <1>4, <2>1, <2>8 DEF MarkChild, Reached
  <2>11. \A p \in W : \A i \in DOMAIN heap'[p].refs :
            heap'[p].refs[i] \in W \/ \E f \in DOMAIN frames' : frames'[f].obj = p /\ i >= frames'[f].at
    BY <2>6, <2>8, <2>9
  <2>12. Reached(W)'
    BY <2>7, <2>8, <2>9, <2>10, <2>11 DEF Reached
  <2> QED BY <2>12
<1>5. CASE MarkReturn
  <2>1. PICK V \in SUBSET Objs : Reached(V)
    BY <1>5 DEF LInv, MarkReturn
  <2>2. /\ \A f \in DOMAIN frames' : f \in DOMAIN frames /\ frames'[f] = frames[f]
        /\ \A f \in DOMAIN frames : f # Len(frames) => f \in DOMAIN frames'
        /\ Len(frames) \in DOMAIN frames /\ Top = frames[Len(frames)] /\ Top \in [obj : Objs, at : Nat \ {0}]
    BY <1>0, <1>5, LastAndFront DEF MarkReturn, Top
  <2>3. \A i \in DOMAIN heap[Top.obj].refs : ~ (i >= Top.at)
    <3>1. heap[Top.obj].refs \in Seq(Objs)
      BY <1>0, <2>2, UsesObjects
    <3> QED BY <1>5, <2>2, <3>1 DEF MarkReturn
  <2>4. ASSUME NEW p \in V, NEW i \in DOMAIN heap[p].refs, heap[p].refs[i] \notin V
        PROVE  \E f \in DOMAIN frames' : frames'[f].obj = p /\ i >= frames'[f].at
    <3>1. PICK f \in DOMAIN frames : frames[f].obj = p /\ i >= frames[f].at
      BY <2>1, <2>4 DEF Reached
    <3> QED BY <2>2, <2>3, <3>1
  <2>5. Reached(V)'
    BY <1>5, <2>1, <2>2, <2>4 DEF MarkReturn, Reached, Live
  <2> QED BY <2>5
<1>6. CASE UNCHANGED vars
  <2>1. PICK V \in SUBSET Objs : Reached(V)
    BY <1>6 DEF LInv, vars
  <2>2. Reached(V)'
    BY <1>6, <2>1 DEF vars, Reached, Live
  <2> QED BY <2>2
<1>7. pc # "mark" => GcStart \/ UNCHANGED vars
  BY DEF Next, Gc, MkList, MkClosure, MkMap, New, Link, Unlink, AddRoot, RemoveRoot, AddContext, RemoveContext, Load, Running, MarkRoot, MarkChild, MarkReturn, Sweep, Fault, Restart
<1>8. pc = "mark" => Gc \/ UNCHANGED vars
  BY DEF Next, MkList, MkClosure, MkMap, New, Link, Unlink, AddRoot, RemoveRoot, AddContext, RemoveContext, Load, Running, GcStart, Fault, Restart
<1> QED BY <1>1, <1>3, <1>4, <1>5, <1>6, <1>7, <1>8 DEF Gc, Sweep

(* What Link and Unlink change of the objects.                             *)
LEMMA LinkDoes ==
    ASSUME TypeOK, NEW a \in Objs, NEW b \in Objs, Link(a, b)
    PROVE  /\ Running /\ UNCHANGED known
           /\ \A q \in Objs : /\ heap'[q].refs = IF q = a THEN Append(heap[a].refs, b) ELSE heap[q].refs
                              /\ heap'[q].rc = IF q = b THEN heap[b].rc + 1 ELSE heap[q].rc
<1>0. heap \in [Objs -> HeapObjects]
  BY DEF TypeOK, HeapObjects
<1> DEFINE h == [heap EXCEPT ![a].refs = Append(heap[a].refs, b)]
<1>1. heap' = [h EXCEPT ![b].rc = @ + 1]
  BY <1>0 DEF Link
<1>2. \A q \in Objs : /\ h[q].refs = IF q = a THEN Append(heap[a].refs, b) ELSE heap[q].refs
                      /\ h[q].rc = heap[q].rc /\ DOMAIN h = Objs
  BY <1>0 DEF HeapObjects
<1>3. h \in [Objs -> HeapObjects]
  <2>1. Append(heap[a].refs, b) \in Seq(Objs)
    BY <1>0, AppendsOne DEF HeapObjects
  <2> QED BY <1>0, <2>1 DEF HeapObjects
<1> HIDE DEF h
<1>4. \A q \in Objs : heap'[q].refs = h[q].refs /\ heap'[q].rc = IF q = b THEN h[b].rc + 1 ELSE h[q].rc
  BY <1>1, <1>3 DEF HeapObjects
<1> QED BY <1>2, <1>4 DEF Link

LEMMA UnlinkDoes ==
    ASSUME TypeOK, NEW a \in Objs, NEW i \in DOMAIN heap[a].refs, Unlink(a, i)
    PROVE  /\ Running /\ UNCHANGED known /\ a \in known
           /\ \A q \in Objs : /\ heap'[q].refs = IF q = a THEN RemoveAt(heap[a].refs, i) ELSE heap[q].refs
                              /\ heap'[q].rc = IF q # heap[a].refs[i] THEN heap[q].rc
                                               ELSE IF heap[q].rc > 0 THEN heap[q].rc - 1 ELSE 0
<1>0. heap \in [Objs -> HeapObjects]
  BY DEF TypeOK, HeapObjects
<1> DEFINE h == [heap EXCEPT ![a].refs = RemoveAt(heap[a].refs, i)]
           b == heap[a].refs[i]
<1>1. heap' = [h EXCEPT ![b].rc = IF @ > 0 THEN @ - 1 ELSE 0]
  BY <1>0 DEF Unlink
<1>2. \A q \in Objs : /\ h[q].refs = IF q = a THEN RemoveAt(heap[a].refs, i) ELSE heap[q].refs
                      /\ h[q].rc = heap[q].rc
  BY <1>0 DEF HeapObjects
<1>3. h \in [Objs -> HeapObjects] /\ b \in Objs
  <2>1. RemoveAt(heap[a].refs, i) \in Seq(Objs) /\ b \in Objs
    BY <1>0, RemovesOne DEF HeapObjects
  <2> QED BY <1>0, <2>1 DEF HeapObjects
<1> HIDE DEF h, b
<1>4. \A q \in Objs : /\ heap'[q].refs = h[q].refs
                      /\ heap'[q].rc = IF q # b THEN h[q].rc ELSE IF h[q].rc > 0 THEN h[q].rc - 1 ELSE 0
  <2> DEFINE m == IF h[b].rc > 0 THEN h[b].rc - 1 ELSE 0
  <2>1. h[b] \in HeapObjects /\ heap' = [h EXCEPT ![b].rc = m]
    BY <1>1, <1>3
  <2> HIDE DEF m
  <2>2. \A q \in Objs : heap'[q].refs = h[q].refs /\ heap'[q].rc = IF q # b THEN h[q].rc ELSE m
    BY <1>3, <2>1 DEF HeapObjects
  <2> QED BY <2>2 DEF m
<1>5. ASSUME NEW q \in Objs
      PROVE  /\ heap'[q].refs = IF q = a THEN RemoveAt(heap[a].refs, i) ELSE heap[q].refs
             /\ heap'[q].rc = IF q # b THEN heap[q].rc ELSE IF heap[q].rc > 0 THEN heap[q].rc - 1 ELSE 0
  BY <1>2, <1>4
<1>6. Running /\ UNCHANGED known /\ a \in known
  BY DEF Unlink
<1> QED BY <1>5, <1>6 DEF b

(* A new container has no references.                                      *)
LEMMA NewHasNone ==
    ASSUME TypeOK, NEW o \in Objs, NEW p \in Objs, MkClosure(o, p) \/ MkMap(o, p), NEW q \in Objs
    PROVE  heap'[q].refs = heap[q].refs \/ heap'[q].refs = <<>>
<1>0. heap \in [Objs -> HeapObjects]
  BY DEF TypeOK, HeapObjects
<1>1. \A k, s : Object(k, s).refs = <<>>
  BY DEF Object, Free
<1>2. CASE MkClosure(o, p)
  <2>1. heap' = [heap EXCEPT ![o] = Object("closure", p)]
    BY <1>2 DEF MkClosure, New
  <2> QED BY <1>0, <1>1, <2>1
<1>3. CASE MkMap(o, p)
  <2>1. heap' = [heap EXCEPT ![o] = Object("map", p), ![p] = Object("list", NONE)]
    BY <1>3 DEF MkMap
  <2> QED BY <1>0, <1>1, <2>1
<1> QED BY <1>2, <1>3

(* The number of references of a container stays in its bound.             *)
LEMMA RefsBoundedStep == ASSUME TypeOK, RefsBounded, [Next]_vars PROVE RefsBounded'
<1>0. heap \in [Objs -> HeapObjects] /\ MaxRefs \in Nat
  BY GCAssumption DEF TypeOK, HeapObjects
<1>1. ASSUME \A q \in Objs : heap'[q].refs = heap[q].refs \/ heap'[q].refs = <<>> PROVE RefsBounded'
  BY <1>0, <1>1, EmptySeq DEF RefsBounded
<1>2. ASSUME NEW o \in Objs, MkList(o) PROVE RefsBounded'
  BY <1>0, <1>1, <1>2 DEF MkList, New, Object, Free
<1>3. ASSUME NEW o \in Objs, NEW p \in Objs, MkClosure(o, p) \/ MkMap(o, p) PROVE RefsBounded'
  BY <1>1, <1>3, NewHasNone
<1>4. ASSUME NEW o \in Objs, NEW p \in Objs, Link(o, p) PROVE RefsBounded'
  <2>1. Len(Append(heap[o].refs, p)) = Len(heap[o].refs) + 1 /\ Len(heap[o].refs) \in Nat
    BY <1>0 DEF HeapObjects
  <2>2. Len(Append(heap[o].refs, p)) <= MaxRefs
    BY <1>0, <1>4, <2>1 DEF Link
  <2>3. \A q \in Objs : heap'[q].refs = IF q = o THEN Append(heap[o].refs, p) ELSE heap[q].refs
    BY <1>4, LinkDoes
  <2> QED BY <2>2, <2>3 DEF RefsBounded
<1>5. ASSUME NEW o \in Objs, NEW i \in DOMAIN heap[o].refs, Unlink(o, i) PROVE RefsBounded'
  <2>1. Len(heap[o].refs) <= MaxRefs /\ heap[o].refs \in Seq(Objs) /\ Len(heap[o].refs) \in Nat
    BY <1>0 DEF RefsBounded, HeapObjects
  <2>2. Len(RemoveAt(heap[o].refs, i)) <= MaxRefs
    BY <1>0, <2>1, RemovesAt
  <2> QED BY <1>5, <2>2, UnlinkDoes DEF RefsBounded
<1>6. ASSUME NEW o \in Objs, MarkRoot(o) PROVE RefsBounded'
  BY <1>1, <1>6, MarksOne DEF MarkRoot
<1>7. CASE MarkChild
  BY <1>1, <1>7, MarksOne, NextChild
<1>8. CASE Sweep \/ Restart
  BY <1>1, <1>8 DEF Sweep, Restart, Free
<1>9. CASE UNCHANGED heap
  BY <1>1, <1>9
<1> QED BY <1>2, <1>3, <1>4, <1>5, <1>6, <1>7, <1>8, <1>9
        DEF Next, Gc, AddRoot, RemoveRoot, AddContext, RemoveContext, Load, GcStart, MarkReturn, Fault, vars

(* There are finitely many references.                                     *)
LEMMA ReferencesFinite ==
    ASSUME NEW h, NEW C \in SUBSET Objs, NEW e
    PROVE  IsFiniteSet(ReferencesIn(h, C, e)) /\ Cardinality(ReferencesIn(h, C, e)) \in Nat
<1>1. IsFiniteSet(C) /\ IsFiniteSet(1..MaxRefs)
  BY GCAssumption, FS_Subset, FS_Interval
<1>2. IsFiniteSet(C \X (1..MaxRefs))
  BY <1>1, FS_Product
<1>3. ReferencesIn(h, C, e) \in SUBSET (C \X (1..MaxRefs))
  BY DEF ReferencesIn
<1> QED BY <1>2, <1>3, FS_Subset, FS_CardinalityType

LEMMA FewerReferences ==
    ASSUME NEW g, NEW h, NEW C \in SUBSET Objs, NEW D \in SUBSET Objs, NEW e,
           ReferencesIn(h, D, e) \subseteq ReferencesIn(g, C, e)
    PROVE  Cardinality(ReferencesIn(h, D, e)) <= Cardinality(ReferencesIn(g, C, e))
<1>1. ReferencesIn(h, D, e) \in SUBSET ReferencesIn(g, C, e)
  OBVIOUS
<1> QED BY <1>1, ReferencesFinite, FS_Subset

(* Linking adds one reference.                                             *)
LEMMA LinkCounts ==
    ASSUME TypeOK, NEW C \in SUBSET Objs, Usable(C), Counted(C),
           NEW a \in Objs, NEW b \in Objs, Link(a, b)
    PROVE  Counted(C)'
<1>1. /\ heap[a].refs \in Seq(Objs) /\ \A q \in Objs : heap[q].rc \in Nat
      /\ \A q \in Objs : /\ heap'[q].refs = IF q = a THEN Append(heap[a].refs, b) ELSE heap[q].refs
                         /\ heap'[q].rc = IF q = b THEN heap[b].rc + 1 ELSE heap[q].rc
  BY LinkDoes DEF TypeOK
<1> DEFINE n == Len(heap[a].refs)
           x == <<a, n + 1>>
<1>2. /\ \A j \in DOMAIN Append(heap[a].refs, b) : j = n + 1 \/ (j \in DOMAIN heap[a].refs /\ j # n + 1)
      /\ \A j \in DOMAIN heap[a].refs : Append(heap[a].refs, b)[j] = heap[a].refs[j]
      /\ Append(heap[a].refs, b)[n + 1] = b
  BY SMTT(20), <1>1
<1> HIDE DEF n
<1>3. ASSUME NEW e \in C PROVE heap'[e].rc >= Cardinality(ReferencesIn(heap', C, e))
  <2> DEFINE R == ReferencesIn(heap, C, e)
             S == ReferencesIn(heap', C, e)
  <2>1. IsFiniteSet(R) /\ IsFiniteSet(S) /\ Cardinality(R) \in Nat /\ Cardinality(S) \in Nat
    BY ReferencesFinite
  <2>2. heap[e].rc >= Cardinality(R) /\ heap[e].rc \in Nat /\ e \in Objs
    BY <1>1 DEF Counted
  <2>3. ASSUME NEW y \in S PROVE y \in R \/ (e = b /\ y = x)
    <3>1. /\ y \in C \X (1..MaxRefs) /\ y[1] \in Objs /\ y = <<y[1], y[2]>>
          /\ y[2] \in DOMAIN heap'[y[1]].refs /\ heap'[y[1]].refs[y[2]] = e
      BY <2>3 DEF ReferencesIn
    <3>2. CASE y[1] # a
      BY <1>1, <3>1, <3>2 DEF ReferencesIn
    <3>3. CASE y[1] = a /\ y[2] # n + 1
      BY <1>1, <1>2, <3>1, <3>3 DEF ReferencesIn
    <3>4. CASE y[1] = a /\ y[2] = n + 1
      BY <1>1, <1>2, <3>1, <3>4
    <3> QED BY <3>2, <3>3, <3>4
  <2> HIDE DEF R, S, x
  <2>4. CASE e # b
    <3>1. S \in SUBSET R
      BY <2>3, <2>4
    <3>2. Cardinality(S) <= Cardinality(R)
      BY <2>1, <3>1, FS_Subset
    <3> QED BY <1>1, <2>1, <2>2, <2>4, <3>2 DEF S
  <2>5. CASE e = b
    <3>1. S \in SUBSET (R \cup {x})
      BY <2>3
    <3>2. /\ IsFiniteSet(R \cup {x})
          /\ Cardinality(R \cup {x}) = IF x \in R THEN Cardinality(R) ELSE Cardinality(R) + 1
      BY <2>1, FS_AddElement
    <3>3. Cardinality(S) <= Cardinality(R \cup {x})
      BY <3>1, <3>2, FS_Subset
    <3> QED BY <1>1, <2>1, <2>2, <2>5, <3>2, <3>3 DEF S
  <2> QED BY <2>4, <2>5
<1> QED BY <1>3 DEF Counted

(* Removing takes the reference that was removed away, and moves others.   *)
LEMMA UnlinkCounts ==
    ASSUME TypeOK, RefsBounded, NEW C \in SUBSET Objs, Usable(C), Counted(C),
           NEW a \in Objs, NEW i \in DOMAIN heap[a].refs, Unlink(a, i)
    PROVE  Counted(C)'
<1> DEFINE b == heap[a].refs[i]
           n == Len(heap[a].refs)
           x == <<a, i>>
<1>1. /\ heap[a].refs \in Seq(Objs) /\ \A q \in Objs : heap[q].rc \in Nat
      /\ \A q \in Objs : /\ heap'[q].refs = IF q = a THEN RemoveAt(heap[a].refs, i) ELSE heap[q].refs
                         /\ heap'[q].rc = IF q # b THEN heap[q].rc
                                          ELSE IF heap[q].rc > 0 THEN heap[q].rc - 1 ELSE 0
      /\ a \in C
  BY UnlinkDoes DEF TypeOK, Usable
<1>2. n \in Nat /\ n <= MaxRefs /\ MaxRefs \in Nat /\ i \in 1..n /\ DOMAIN heap[a].refs = 1..n
  BY <1>1, GCAssumption DEF RefsBounded
<1>3. /\ DOMAIN RemoveAt(heap[a].refs, i) = 1..n - 1
      /\ \A j \in 1..n - 1 : RemoveAt(heap[a].refs, i)[j] = IF j < i THEN heap[a].refs[j] ELSE heap[a].refs[j + 1]
  <2> DEFINE t == RemoveAt(heap[a].refs, i)
  <2>1. /\ t \in Seq(Objs) /\ Len(t) = n - 1
        /\ \A j \in 1..n - 1 : t[j] = IF j < i THEN heap[a].refs[j] ELSE heap[a].refs[j + 1]
    BY <1>1, RemovesAt
  <2> HIDE DEF t
  <2>2. DOMAIN t = 1..n - 1
    BY <2>1
  <2> QED BY <2>1, <2>2 DEF t
<1>4. ASSUME NEW e \in C PROVE heap'[e].rc >= Cardinality(ReferencesIn(heap', C, e))
  <2> DEFINE R == ReferencesIn(heap, C, e)
             S == ReferencesIn(heap', C, e)
             f == [y \in S |-> IF y[1] = a /\ y[2] >= i THEN <<a, y[2] + 1>> ELSE <<y[1], y[2]>>]
  <2>1. IsFiniteSet(R) /\ IsFiniteSet(S) /\ Cardinality(R) \in Nat /\ Cardinality(S) \in Nat
    BY ReferencesFinite
  <2>2. heap[e].rc >= Cardinality(R) /\ heap[e].rc \in Nat /\ e \in Objs
    BY <1>1 DEF Counted
  <2>3. \A y \in S : /\ y \in C \X (1..MaxRefs) /\ y[1] \in C /\ y[1] \in Objs /\ y[2] \in 1..MaxRefs /\ y = <<y[1], y[2]>>
                     /\ y[2] \in DOMAIN heap'[y[1]].refs /\ heap'[y[1]].refs[y[2]] = e
    BY DEF ReferencesIn
  <2>4. \A c \in C, j \in 1..MaxRefs : <<c, j>> \in R <=> (j \in DOMAIN heap[c].refs /\ heap[c].refs[j] = e)
    BY DEF ReferencesIn
  <2> HIDE DEF R, S, b, n
  <2>5. ASSUME NEW y \in S PROVE f[y] \in R \ {x}
    <3>1. CASE y[1] # a
      <4>1. f[y] = <<y[1], y[2]>> /\ y[2] \in DOMAIN heap[y[1]].refs /\ heap[y[1]].refs[y[2]] = e
        BY <1>1, <2>3, <3>1
      <4> QED BY <2>3, <2>4, <3>1, <4>1
    <3>2. CASE y[1] = a /\ y[2] < i
      <4>1. f[y] = <<a, y[2]>> /\ y[2] \in 1..n - 1 /\ y[2] # i /\ y[2] \in 1..n
        BY <1>1, <1>2, <1>3, <2>3, <3>2
      <4>2. heap[a].refs[y[2]] = e
        BY <1>1, <1>3, <2>3, <3>2, <4>1
      <4> QED BY <1>1, <1>2, <2>3, <2>4, <4>1, <4>2
    <3>3. CASE y[1] = a /\ y[2] >= i
      <4>0. f[y] = <<a, y[2] + 1>> /\ y[2] \in 1..n - 1
        BY <1>1, <1>3, <2>3, <3>3
      <4>1. f[y] = <<a, y[2] + 1>> /\ y[2] \in 1..n - 1 /\ y[2] + 1 # i /\ y[2] + 1 \in 1..n /\ y[2] + 1 \in 1..MaxRefs
        <5> HIDE DEF f
        <5> QED BY <1>2, <3>3, <4>0
      <4>2. heap[a].refs[y[2] + 1] = e
        <5>1. ~ (y[2] < i)
          BY <1>2, <3>3, <4>1
        <5> QED BY <1>1, <1>3, <2>3, <3>3, <4>1, <5>1
      <4> QED BY <1>1, <1>2, <2>4, <4>1, <4>2
    <3> QED BY <1>2, <2>3, <3>1, <3>2, <3>3
  <2>6. ASSUME NEW y \in S, NEW z \in S, f[y] = f[z] PROVE y = z
    <3>1. y[2] \in Nat /\ z[2] \in Nat /\ i \in Nat
      BY <1>2, <2>3
    <3>2. y[1] = z[1]
      BY <2>6
    <3>3. y[2] = z[2]
      BY <2>6, <3>1, <3>2
    <3> QED BY <2>3, <3>2, <3>3
  <2>7. IsFiniteSet(R \ {x}) /\ Cardinality(R \ {x}) = IF x \in R THEN Cardinality(R) - 1 ELSE Cardinality(R)
    BY <2>1, FS_RemoveElement
  <2>8. Cardinality(S) <= Cardinality(R \ {x})
    <3>1. f \in Injection(S, R \ {x})
      <4>1. f \in [S -> R \ {x}]
        BY <2>5
      <4> HIDE DEF f
      <4> QED BY <2>6, <4>1 DEF Injection, IsInjective
    <3> QED BY <2>7, <3>1, FS_Injection
  <2>9. e = b => x \in R
    BY <1>1, <1>2, <2>4 DEF b
  <2> HIDE DEF f, x
  <2>10. CASE e # b
    <3>1. heap'[e].rc = heap[e].rc
      BY <1>1, <2>2, <2>10
    <3> QED BY <2>1, <2>2, <2>7, <2>8, <3>1 DEF S
  <2>11. CASE e = b
    <3>1. heap'[e].rc = IF heap[e].rc > 0 THEN heap[e].rc - 1 ELSE 0
      BY <1>1, <2>2, <2>11
    <3> QED BY <2>1, <2>2, <2>7, <2>8, <2>9, <2>11, <3>1 DEF S
  <2> QED BY <2>10, <2>11
<1> QED BY <1>4 DEF Counted

(* The counts cover the references in every step.                          *)
LEMMA CountedStep ==
    ASSUME TypeOK, RefsBounded, NEW C \in SUBSET Objs, Usable(C), Counted(C),
           NEW D \in SUBSET Objs, Usable(D)', Continues(C, D)
    PROVE  Counted(D)'
<1>0. heap \in [Objs -> HeapObjects]
  BY DEF TypeOK, HeapObjects
<1>1. ASSUME D \subseteq C, \A q \in D : heap'[q].refs = heap[q].refs /\ heap'[q].rc = heap[q].rc
      PROVE  Counted(D)'
  <2>1. ASSUME NEW e \in D PROVE heap'[e].rc >= Cardinality(ReferencesIn(heap', D, e))
    <3>1. heap[e].rc >= Cardinality(ReferencesIn(heap, C, e)) /\ heap'[e].rc = heap[e].rc /\ heap[e].rc \in Nat
      BY <1>0, <1>1 DEF Counted, HeapObjects
    <3>2. ReferencesIn(heap', D, e) \subseteq ReferencesIn(heap, C, e)
      BY <1>1 DEF ReferencesIn
    <3>3. Cardinality(ReferencesIn(heap', D, e)) <= Cardinality(ReferencesIn(heap, C, e))
      BY <3>2, FewerReferences
    <3> QED BY <3>1, <3>3, ReferencesFinite
  <2> QED BY <2>1 DEF Counted
<1>2. CASE D = C /\ (UNCHANGED heap \/ \E o \in Objs : heap' = Marked(o))
  BY <1>0, <1>1, <1>2 DEF Marked, HeapObjects
<1>3. ASSUME NEW o \in Objs, MkList(o), D = C \cup {o} PROVE Counted(D)'
  <2>1. /\ o \notin C /\ heap' = [heap EXCEPT ![o] = Object("list", NONE)]
        /\ heap'[o].refs = <<>> /\ heap'[o].rc = 0
    BY <1>0, <1>3 DEF MkList, New, Usable, Live, Free, Object
  <2>2. \A q \in C : heap'[q] = heap[q]
    BY <1>0, <2>1
  <2>3. ASSUME NEW e, NEW x \in ReferencesIn(heap', D, e) PROVE x \in ReferencesIn(heap, C, e) /\ e \in C
    <3>1. x \in D \X (1..MaxRefs) /\ x[2] \in DOMAIN heap'[x[1]].refs /\ heap'[x[1]].refs[x[2]] = e
      BY <2>3 DEF ReferencesIn
    <3>2. x[1] # o
      BY <2>1, <3>1, EmptySeq
    <3>3. x[1] \in C /\ x \in C \X (1..MaxRefs)
      BY <1>3, <3>1, <3>2
    <3>4. x[2] \in DOMAIN heap[x[1]].refs /\ heap[x[1]].refs[x[2]] = e
      BY <2>2, <3>1, <3>3
    <3>5. e \in Used(x[1])
      BY <3>3, <3>4, UsesObjects
    <3> QED BY <3>3, <3>4, <3>5 DEF ReferencesIn, Usable
  <2>4. ASSUME NEW e \in D PROVE heap'[e].rc >= Cardinality(ReferencesIn(heap', D, e))
    <3>1. CASE e = o
      <4>1. ReferencesIn(heap', D, e) = {}
        BY <2>1, <2>3, <3>1
      <4>2. Cardinality(ReferencesIn(heap', D, e)) = 0
        BY <4>1, FS_EmptySet
      <4> QED BY <2>1, <3>1, <4>2
    <3>2. CASE e # o
      <4>1. e \in C /\ heap[e].rc >= Cardinality(ReferencesIn(heap, C, e)) /\ heap'[e].rc = heap[e].rc /\ heap[e].rc \in Nat
        BY <1>0, <1>3, <2>2, <3>2 DEF Counted, HeapObjects
      <4>2. Cardinality(ReferencesIn(heap', D, e)) <= Cardinality(ReferencesIn(heap, C, e))
        BY <2>3, FewerReferences
      <4> QED BY <4>1, <4>2, ReferencesFinite
    <3> QED BY <3>1, <3>2
  <2> QED BY <2>4 DEF Counted
<1>4. CASE Sweep /\ D = Reachable
  <2>1. D \subseteq C
    BY <1>4, ReachableIsLeast DEF Usable
  <2>2. \A q \in D : heap'[q] = heap[q]
    BY <1>4 DEF Sweep, Usable, Live, Free
  <2> QED BY <1>1, <2>1, <2>2
<1>5. ASSUME NEW a \in Objs, NEW b \in Objs, Link(a, b), D = C PROVE Counted(D)'
  BY <1>5, LinkCounts
<1>6. ASSUME NEW a \in Objs, NEW i \in DOMAIN heap[a].refs, Unlink(a, i), D = C PROVE Counted(D)'
  BY <1>6, UnlinkCounts
<1> QED BY <1>2, <1>3, <1>4, <1>5, <1>6 DEF Continues

(* With lists, nothing that is followed has been freed.                    *)
LEMMA NoFault == ASSUME ~ LateContexts, GInv, LInv PROVE ~ Dangling
<1>0. TypeOK /\ OnlyLists
  BY DEF GInv, LInv
<1>1. PICK C \in SUBSET Objs : Usable(C)
  BY DEF LInv
<1>2. CASE pc = "mark" /\ frames # <<>>
  <2>1. Len(frames) \in DOMAIN frames /\ Top = frames[Len(frames)] /\ Top \in [obj : Objs, at : Nat \ {0}]
    BY <1>0, <1>2, LastAndFront DEF Top, TypeOK
  <2>2. Top.obj \in C
    BY <1>1, <1>2, <2>1 DEF Usable
  <2>3. Top.at <= Len(heap[Top.obj].refs) => heap[Top.obj].refs[Top.at] \in Traced(Top.obj)
    <3>1. heap[Top.obj].refs \in Seq(Objs)
      BY <1>0, <2>1, UsesObjects
    <3>2. Top.at <= Len(heap[Top.obj].refs) => Top.at \in DOMAIN heap[Top.obj].refs
      BY <2>1, <3>1
    <3> QED BY <1>0, <2>1, <3>2, UsesObjects
  <2>4. Traced(Top.obj) \subseteq C /\ C \subseteq Live
    BY <1>0, <1>1, <2>2, ListsUse DEF Usable
  <2> QED BY <1>2, <2>3, <2>4 DEF Dangling
<1>3. CASE pc = "mark" /\ frames = <<>>
  BY <1>1, <1>3 DEF Dangling, Usable
<1>4. CASE pc # "mark"
  BY <1>0, <1>4 DEF Dangling, OnlyLists, TypeOK
<1> QED BY <1>2, <1>3, <1>4

(* The numbers of references, in every state. *)
LEMMA RefsAreBounded == Spec => []RefsBounded
<1>1. Init => RefsBounded
  BY GCAssumption, EmptySeq DEF Init, RefsBounded, Free
<1>2. GInv /\ RefsBounded /\ [Next]_vars => RefsBounded'
  BY RefsBoundedStep DEF GInv
<1> QED BY <1>1, <1>2, Collecting, PTL DEF Spec

(* The invariant for lists: what holds at the start and in every step that *)
(* makes a list or nothing.                                                *)
LEMMA ListsInit == Init => LInv
<1> SUFFICES ASSUME Init PROVE LInv
  OBVIOUS
<1>1. OnlyLists
  BY DEF Init, OnlyLists, Free
<1>2. Usable({}) /\ Counted({})
  BY DEF Init, Usable, Counted
<1> QED BY <1>1, <1>2 DEF Init, LInv

LEMMA ListsKept ==
    ASSUME ~ LateContexts
    PROVE  GInv /\ RefsBounded /\ LInv /\ ~ OthersMade /\ [Next]_vars => LInv'
<1> SUFFICES ASSUME GInv, RefsBounded, LInv, ~ OthersMade, [Next]_vars PROVE LInv'
  OBVIOUS
<1>1. OnlyLists'
  BY ListsStep DEF GInv, LInv
<1>2. pc' # "fault"
  <2>1. ~ Fault
    BY NoFault DEF Fault
  <2> QED BY <2>1 DEF LInv, Next, Gc, vars, MkList, MkClosure, MkMap, New, Link, Unlink, AddRoot, RemoveRoot, AddContext, RemoveContext, Load,
             Running, GcStart, MarkRoot, MarkChild, MarkReturn, Sweep, Restart
<1>3. PICK C \in SUBSET Objs : Usable(C) /\ Counted(C)
  BY DEF LInv
<1>4. PICK D \in SUBSET Objs : Usable(D)' /\ Continues(C, D)
  <2>1. OnlyLists /\ pc # "fault" /\ (pc = "mark" => \E V \in SUBSET Objs : Reached(V))
    BY DEF LInv
  <2> QED BY <1>3, <2>1, UsableStep
<1>5. Counted(D)'
  BY <1>3, <1>4, CountedStep DEF GInv
<1>6. pc' = "mark" => \E V \in SUBSET Objs : Reached(V)'
  BY ReachedStep
<1> QED BY <1>1, <1>2, <1>4, <1>5, <1>6 DEF LInv

LEMMA ListsInvariance == ASSUME Kinds \subseteq {"list"}, ~ LateContexts PROVE Spec => []LInv
<1>1. ~ OthersMade
  BY DEF OthersMade, MkClosure, MkMap
<1>2. GInv /\ RefsBounded /\ LInv /\ [Next]_vars => LInv'
  BY <1>1, ListsKept
<1> QED BY <1>2, ListsInit, Collecting, RefsAreBounded, PTL DEF Spec

(* What it says of the program.                                            *)
LEMMA ListsAreSafe == TypeOK /\ LInv => RootsSurvive /\ SurvivorsIntact /\ InDegreeCovers
<1> SUFFICES ASSUME TypeOK, LInv PROVE RootsSurvive /\ SurvivorsIntact /\ InDegreeCovers
  OBVIOUS
<1>1. PICK C \in SUBSET Objs : Usable(C) /\ Counted(C)
  BY DEF LInv
<1>2. ASSUME NEW e \in known PROVE heap[e].rc >= Cardinality(References(e))
  <2>1. e \in C /\ known \in SUBSET Objs /\ known \subseteq C
    BY <1>1 DEF Usable
  <2>2. heap[e].rc >= Cardinality(ReferencesIn(heap, C, e)) /\ heap[e].rc \in Nat
    BY <1>1, <2>1 DEF Counted, TypeOK
  <2>3. References(e) = ReferencesIn(heap, known, e)
    BY DEF References, ReferencesIn
  <2>4. ReferencesIn(heap, known, e) \subseteq ReferencesIn(heap, C, e)
    BY <2>1 DEF ReferencesIn
  <2>5. Cardinality(ReferencesIn(heap, known, e)) <= Cardinality(ReferencesIn(heap, C, e))
    BY <2>1, <2>4, FewerReferences
  <2>6. Cardinality(ReferencesIn(heap, known, e)) \in Nat /\ Cardinality(ReferencesIn(heap, C, e)) \in Nat
    BY <2>1, ReferencesFinite
  <2> QED BY <2>2, <2>3, <2>5, <2>6
<1> QED BY <1>1, <1>2 DEF Usable, RootsSurvive, SurvivorsIntact, InDegreeCovers

(* For any number of objects, references and collections, and also when    *)
(* they are linked into cycles: the roots survive, and everything that the *)
(* operations on an object use which the program can still reach, if each  *)
(* trace function marks all it refers to (state.c:107) and no context is   *)
(* added or removed after the first collection; and no collection leaves a *)
(* count below the references it stands for.                               *)
THEOREM RootsKeepTheirOwn ==
    ASSUME Kinds \subseteq {"list"}, ~ LateContexts
    PROVE  Spec => [](RootsSurvive /\ SurvivorsIntact /\ InDegreeCovers)
<1>1. GInv /\ LInv => RootsSurvive /\ SurvivorsIntact /\ InDegreeCovers
  BY ListsAreSafe DEF GInv
<1> QED BY <1>1, Collecting, ListsInvariance, PTL

-----------------------------------------------------------------------------
(* What an object leads to by one reference or more.                       *)
Beyond(o) == ReachableBy(Traced, Traced(o))

(* Without cycles no object leads to itself, not even through a reference  *)
(* to a block that was freed and has been allocated again.                 *)
Acyclic == \A o \in Objs : o \notin Beyond(o)

(* A call of trace works on something that its callers' objects lead to.   *)
Descends == \A m, n \in DOMAIN frames : m < n => frames[n].obj \in Beyond(frames[m].obj)

(* What an object leads to is closed, and least.                           *)
LEMMA BeyondCloses ==
    ASSUME TypeOK, NEW o \in Objs
    PROVE  /\ Traced(o) \subseteq Beyond(o) /\ Beyond(o) \subseteq Objs
           /\ \A p \in Beyond(o) : Traced(p) \subseteq Beyond(o)
<1>1. \A p \in Objs : Traced(p) \subseteq Objs
  BY UsesObjects
<1>2. ASSUME NEW p \in Beyond(o), NEW q \in Traced(p) PROVE q \in Beyond(o)
  <2>1. p \in Objs /\ q \in Objs
    BY <1>1, <1>2 DEF Beyond, ReachableBy
  <2> QED BY <1>2, <2>1 DEF Beyond, ReachableBy, Closed
<1> QED BY <1>1, <1>2 DEF Beyond, ReachableBy

LEMMA BeyondIsLeast ==
    ASSUME NEW o, NEW S \in SUBSET Objs, Traced(o) \subseteq S, \A p \in S : Traced(p) \subseteq S
    PROVE  Beyond(o) \subseteq S
BY DEF Beyond, ReachableBy, Closed

(* The same of the next state.                                             *)
LEMMA BeyondIsLeastNext ==
    ASSUME NEW o, NEW S \in SUBSET Objs, Traced(o)' \subseteq S, \A p \in S : Traced(p)' \subseteq S
    PROVE  Beyond(o)' \subseteq S
BY DEF Beyond, ReachableBy, Closed

(* Fewer references lead to fewer objects.                                 *)
LEMMA BeyondShrinks ==
    ASSUME TypeOK, \A p \in Objs : Traced(p)' \subseteq Traced(p)
    PROVE  \A o \in Objs : Beyond(o)' \subseteq Beyond(o)
<1> SUFFICES ASSUME NEW o \in Objs PROVE Beyond(o)' \subseteq Beyond(o)
  OBVIOUS
<1>1. PICK S \in SUBSET Objs : S = Beyond(o)
  BY BeyondCloses
<1>2. Traced(o)' \subseteq S /\ \A p \in S : Traced(p)' \subseteq S
  BY <1>1, BeyondCloses
<1> QED BY <1>1, <1>2, BeyondIsLeastNext

LEMMA BeyondStays ==
    ASSUME \A p \in Objs : Traced(p)' = Traced(p)
    PROVE  \A o \in Objs : Beyond(o)' = Beyond(o)
BY DEF Beyond, ReachableBy, Closed

(* A link that closes no cycle leaves none.                                *)
LEMMA LinkKeepsAcyclic ==
    ASSUME TypeOK, Acyclic, ~ Cycles, NEW a \in Objs, NEW b \in Objs, Link(a, b)
    PROVE  Acyclic'
<1>1. PICK S \in SUBSET Objs : b \in S /\ a \notin S /\ \A o \in S : Used(o) \subseteq S
  BY DEF Link, ReachableBy, Closed
<1>2. /\ \A o \in S : Traced(o) \subseteq S
      /\ \A p \in Objs : Traced(p)' = IF p = a THEN Traced(a) \cup {b} ELSE Traced(p)
  <2>1. \A q \in Objs : heap'[q].refs = IF q = a THEN Append(heap[a].refs, b) ELSE heap[q].refs
    BY LinkDoes
  <2>2. ToSet(Append(heap[a].refs, b)) = ToSet(heap[a].refs) \cup {b}
    BY AppendsOne, UsesObjects
  <2> QED BY <1>1, <2>1, <2>2, UsesObjects DEF Traced
<1>3. ASSUME NEW o \in Objs PROVE o \notin Beyond(o)'
  <2>1. PICK B \in SUBSET Objs : B = Beyond(o)
    BY BeyondCloses
  <2>2. Traced(o) \subseteq B /\ o \notin B /\ \A p \in B : Traced(p) \subseteq B
    BY <2>1, BeyondCloses DEF Acyclic
  <2>3. CASE o # a /\ a \notin B
    <3>1. Traced(o)' \subseteq B /\ \A p \in B : Traced(p)' \subseteq B
      BY <1>2, <2>2, <2>3
    <3> QED BY <2>2, <3>1, BeyondIsLeastNext
  <2>4. CASE o = a \/ a \in B
    <3>1. o \notin S
      <4>1. CASE o \in S /\ a \in B
        <5>1. B \subseteq S
          BY <1>2, <2>1, <4>1, BeyondIsLeast
        <5> QED BY <1>1, <4>1, <5>1
      <4> QED BY <1>1, <2>4, <4>1
    <3>2. PICK T \in SUBSET Objs : T = B \cup S
      OBVIOUS
    <3>3. Traced(o)' \subseteq T /\ \A p \in T : Traced(p)' \subseteq T
      BY <1>1, <1>2, <2>2, <3>2
    <3> QED BY <2>2, <3>1, <3>2, <3>3, BeyondIsLeastNext
  <2> QED BY <2>3, <2>4
<1> QED BY <1>3 DEF Acyclic

(* No step closes a cycle.                                                 *)
LEMMA AcyclicStep == ASSUME TypeOK, Acyclic, ~ Cycles, [Next]_vars PROVE Acyclic'
<1>0. heap \in [Objs -> HeapObjects]
  BY DEF TypeOK, HeapObjects
<1>1. ASSUME \A p \in Objs : Traced(p)' \subseteq Traced(p) PROVE Acyclic'
  BY <1>1, BeyondShrinks DEF Acyclic
<1>2. ASSUME \A p \in Objs : heap'[p].refs = heap[p].refs \/ heap'[p].refs = <<>> PROVE Acyclic'
  <2>1. ToSet(<<>>) = {}
    BY EmptySeq DEF ToSet
  <2>2. \A p \in Objs : ToSet(heap'[p].refs) \subseteq ToSet(heap[p].refs)
    BY <1>2, <2>1
  <2> QED BY <1>1, <2>2 DEF Traced
<1>3. ASSUME NEW o \in Objs, MkList(o) PROVE Acyclic'
  BY <1>0, <1>2, <1>3 DEF MkList, New, Object, Free
<1>4. ASSUME NEW o \in Objs, NEW p \in Objs, MkClosure(o, p) \/ MkMap(o, p) PROVE Acyclic'
  BY <1>2, <1>4, NewHasNone
<1>5. ASSUME NEW o \in Objs, NEW p \in Objs, Link(o, p) PROVE Acyclic'
  BY <1>5, LinkKeepsAcyclic
<1>6. ASSUME NEW o \in Objs, NEW i \in DOMAIN heap[o].refs, Unlink(o, i) PROVE Acyclic'
  <2>1. \A q \in Objs : heap'[q].refs = IF q = o THEN RemoveAt(heap[o].refs, i) ELSE heap[q].refs
    BY <1>6, UnlinkDoes
  <2>2. ToSet(RemoveAt(heap[o].refs, i)) \subseteq ToSet(heap[o].refs)
    BY RemovesOne, UsesObjects
  <2> QED BY <1>1, <2>1, <2>2 DEF Traced
<1>7. ASSUME NEW o \in Objs, MarkRoot(o) PROVE Acyclic'
  BY <1>2, <1>7, MarksOne DEF MarkRoot
<1>8. CASE MarkChild
  BY <1>2, <1>8, MarksOne, NextChild
<1>9. CASE Sweep \/ Restart
  BY <1>2, <1>9 DEF Sweep, Restart, Free
<1>10. CASE UNCHANGED heap
  BY <1>2, <1>10
<1> QED BY <1>3, <1>4, <1>5, <1>6, <1>7, <1>8, <1>9, <1>10
        DEF Next, Gc, AddRoot, RemoveRoot, AddContext, RemoveContext, Load, GcStart, MarkReturn, Fault, vars

(* The calls in progress descend through the objects.                      *)
LEMMA DescendsStep == ASSUME GInv, Descends, [Next]_vars PROVE Descends'
<1>0. TypeOK /\ frames \in Seq([obj : Objs, at : Nat \ {0}])
  BY DEF GInv, TypeOK
<1>1. ASSUME DOMAIN frames' = {} PROVE Descends'
  BY <1>1 DEF Descends
<1>2. ASSUME Running PROVE Descends'
  BY <1>1, <1>2, EmptySeq DEF Running, GInv, Marking
<1>3. ASSUME NEW o \in Objs, MarkRoot(o) PROVE Descends'
  <2>1. DOMAIN frames' = {1}
    BY <1>3 DEF MarkRoot
  <2> QED BY <2>1 DEF Descends
<1>4. \A f \in DOMAIN frames : frames[f].obj \in Objs /\ frames[f] \in [obj : Objs, at : Nat \ {0}] /\ f \in Nat
  <2>1. \A S : \A s \in Seq(S) : \A f \in DOMAIN s : s[f] \in S /\ f \in Nat
    OBVIOUS
  <2>2. \A f \in DOMAIN frames : frames[f] \in [obj : Objs, at : Nat \ {0}] /\ f \in Nat
    BY <1>0, <2>1
  <2> QED BY <2>2
<1>5. CASE MarkChild
  <2> DEFINE c == heap[Top.obj].refs[Top.at]
             n == Len(frames)
  <2>1. /\ n \in DOMAIN frames /\ Top = frames[n] /\ c \in Traced(Top.obj) /\ heap' = Marked(c) /\ c \in Objs
        /\ DOMAIN frames' = DOMAIN frames \cup {n + 1} /\ frames'[n + 1].obj = c /\ n + 1 \notin DOMAIN frames
        /\ \A f \in DOMAIN frames : frames'[f] = IF f = n THEN [frames[f] EXCEPT !.at = @ + 1] ELSE frames[f]
    BY <1>0, <1>5, NextChild
  <2>2. \A f \in DOMAIN frames : frames'[f].obj = frames[f].obj
    BY <1>4, <2>1
  <2>3. \A o \in Objs : Beyond(o)' = Beyond(o)
    BY <1>0, <2>1, MarksOne, BeyondStays
  <2>4. n \in Nat /\ \A f \in DOMAIN frames : f \in 1..n
    BY <1>0
  <2> HIDE DEF c, n
  <2>5. ASSUME NEW f \in DOMAIN frames PROVE c \in Beyond(frames[f].obj)
    <3>1. CASE f = n
      BY <1>0, <1>4, <2>1, <3>1, BeyondCloses
    <3>2. CASE f # n
      <4>1. f < n
        BY <2>4, <3>2
      <4>2. frames[n].obj \in Beyond(frames[f].obj)
        BY <2>1, <4>1 DEF Descends
      <4> QED BY <1>0, <1>4, <2>1, <4>2, BeyondCloses
    <3> QED BY <3>1, <3>2
  <2>6. ASSUME NEW f \in DOMAIN frames', NEW g \in DOMAIN frames', f < g
        PROVE  frames'[g].obj \in Beyond(frames[f].obj)'
    <3>1. f \in DOMAIN frames
      BY <1>4, <2>1, <2>4, <2>6
    <3>2. frames'[g].obj \in Beyond(frames[f].obj)
      BY <2>1, <2>2, <2>5, <2>6, <3>1 DEF Descends
    <3> QED BY <1>4, <2>2, <2>3, <3>1, <3>2
  <2> QED BY <2>6 DEF Descends
<1>6. ASSUME UNCHANGED heap, \A f \in DOMAIN frames' : f \in DOMAIN frames /\ frames'[f] = frames[f] PROVE Descends'
  <2>1. \A o \in Objs : Beyond(o)' = Beyond(o)
    BY <1>6, BeyondStays DEF Traced
  <2> QED BY <1>4, <1>6, <2>1 DEF Descends
<1>7. CASE MarkReturn
  BY <1>0, <1>6, <1>7, LastAndFront DEF MarkReturn
<1>8. CASE GcStart \/ Fault \/ UNCHANGED vars
  BY <1>6, <1>8 DEF GcStart, Fault, vars
<1>9. CASE Sweep \/ Restart
  BY <1>1, <1>9, EmptySeq DEF Sweep, Restart
<1> QED BY <1>2, <1>3, <1>5, <1>7, <1>8, <1>9
        DEF Next, Gc, MkList, MkClosure, MkMap, New, Link, Unlink, AddRoot, RemoveRoot, AddContext, RemoveContext, Load

(* The size of an interval.                                                *)
LEMMA IntervalSize ==
    ASSUME NEW n \in Nat
    PROVE  IsFiniteSet(1..n) /\ Cardinality(1..n) = n
<1>1. IsFiniteSet(1..n) /\ Cardinality(1..n) = IF 1 > n THEN 0 ELSE n - 1 + 1
  BY FS_Interval
<1>2. CASE n = 0
  BY <1>1, <1>2
<1>3. CASE n > 0
  BY <1>1, <1>3
<1> QED BY <1>2, <1>3

(* So no object is traced by two calls, and there are no more calls than   *)
(* objects.                                                                *)
LEMMA CallsAreBounded == GInv /\ Acyclic /\ Descends => MarkDepthBounded
<1> SUFFICES ASSUME TypeOK, Acyclic, Descends PROVE MarkDepthBounded
  BY DEF GInv
<1> DEFINE n == Len(frames)
           f == [m \in 1..n |-> frames[m].obj]
<1>1. n \in Nat /\ DOMAIN frames = 1..n /\ \A m \in 1..n : frames[m] \in [obj : Objs, at : Nat \ {0}]
  <2>1. \A S : \A s \in Seq(S) : Len(s) \in Nat /\ DOMAIN s = 1..Len(s) /\ \A m \in 1..Len(s) : s[m] \in S
    OBVIOUS
  <2>2. frames \in Seq([obj : Objs, at : Nat \ {0}])
    BY DEF TypeOK
  <2> QED BY <2>1, <2>2
<1> HIDE DEF n
<1>2. ASSUME NEW m \in 1..n, NEW k \in 1..n, f[m] = f[k] PROVE m = k
  <2>1. m \in Nat /\ k \in Nat /\ frames[m].obj = frames[k].obj /\ frames[m].obj \in Objs
    BY <1>1, <1>2
  <2>2. ~ (m < k) /\ ~ (k < m)
    BY <1>1, <2>1 DEF Descends, Acyclic
  <2> QED BY <2>1, <2>2
<1>3. f \in Injection(1..n, Objs)
  <2>1. f \in [1..n -> Objs]
    BY <1>1
  <2> HIDE DEF f
  <2> QED BY <1>2, <2>1 DEF Injection, IsInjective
<1>4. Cardinality(1..n) <= Cardinality(Objs)
  BY <1>3, GCAssumption, FS_Injection
<1>5. Cardinality(1..n) = n
  BY <1>1, IntervalSize
<1> QED BY <1>4, <1>5 DEF MarkDepthBounded, n

(* For any objects of any kinds that are not linked into cycles: the mark  *)
(* phase, which traces a reference whether its object is marked already or *)
(* not, is never deeper than there are objects.                            *)
THEOREM MarkingStaysShallow == ASSUME ~ Cycles PROVE Spec => []MarkDepthBounded
<1>1. Init => Acyclic /\ Descends
  <2> SUFFICES ASSUME Init PROVE Acyclic /\ Descends
    OBVIOUS
  <2>1. \A o \in Objs : Traced(o) = {}
    BY EmptySeq DEF Init, Free, Traced, ToSet
  <2>2. \A o \in Objs : Beyond(o) \subseteq {}
    BY <2>1, BeyondIsLeast
  <2> QED BY <2>2, EmptySeq DEF Init, Acyclic, Descends
<1>2. GInv /\ Acyclic /\ Descends /\ [Next]_vars => (Acyclic /\ Descends)'
  BY AcyclicStep, DescendsStep DEF GInv
<1> QED BY <1>1, <1>2, Collecting, CallsAreBounded, PTL DEF Spec

-----------------------------------------------------------------------------
(* The specification that is model-checked is one of these behaviours.     *)
LEMMA GCSpecIsSpec == GCSpec => Spec
<1>1. GCInit => Init
  BY DEF GCInit
<1>2. [GCNext]_<<vars, using>> => [Next]_vars
  BY DEF GCNext
<1> QED BY <1>1, <1>2, PTL DEF GCSpec, Spec

(* In its behaviours with lists no other container is made.                *)
LEMMA OnlyListsAreMade ==
    ASSUME TypeOK, using = "lists", [GCNext]_<<vars, using>>
    PROVE  ~ OthersMade
<1>0. heap \in [Objs -> HeapObjects]
  BY DEF TypeOK, HeapObjects
<1>1. ASSUME NEW o \in Objs, NEW p \in Objs, MkClosure(o, p) \/ MkMap(o, p)
      PROVE  heap'[o].kind \in {"closure", "map"} /\ heap[o].kind = "free"
  <2>1. CASE MkClosure(o, p)
    <3>1. heap' = [heap EXCEPT ![o] = Object("closure", p)] /\ heap[o] = Free
      BY <2>1 DEF MkClosure, New
    <3>2. Object("closure", p).kind = "closure" /\ Free.kind = "free"
      BY DEF Object, Free
    <3> QED BY <1>0, <3>1, <3>2
  <2>2. CASE MkMap(o, p)
    <3>1. /\ heap' = [heap EXCEPT ![o] = Object("map", p), ![p] = Object("list", NONE)]
          /\ heap[o] = Free /\ o # p
      BY <2>2 DEF MkMap
    <3>2. Object("map", p).kind = "map" /\ Free.kind = "free"
      BY DEF Object, Free
    <3> QED BY <1>0, <3>1, <3>2
  <2> QED BY <1>1, <2>1, <2>2
<1>2. GCNext => \A o \in Objs : heap'[o].kind \in {"free", "list"}
  BY DEF GCNext, Within
<1>3. GCNext \/ UNCHANGED heap
  BY DEF vars
<1> QED BY <1>1, <1>2, <1>3 DEF OthersMade

(* For any number of objects and of collections, with containers that are  *)
(* not linked into cycles: the mark phase stays within its bound; and with *)
(* lists, and no call about a context after the first collection, the      *)
(* roots survive every collection (state.c:107), with all they lead to, no *)
(* count falls below the number of references, and no call uses freed      *)
(* memory.                                                                 *)
THEOREM CollectionsSpareTheLists == ASSUME ~ Cycles, ~ LateContexts PROVE GCSpec => []ListsSurvive
<1> DEFINE Lists == using = "lists" => LInv
<1>1. GCInit => Lists
  BY ListsInit DEF GCInit
<1>2. GInv /\ RefsBounded /\ Lists /\ [GCNext]_<<vars, using>> => Lists'
  <2> SUFFICES ASSUME GInv, RefsBounded, Lists, [GCNext]_<<vars, using>>, using' = "lists" PROVE LInv'
    OBVIOUS
  <2>1. using = "lists" /\ LInv /\ [Next]_vars
    BY DEF GCNext
  <2>2. ~ OthersMade
    BY <2>1, OnlyListsAreMade DEF GInv
  <2> QED BY <2>1, <2>2, ListsKept
<1>3. GInv /\ Lists /\ MarkDepthBounded => ListsSurvive
  BY ListsAreSafe DEF GInv, LInv, ListsSurvive
<1>4. GCSpec => []Lists
  BY <1>1, <1>2, GCSpecIsSpec, Collecting, RefsAreBounded, PTL DEF GCSpec
<1> QED BY <1>3, <1>4, GCSpecIsSpec, Collecting, MarkingStaysShallow, PTL
=============================================================================
