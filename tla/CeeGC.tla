-------------------------------- MODULE CeeGC --------------------------------
(***************************************************************************)
(* cee_state_gc: mark what can be reached from the roots, recursively and  *)
(* with the mark value of this collection, then free every block whose     *)
(* mark is another value.  The mark value alternates between 1 and 0, and  *)
(* a new block has mark 0.  CeeChain shows how sweep walks the blocks;     *)
(* here it is one step, and the recursion of the mark phase is modelled    *)
(* with its call stack.                                                    *)
(*                                                                         *)
(* Kinds of object: "list" stands for every container whose trace function *)
(* marks all it refers to; "map" has, besides its values, the list of its  *)
(* keys in insertion order, a block of its own; "closure" has an           *)
(* environment.                                                            *)
(***************************************************************************)
EXTENDS Naturals, FiniteSets, SequencesExt

CONSTANTS
    Objs,      \* addresses
    NONE,      \* no object
    Kinds,     \* the kinds of object in use
    Cycles,    \* TRUE: a program links containers into cycles, which cee.h
               \* allows for every policy but CEE_DP_DEL_RC
    LateContexts, \* TRUE: a program adds or removes a context after its first
               \* collection
    MaxRefs,   \* bound on the references of a container
    MaxRc      \* bound on the counts, which sweep lets grow

ASSUME GCAssumption == /\ IsFiniteSet(Objs) /\ NONE \notin Objs
                       /\ {Cycles, LateContexts} \subseteq BOOLEAN /\ {MaxRefs, MaxRc} \subseteq Nat

VARIABLES
    heap,       \* the object at each address, or Free
    roots,      \* what the set of roots, the stack and the contexts refer to
    ctx_list,   \* the map of contexts has its list of keys
    known,      \* the objects the program has a pointer to
    young,      \* the objects allocated since the last collection
    next_mark,  \* the mark value of the next collection
    pc,         \* "run", "mark" or "fault" (freed memory was used)
    todo,       \* the roots the mark phase has not traced
    frames      \* the calls of trace(MARK) in progress: object, next reference

vars == <<heap, roots, ctx_list, known, young, next_mark, pc, todo, frames>>

Free == [kind |-> "free", refs |-> <<>>, side |-> NONE, rc |-> 0, gc_mark |-> 0]
Object(k, side) == [Free EXCEPT !.kind = k, !.side = side]

Live == {o \in Objs : heap[o].kind # "free"}

(* What trace(MARK) of an object follows: the key list of a map and the    *)
(* environment of a closure are not among it.                              *)
Traced(o) == ToSet(heap[o].refs)

(* What the operations on an object use. *)
Used(o) == Traced(o) \cup ({heap[o].side} \ {NONE})

(* The smallest set that has all of from and is closed under F.            *)
Closed(F(_), S) == \A o \in S : F(o) \subseteq S
ReachableBy(F(_), from) ==
    {o \in Objs : \A S \in SUBSET Objs : (from \subseteq S /\ Closed(F, S)) => o \in S}

Reachable == ReachableBy(Used, roots)

-----------------------------------------------------------------------------
Init == /\ heap = [o \in Objs |-> Free]
        /\ roots = {} /\ ctx_list = TRUE /\ known = {} /\ young = {}
        /\ next_mark = 1
        /\ pc = "run" /\ todo = {} /\ frames = <<>>

Running == pc = "run" /\ UNCHANGED <<ctx_list, next_mark, pc, todo, frames>>

(* A new block is known to the program and not yet anywhere else. *)
New(o, object) ==
    /\ Running /\ heap[o] = Free
    /\ heap' = [heap EXCEPT ![o] = object]
    /\ known' = known \cup {o} /\ young' = young \cup {o}
    /\ UNCHANGED roots

MkList(o) == "list" \in Kinds /\ New(o, Object("list", NONE))

MkClosure(o, env) == "closure" \in Kinds /\ env \in known /\ New(o, Object("closure", env))

(* cee_map_mk_e allocates the key list, then the map; only the map itself  *)
(* is handed to the program.                                               *)
MkMap(o, keys) ==
    /\ "map" \in Kinds
    /\ Running /\ heap[o] = Free /\ heap[keys] = Free /\ o # keys
    /\ heap' = [heap EXCEPT ![o] = Object("map", keys), ![keys] = Object("list", NONE)]
    /\ known' = known \cup {o} /\ young' = young \cup {o, keys}
    /\ UNCHANGED roots

(* Faulty: the count goes to the container. *)
LinkCountsContainer(a, b) ==
    /\ Running /\ {a, b} \subseteq known \cap Live
    /\ heap[a].kind = "list"
    /\ Len(heap[a].refs) < MaxRefs /\ heap[a].rc < MaxRc
    /\ Cycles \/ a \notin ReachableBy(Used, {b})
    /\ heap' = [heap EXCEPT ![a].refs = Append(@, b), ![a].rc = @ + 1]
    /\ UNCHANGED <<roots, known, young>>

(* A container takes one more element and counts it; a map also appends to *)
(* its key list.                                                           *)
Link(a, b) ==
    /\ Running /\ {a, b} \subseteq known \cap Live
    /\ heap[a].kind = "list" \/ (heap[a].kind = "map" /\ heap[a].side \in Live)
    /\ Len(heap[a].refs) < MaxRefs /\ heap[b].rc < MaxRc
    /\ Cycles \/ a \notin ReachableBy(Used, {b})
    /\ heap' = [heap EXCEPT ![a].refs = Append(@, b), ![b].rc = @ + 1]
    /\ UNCHANGED <<roots, known, young>>

Unlink(a, i) ==
    /\ Running /\ a \in known /\ heap[a].refs[i] \in Live
    /\ LET b == heap[a].refs[i]
       IN  heap' = [heap EXCEPT ![a].refs = RemoveAt(@, i),
                                ![b].rc = IF @ > 0 THEN @ - 1 ELSE 0]
    /\ UNCHANGED <<roots, known, young>>

(* A pointer read out of a container. *)
Load(a) == /\ Running /\ a \in known
           /\ known' = known \cup Traced(a)
           /\ UNCHANGED <<heap, roots, young>>

(* cee_state_add_gc_root, cee_state_remove_gc_root.                        *)
AddRoot(o) == /\ Running /\ o \in known
              /\ roots' = roots \cup {o}
              /\ UNCHANGED <<heap, known, young>>

RemoveRoot(o) == /\ Running /\ o \in roots
                 /\ roots' = roots \ {o}
                 /\ UNCHANGED <<heap, known, young>>

(* cee_state_add_context, cee_state_remove_context: cee_map_add appends a  *)
(* new key to the map's list, cee_map_remove takes it out of there.  What  *)
(* a set of roots and a context both refer to is in roots until both let   *)
(* go of it: that RemoveRoot or RemoveContext changes nothing is allowed.  *)
(* The count that a context adds to its value is left out: it comes and    *)
(* goes with the context.                                                  *)
AddContext(o) == ctx_list /\ AddRoot(o)

RemoveContext(o) == ctx_list /\ RemoveRoot(o)

-----------------------------------------------------------------------------
(* trace(MARK) sets the mark of the object it is called for; that of a     *)
(* closure does nothing.                                                   *)
Marked(o) == IF heap[o].kind = "closure" THEN heap
             ELSE [heap EXCEPT ![o].gc_mark = next_mark]

GcStart == /\ pc = "run"
           /\ pc' = "mark" /\ todo' = roots
           /\ UNCHANGED <<heap, roots, ctx_list, known, young, next_mark, frames>>

(* Faulty: a root without references is not marked itself. *)
MarkRootEmpty(o) ==
    /\ pc = "mark" /\ frames = <<>> /\ o \in todo \cap Live
    /\ todo' = todo \ {o}
    /\ heap' = IF heap[o].refs = <<>> THEN heap ELSE Marked(o)
    /\ frames' = <<[obj |-> o, at |-> 1]>>
    /\ UNCHANGED <<roots, ctx_list, known, young, next_mark, pc>>

MarkRoot(o) == /\ pc = "mark" /\ frames = <<>> /\ o \in todo \cap Live
               /\ todo' = todo \ {o}
               /\ heap' = Marked(o)
               /\ frames' = <<[obj |-> o, at |-> 1]>>
               /\ UNCHANGED <<roots, ctx_list, known, young, next_mark, pc>>

Top == Last(frames)

(* Faulty: the container is traced in the place of its element; the loop   *)
(* does not advance.                                                       *)
MarkChildItself ==
    /\ pc = "mark" /\ frames # <<>> /\ Top.at <= Len(heap[Top.obj].refs)
    /\ Len(frames) <= Cardinality(Objs)
    /\ heap' = Marked(Top.obj)
    /\ frames' = Append([frames EXCEPT ![Len(frames)].at = @ + 1], [obj |-> Top.obj, at |-> 1])
    /\ UNCHANGED <<roots, ctx_list, known, young, next_mark, pc, todo>>
MarkChildStays ==
    /\ pc = "mark" /\ frames # <<>> /\ Top.at <= Len(heap[Top.obj].refs)
    /\ LET child == heap[Top.obj].refs[Top.at]
       IN  /\ child \in Live
           /\ heap' = Marked(child)
           /\ frames' = Append(frames, [obj |-> child, at |-> 1])
    /\ UNCHANGED <<roots, ctx_list, known, young, next_mark, pc, todo>>

(* The next reference is traced whether it is marked already or not. *)
MarkChild ==
    /\ pc = "mark" /\ frames # <<>> /\ Top.at <= Len(heap[Top.obj].refs)
    /\ LET child == heap[Top.obj].refs[Top.at]
       IN  /\ child \in Live
           /\ heap' = Marked(child)
           /\ frames' = Append([frames EXCEPT ![Len(frames)].at = @ + 1],
                               [obj |-> child, at |-> 1])
    /\ UNCHANGED <<roots, ctx_list, known, young, next_mark, pc, todo>>

(* Faulty: the loop stops before the last reference. *)
MarkReturnEarly ==
    /\ pc = "mark" /\ frames # <<>> /\ Top.at >= Len(heap[Top.obj].refs)
    /\ frames' = Front(frames)
    /\ UNCHANGED <<heap, roots, ctx_list, known, young, next_mark, pc, todo>>

MarkReturn == /\ pc = "mark" /\ frames # <<>> /\ Top.at > Len(heap[Top.obj].refs)
              /\ frames' = Front(frames)
              /\ UNCHANGED <<heap, roots, ctx_list, known, young, next_mark, pc, todo>>

(* Faulty: the mark value is not flipped. *)
SweepKeepsMark ==
    /\ pc = "mark" /\ frames = <<>> /\ todo = {}
    /\ pc' = "run"
    /\ heap' = [o \in Objs |-> IF heap[o].gc_mark # next_mark THEN Free ELSE heap[o]]
    /\ known' = Reachable \cap known /\ young' = {}
    /\ ctx_list' = FALSE
    /\ UNCHANGED <<roots, next_mark, todo, frames>>

(* sweep frees with CEE_TRACE_DEL_NO_FOLLOW: the counts of what a freed    *)
(* container referred to stay as they are.  From here on the program only  *)
(* uses what its roots lead to.  The map of contexts is always reached,    *)
(* its list of keys never.                                                 *)
Sweep == /\ pc = "mark" /\ frames = <<>> /\ todo = {}
         /\ pc' = "run"
         /\ heap' = [o \in Objs |-> IF heap[o].gc_mark # next_mark THEN Free ELSE heap[o]]
         /\ known' = Reachable \cap known /\ young' = {}
         /\ next_mark' = 1 - next_mark
         /\ ctx_list' = FALSE
         /\ UNCHANGED <<roots, todo, frames>>

(* Marking, adding to a map, or a call about a context follows a pointer   *)
(* to a freed block: what the program does then is undefined, and the      *)
(* model starts over.                                                      *)
Dangling ==
    IF pc = "mark"
    THEN IF frames = <<>> THEN todo # {} /\ todo \cap Live = {}
         ELSE Top.at <= Len(heap[Top.obj].refs) /\ heap[Top.obj].refs[Top.at] \notin Live
    ELSE \/ LateContexts /\ ~ ctx_list /\ known \cup roots # {}
         \/ \E o \in known \cap Live : heap[o].kind = "map" /\ heap[o].side \notin Live

Fault == /\ pc # "fault" /\ Dangling
         /\ pc' = "fault"
         /\ UNCHANGED <<heap, roots, ctx_list, known, young, next_mark, todo, frames>>

Restart == /\ pc = "fault"
           /\ pc' = "run"
           /\ heap' = [o \in Objs |-> Free]
           /\ roots' = {} /\ ctx_list' = TRUE /\ known' = {} /\ young' = {}
           /\ next_mark' = 1
           /\ todo' = {} /\ frames' = <<>>

Gc == (\E o \in Objs : MarkRoot(o)) \/ MarkChild \/ MarkReturn \/ Sweep

Next == \/ \E o \in Objs : MkList(o) \/ AddRoot(o) \/ RemoveRoot(o) \/ Load(o)
        \/ \E o \in Objs : AddContext(o) \/ RemoveContext(o)
        \/ \E o, p \in Objs : MkClosure(o, p) \/ MkMap(o, p) \/ Link(o, p)
        \/ \E o \in Objs : \E i \in DOMAIN heap[o].refs : Unlink(o, i)
        \/ GcStart \/ Gc \/ Fault \/ Restart

Spec == Init /\ [][Next]_vars /\ WF_vars(Gc)

-----------------------------------------------------------------------------
(* Type invariant. *)
TypeOK ==
    /\ heap \in [Objs -> [kind : {"free", "list", "map", "closure"}, refs : Seq(Objs),
                          side : Objs \cup {NONE}, rc : Nat, gc_mark : {0, 1}]]
    /\ {roots, known, young, todo} \subseteq SUBSET Objs
    /\ ctx_list \in BOOLEAN /\ next_mark \in {0, 1} /\ pc \in {"run", "mark", "fault"}
    /\ frames \in Seq([obj : Objs, at : Nat \ {0}])

(* Safety: what the roots refer to survives every collection (state.c:107, *)
(* "add a struct to the roots, so it will survive cee_state_gc").          *)
RootsSurvive == roots \subseteq Live

(* Safety: everything the operations on a surviving object use survives.   *)
SurvivorsIntact == pc = "run" => \A o \in known \cup roots : Used(o) \subseteq Live

(* Action property: a collection frees every object that the roots do not  *)
(* lead to and that is older than the last collection, whatever marks the  *)
(* collections before left on it.                                          *)
SweepFreesOldGarbage == [][Sweep => Live' \subseteq Reachable \cup young]_vars

(* Safety: in_degree never understates the references of the containers    *)
(* the program can use, so a collection leads to no premature free.        *)
References(e) == {x \in known \X (1..MaxRefs) :
                     x[2] \in DOMAIN heap[x[1]].refs /\ heap[x[1]].refs[x[2]] = e}
InDegreeCovers == pc = "run" => \A e \in known : heap[e].rc >= Cardinality(References(e))

(* Safety: the recursion of the mark phase is never deeper than there are  *)
(* objects, so it comes to an end.                                         *)
MarkDepthBounded == Len(frames) <= Cardinality(Objs)
=============================================================================
