------------------------------- MODULE CeeRefs -------------------------------
(***************************************************************************)
(* Reference counts and delete policies.  Every cee object carries an      *)
(* in_degree and a retained bit (cee-common.c); a container adjusts them   *)
(* when it takes or gives up an element, and cee_del of a container        *)
(* applies its delete policy to each element, recursively.  The recursion  *)
(* is modelled with its call stack, one element at a time.                 *)
(*                                                                         *)
(* Kinds of object: "box" holds no reference (block, str, boxed), "list"   *)
(* and "stack" hold a growing number under one policy, "product" a fixed   *)
(* number, each under its own policy (made as "tagged", "tuple", "triple", *)
(* "quadruple" or "n_tuple"), "env" is a cee_env with its outer            *)
(* environment and its variables.                                          *)
(***************************************************************************)
EXTENDS Naturals, FiniteSets, SequencesExt

CONSTANTS
    Objs,       \* addresses
    Policies,   \* the delete policies in use, of "RC", "DEL" and "NOOP"
    Kinds,      \* the kinds of object in use
    Freedoms,   \* what the program allows itself: "mix" gives an object to
                \* both RC and DEL containers, "share_env" gives the outer
                \* environment or the variables of an env another owner
    RcMod,      \* in_degree is a uint16_t: RcMod is 65536 in the code
    MaxSlots    \* bound on the elements of a list; the capacity of a stack

ASSUME RefsAssumption ==
    /\ Policies \subseteq {"RC", "DEL", "NOOP"}
    /\ Freedoms \subseteq {"mix", "share_env"}
    /\ RcMod \in Nat \ {0} /\ MaxSlots \in Nat

VARIABLES
    heap,     \* the object at each address, or Free
    frames    \* the calls of trace(DEL_FOLLOW) in progress, outermost first:
              \* the object, and the next of its elements to look at

vars == <<heap, frames>>

Free == [kind |-> "free", pol |-> "NOOP", slots |-> <<>>, rc |-> 0, retained |-> FALSE]
Object(k, p, s) == [kind |-> k, pol |-> p, slots |-> s, rc |-> 0, retained |-> FALSE]
Slot == [ref : Objs, pol : Policies]

Live == {o \in Objs : heap[o].kind # "free"}
Idle == frames = <<>>

-----------------------------------------------------------------------------
(* What owns what. *)

(* The elements an object still has to look after: all of them, or those   *)
(* its deletion has not reached yet.                                       *)
Held(o) == {i \in DOMAIN heap[o].slots :
               \A f \in DOMAIN frames : frames[f].obj = o => i >= frames[f].at}

(* The references to e under policy p, as pairs of container and index. *)
RefsTo(e, p) == {x \in Live \X (1..MaxSlots + 4) :
                    /\ x[2] \in Held(x[1])
                    /\ heap[x[1]].slots[x[2]] = [ref |-> e, pol |-> p]}
OwningRefs(e) == RefsTo(e, "RC") \cup RefsTo(e, "DEL")
EnvRefs(e) == {x \in OwningRefs(e) : heap[x[1]].kind = "env"}

Owns(a, b) == \E i \in DOMAIN heap[a].slots :
                 heap[a].slots[i].ref = b /\ heap[a].slots[i].pol # "NOOP"
OwnsDeep(a, b) ==
    LET Descend(below, n) == below \cup {x \in Objs : \E y \in below : Owns(y, x)}
    IN  b \in FoldLeft(Descend, {a}, [n \in 1..Cardinality(Objs) |-> n])

(* cee.h leaves it to the program to build no cycle of RC references and   *)
(* to give an object to at most one DEL container.  Unless it takes the    *)
(* freedoms above, a program also keeps RC and DEL owners apart and gives  *)
(* what an env refers to no other owner.                                   *)
MayRefer(kind, e, p) ==
    /\ e \in Live
    /\ p = "DEL" => RefsTo(e, "DEL") = {}
    /\ p # "NOOP" /\ "mix" \notin Freedoms =>
          RefsTo(e, IF p = "RC" THEN "DEL" ELSE "RC") = {}
    /\ p # "NOOP" /\ "share_env" \notin Freedoms =>
          IF kind = "env" THEN OwningRefs(e) = {} ELSE EnvRefs(e) = {}

-----------------------------------------------------------------------------
(* cee-common.c *)

(* cee_incr_indegree, for the elements of s in turn: an object that is     *)
(* retained, or is once the elements before are dealt with, is not counted.*)
CountedIn(h, s, e) ==
    {i \in DOMAIN s : /\ s[i] = [ref |-> e, pol |-> "RC"] /\ ~ h[e].retained
                      /\ \A j \in 1..i-1 : s[j] # [ref |-> e, pol |-> "DEL"]}
Incr(h, s) ==
    [e \in Objs |->
        [h[e] EXCEPT !.rc = (@ + Cardinality(CountedIn(h, s, e))) % RcMod,
                     !.retained = @ \/ \E i \in DOMAIN s : s[i] = [ref |-> e, pol |-> "DEL"]]]

(* Faulty: a DEL container that gives an object up does not release it. *)
DecrKeepsRetained(h, s) ==
    IF s.pol = "RC" /\ ~ h[s.ref].retained /\ h[s.ref].rc > 0
    THEN [h EXCEPT ![s.ref].rc = @ - 1] ELSE h

(* cee_decr_indegree. *)
Decr(h, s) ==
    CASE s.pol = "RC" /\ ~ h[s.ref].retained /\ h[s.ref].rc > 0 ->
            [h EXCEPT ![s.ref].rc = @ - 1]
      [] s.pol = "DEL" -> [h EXCEPT ![s.ref].retained = FALSE]
      [] OTHER -> h

-----------------------------------------------------------------------------
Init == heap = [o \in Objs |-> Free] /\ frames = <<>>

(* The constructors without elements. *)
MkBox(o) == /\ Idle /\ heap[o] = Free /\ "box" \in Kinds
            /\ heap' = [heap EXCEPT ![o] = Object("box", "NOOP", <<>>)]
            /\ UNCHANGED frames

MkSequence(o, kind, p) ==
    /\ Idle /\ heap[o] = Free /\ kind \in Kinds
    /\ heap' = [heap EXCEPT ![o] = Object(kind, p, <<>>)]
    /\ UNCHANGED frames

(* The fixed-size containers count their elements as they are made. *)
MkProduct(o, s) ==
    /\ Idle /\ heap[o] = Free
    /\ \A i \in DOMAIN s : MayRefer("product", s[i].ref, s[i].pol)
    /\ \A i, j \in DOMAIN s : i # j /\ s[i].ref = s[j].ref =>
          \/ "NOOP" \in {s[i].pol, s[j].pol}
          \/ s[i].pol = "RC" /\ s[j].pol = "RC"
          \/ "mix" \in Freedoms /\ s[i].pol # s[j].pol
    /\ heap' = Incr([heap EXCEPT ![o] = Object("product", "NOOP", s)], s)
    /\ UNCHANGED frames

Fillings(n, kind) ==
    LET Offered(p) == {[ref |-> e, pol |-> p] : e \in {x \in Live : MayRefer(kind, x, p)}}
    IN  [1..n -> UNION {Offered(p) : p \in IF Idle THEN Policies ELSE {}}]

(* A tagged value may hold no pointer. *)
MkTagged(o) ==
    "tagged" \in Kinds /\ \E n \in 0..1 : \E s \in Fillings(n, "product") : MkProduct(o, s)
MkTuple(o) == "tuple" \in Kinds /\ \E s \in Fillings(2, "product") : MkProduct(o, s)
MkTriple(o) == "triple" \in Kinds /\ \E s \in Fillings(3, "product") : MkProduct(o, s)
MkQuadruple(o) == "quadruple" \in Kinds /\ \E s \in Fillings(4, "product") : MkProduct(o, s)

(* cee_n_tuple_mk counts every element under CEE_DP_DEL_RC. *)
MkNTuple(o) == /\ "n_tuple" \in Kinds
               /\ \E n \in 0..MaxSlots : \E s \in Fillings(n, "product") :
                     (\A i \in 1..n : s[i].pol = "RC") /\ MkProduct(o, s)

(* cee_env_mk_e does not count the outer environment, if there is one, and *)
(* the variables.                                                          *)
MkEnv(o, s) ==
    /\ Idle /\ heap[o] = Free /\ "env" \in Kinds
    /\ \A i \in DOMAIN s : MayRefer("env", s[i].ref, s[i].pol)
    /\ IsInjective([i \in DOMAIN s |-> s[i].ref])
    /\ heap' = [heap EXCEPT ![o] = Object("env", "NOOP", s)]
    /\ UNCHANGED frames

(* cee_list_insert; cee_list_append is insertion at the end. *)
Insert(l, i, e) ==
    LET s == [ref |-> e, pol |-> heap[l].pol]
    IN  /\ Idle /\ heap[l].kind = "list" /\ Len(heap[l].slots) < MaxSlots
        /\ MayRefer("list", e, s.pol) /\ (s.pol # "NOOP" => ~ OwnsDeep(e, l))
        /\ heap' = Incr([heap EXCEPT ![l].slots = InsertAt(@, i, s)], <<s>>)
        /\ UNCHANGED frames

(* cee_list_remove gives the element back to the program. *)
RemoveElement(l, i) ==
    /\ Idle /\ heap[l].kind = "list"
    /\ heap' = Decr([heap EXCEPT ![l].slots = RemoveAt(@, i)], heap[l].slots[i])
    /\ UNCHANGED frames

(* cee_stack_push; a full stack refuses. *)
Push(k, e) ==
    LET s == [ref |-> e, pol |-> heap[k].pol]
    IN  /\ Idle /\ heap[k].kind = "stack" /\ Len(heap[k].slots) < MaxSlots
        /\ MayRefer("stack", e, s.pol) /\ (s.pol # "NOOP" => ~ OwnsDeep(e, k))
        /\ heap' = Incr([heap EXCEPT ![k].slots = Append(@, s)], <<s>>)
        /\ UNCHANGED frames

(* Faulty: the popped element stays counted. *)
PopKeepsCount(k) == /\ Idle /\ heap[k].kind = "stack" /\ heap[k].slots # <<>>
                    /\ heap' = [heap EXCEPT ![k].slots = Front(@)]
                    /\ UNCHANGED frames

Pop(k) == /\ Idle /\ heap[k].kind = "stack" /\ heap[k].slots # <<>>
          /\ heap' = Decr([heap EXCEPT ![k].slots = Front(@)], Last(heap[k].slots))
          /\ UNCHANGED frames

-----------------------------------------------------------------------------
(* cee_del, by a program that deletes only what no container owns. *)
Del(o) == /\ Idle /\ o \in Live /\ OwningRefs(o) = {}
          /\ frames' = <<[obj |-> o, at |-> 1]>>
          /\ UNCHANGED heap

(* The innermost trace(DEL_FOLLOW) and the element it looks at next. *)
Top == Last(frames)
Current == heap[Top.obj].slots[Top.at]
AtElement(p) == ~ Idle /\ Top.at <= Len(heap[Top.obj].slots) /\ Current.pol = p

Advanced == [frames EXCEPT ![Len(frames)].at = @ + 1]
Call(e) == Append(Advanced, [obj |-> e, at |-> 1])

(* cee_del_e with CEE_DP_NOOP. *)
DelNoop == /\ AtElement("NOOP")
           /\ frames' = Advanced
           /\ UNCHANGED heap

(* Faulty: the loop comes back to the element it has just deleted. *)
DelOwnedAgain == /\ AtElement("DEL")
                 /\ frames' = Append(frames, [obj |-> Current.ref, at |-> 1])
                 /\ UNCHANGED heap

(* cee_del_e with CEE_DP_DEL: cee_del, whatever the counter says. *)
DelOwned == /\ AtElement("DEL") /\ Current.ref \in Live
            /\ frames' = Call(Current.ref)
            /\ UNCHANGED heap

(* Faulty variants of cee_del_ref: other references are ignored; the last  *)
(* reference frees nothing; the loop waits at an element that has another  *)
(* reference.                                                              *)
DelCountedAlways ==
    LET e == Current.ref
        n == IF heap[e].rc > 0 THEN heap[e].rc - 1 ELSE 0
    IN  /\ AtElement("RC") /\ e \in Live
        /\ heap' = [heap EXCEPT ![e].rc = n]
        /\ frames' = IF heap[e].retained THEN Advanced ELSE Call(e)
DelCountedForgets ==
    LET e == Current.ref
        n == IF heap[e].rc > 0 THEN heap[e].rc - 1 ELSE 0
    IN  /\ AtElement("RC") /\ e \in Live
        /\ heap' = [heap EXCEPT ![e].rc = n]
        /\ frames' = Advanced
DelCountedSpins ==
    LET e == Current.ref
    IN  /\ AtElement("RC") /\ e \in Live
        /\ heap' = IF heap[e].rc > 1 THEN heap ELSE [heap EXCEPT ![e].rc = 0]
        /\ frames' = IF heap[e].rc > 1 THEN frames
                     ELSE IF heap[e].retained THEN Advanced ELSE Call(e)

(* cee_del_e with CEE_DP_DEL_RC: cee_del_ref, which spares an object that  *)
(* is retained or has another reference.                                   *)
DelCounted ==
    LET e == Current.ref
        n == IF heap[e].rc > 0 THEN heap[e].rc - 1 ELSE 0
    IN  /\ AtElement("RC") /\ e \in Live
        /\ heap' = [heap EXCEPT ![e].rc = n]
        /\ frames' = IF heap[e].retained \/ n > 0 THEN Advanced ELSE Call(e)

(* All elements are dealt with: de_chain, free and return. *)
DelDone == /\ ~ Idle /\ Top.at > Len(heap[Top.obj].slots)
           /\ heap' = [heap EXCEPT ![Top.obj] = Free]
           /\ frames' = Front(frames)

DelStep == DelNoop \/ DelOwned \/ DelCounted \/ DelDone

Next == \/ \E o \in Objs : MkBox(o) \/ Del(o)
        \/ \E o \in Objs, k \in {"list", "stack"}, p \in Policies : MkSequence(o, k, p)
        \/ \E o \in Objs : MkTagged(o) \/ MkTuple(o) \/ MkTriple(o) \/ MkQuadruple(o) \/ MkNTuple(o)
        \/ \E o \in Objs, n \in 1..2 : \E s \in Fillings(n, "env") : MkEnv(o, s)
        \/ \E l \in Live, e \in Live : \E i \in 1..Len(heap[l].slots) + 1 : Insert(l, i, e)
        \/ \E l \in Live : \E i \in DOMAIN heap[l].slots : RemoveElement(l, i)
        \/ \E k \in Live, e \in Live : Push(k, e)
        \/ \E k \in Live : Pop(k)
        \/ DelStep

Spec == Init /\ [][Next]_vars /\ WF_vars(DelStep)

-----------------------------------------------------------------------------
(* Type invariant. *)
TypeOK ==
    /\ heap \in [Objs -> [kind : {"free", "box", "list", "stack", "product", "env"},
                          pol : Policies \cup {"NOOP"}, slots : Seq(Slot),
                          rc : 0..RcMod - 1, retained : BOOLEAN]]
    /\ frames \in Seq([obj : Objs, at : Nat \ {0}])

(* Safety: an element that an allocated container still has to look after  *)
(* is allocated, so no deletion follows a dangling pointer.                *)
NoDanglingElement ==
    \A o \in Live : \A i \in Held(o) :
        heap[o].slots[i].pol # "NOOP" => heap[o].slots[i].ref \in Live

(* Safety: in_degree is the number of counted references (cee.h:80, "if an *)
(* object is owned by multiple del_rc containers, in_degree is the number  *)
(* of containers"), unless the object is retained.                         *)
InDegreeIsOwners ==
    \A e \in Live : ~ heap[e].retained =>
        heap[e].rc = Cardinality({x \in RefsTo(e, "RC") : heap[x[1]].kind # "env"})

(* Safety: an object is retained exactly while a counting DEL container    *)
(* has it, so cee_decr_indegree never reaches cee_segfault.                *)
RetainedIsOwned ==
    \A e \in Live : (\A f \in DOMAIN frames : frames[f].obj # e) =>
        (heap[e].retained <=> \E x \in RefsTo(e, "DEL") : heap[x[1]].kind # "env")

(* Safety: no object is deleted while its deletion is already running.     *)
NoDoubleDelete ==
    \A f, g \in DOMAIN frames : /\ frames[f].obj \in Live
                                /\ f # g => frames[f].obj # frames[g].obj

(* Safety, the two together: whatever is shared, a deletion meets objects  *)
(* that are allocated only, and each of them once (cee-common.c:53).       *)
DeletionSafe == TypeOK /\ NoDanglingElement /\ NoDoubleDelete

(* Safety: in_degree and retained say together who owns an object, so that *)
(* neither the last release nor cee_decr_indegree goes wrong.              *)
CountsExact == InDegreeIsOwners /\ RetainedIsOwned

(* Liveness: every deletion returns. *)
DeletionTerminates == ~ Idle ~> Idle
=============================================================================
