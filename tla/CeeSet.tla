-------------------------------- MODULE CeeSet --------------------------------
(***************************************************************************)
(* cee_set: a balanced tree of elements, the number of elements beside it, *)
(* and a policy that says whether the set counts its elements (RC), owns   *)
(* them (DEL) or neither (NOOP).  Elements are leaf objects here; CeeRefs  *)
(* has the recursion of cee_del.                                           *)
(*                                                                         *)
(* A program deletes what it holds itself, shares an object only among     *)
(* sets that count, and empties a set before it deletes it.  Freedoms      *)
(* lifts the last two rules: "share" and "delete_full".                    *)
(***************************************************************************)
EXTENDS Integers, SequencesExt

CONSTANTS
    Sets,       \* addresses of sets
    Elements,   \* addresses of the objects they may hold
    Rank,       \* the order of cmp, as in MuslTsearch
    Policies,   \* the policies the program uses
    Freedoms,   \* see above
    MaxRc       \* bound on counts and sizes, which adding an element that is
                \* there increases

ASSUME SetAssumption ==
    /\ Rank \in [Elements -> Nat] /\ MaxRc \in Nat
    /\ Policies \subseteq {"RC", "DEL", "NOOP"} /\ Freedoms \subseteq {"share", "delete_full"}

VARIABLES
    sets,     \* the sets that exist: tree, size, del_policy
    values,   \* the list cee_set_values returned last, as long as the
              \* program has it
    mem       \* the elements allocated, in_degree, retained, and whether
              \* the program used freed memory or crashed

vars == <<sets, values, mem>>

T == INSTANCE MuslTsearch WITH tree <- sets

Made == DOMAIN sets
Contents(s) == T!Contents(sets[s].tree)

(* What the walks of iterate, values and the mark phase see, in order. *)
Visited(t) == LET walk == T!Walk(t) IN [i \in DOMAIN walk |-> t[walk[i]].key]

-----------------------------------------------------------------------------
(* cee-common.c on leaf objects. *)
Incr(c, o, policy) ==
    CASE policy = "RC" /\ ~ c.retained[o] -> [c EXCEPT !.rc[o] = @ + 1]
      [] policy = "DEL" -> [c EXCEPT !.retained[o] = TRUE]
      [] OTHER -> c

Freed(c, o) == [c EXCEPT !.live = @ \ {o}, !.rc[o] = 0, !.retained[o] = FALSE,
                         !.fault = @ \/ o \notin c.live]

DelRef(c, o) ==
    LET left == IF c.rc[o] > 0 THEN c.rc[o] - 1 ELSE 0
        d == [c EXCEPT !.rc[o] = left, !.fault = @ \/ o \notin c.live]
    IN  IF c.retained[o] \/ left > 0 THEN d ELSE Freed(d, o)

(* S(del), for one element of a set that is cleared. *)
LetGo(c, o, policy) ==
    CASE policy = "RC" -> DelRef(c, o)
      [] policy = "DEL" -> Freed(c, o)
      [] OTHER -> c

LetGoAll(c, list, policy) ==
    LET after[n \in 0..Len(list)] == IF n = 0 THEN c ELSE LetGo(after[n - 1], list[n], policy)
    IN  after[Len(list)]

-----------------------------------------------------------------------------
(* A set and the memory together: what the functions of set.c work on.     *)
On(s) == [set |-> sets[s], mem |-> mem]
EmptySet(policy) == [tree |-> T!Empty, size |-> 0, policy |-> policy]

(* Faulty: the set takes no count; an equal element takes the place of the *)
(* one that is there.                                                      *)
AddedUncounted(x, e) ==
    IF T!Has(x.set.tree, e) THEN x
    ELSE [x EXCEPT !.set.tree = T!Inserted(@, e), !.set.size = @ + 1]
AddedReplaces(x, e) ==
    LET p == T!Find(x.set.tree, e)
    IN  IF p \in DOMAIN x.set.tree THEN [x EXCEPT !.set.tree[p].key = e]
        ELSE [set |-> [x.set EXCEPT !.tree = T!Inserted(@, e), !.size = @ + 1],
              mem |-> Incr(x.mem, e, x.set.policy)]

(* cee_set_add: nothing, if an element equal to e and not e itself is      *)
(* there; otherwise e is counted, even if it was there already.            *)
Added(x, e) ==
    LET t == T!Inserted(x.set.tree, e)
        refused == \E f \in T!Contents(t) : Rank[f] = Rank[e] /\ f # e
    IN  IF refused THEN x
        ELSE [set |-> [x.set EXCEPT !.tree = t, !.size = @ + 1],
              mem |-> Incr(x.mem, e, x.set.policy)]

(* Faulty: the size goes down whether the element is there or not.         *)
RemovedTwice(x, e) ==
    [x EXCEPT !.set.tree = IF T!Has(@, e) THEN T!Deleted(@, e) ELSE @, !.set.size = @ - 1]

(* cee_set_remove: the element goes back to the program with its count.    *)
Removed(x, e) ==
    IF ~ T!Has(x.set.tree, e) THEN x
    ELSE [x EXCEPT !.set.tree = T!Deleted(@, e), !.set.size = @ - 1]

(* cee_set_clear *)
Cleared(x) ==
    [set |-> EmptySet(x.set.policy), mem |-> LetGoAll(x.mem, Visited(x.set.tree), x.set.policy)]

(* cee_set_values: a list that counts its elements, and cee_del of it.     *)
Listed(c, list) ==
    LET after[n \in 0..Len(list)] == IF n = 0 THEN c ELSE Incr(after[n - 1], list[n], "RC")
    IN  after[Len(list)]
Unlisted(c, list) == LetGoAll(c, list, "RC")

AddAll(x, list) ==
    LET after[n \in 0..Len(list)] == IF n = 0 THEN x ELSE Added(after[n - 1], list[n])
    IN  after[Len(list)]

(* cee_set_union_set *)
United(a, b) ==
    LET v1 == Visited(sets[a].tree)
        v2 == Visited(sets[b].tree)
        lists == Listed(Listed(mem, v1), v2)
        both == AddAll(AddAll([set |-> EmptySet("RC"), mem |-> lists], v1), v2)
    IN  [both EXCEPT !.mem = Unlisted(Unlisted(@, v1), v2)]

(* cee_set_clone *)
Cloned(a) == AddAll([set |-> EmptySet(sets[a].policy), mem |-> mem], Visited(sets[a].tree))

-----------------------------------------------------------------------------
Holders(o) == {s \in Made : o \in Contents(s)}
MayShare(policy) == policy = "RC" \/ "share" \in Freedoms
(* An element may be given to a set of this policy. *)
MayGive(o, s) == /\ o \in mem.live
                 /\ \/ MayShare(sets[s].policy) /\ \A h \in Holders(o) : MayShare(sets[h].policy)
                    \/ Holders(o) \subseteq {s} /\ ~ \E i \in DOMAIN values : values[i] = o

(* The set s becomes x. *)
Become(s, x) ==
    /\ x.set.size <= MaxRc /\ \A o \in Elements : x.mem.rc[o] <= MaxRc
    /\ sets' = [n \in Made \cup {s} |-> IF n = s THEN x.set ELSE sets[n]]
    /\ mem' = x.mem /\ UNCHANGED values

Init == /\ sets = [s \in {} |-> EmptySet("NOOP")]
        /\ values = <<>>
        /\ mem = [live |-> {}, rc |-> [o \in Elements |-> 0],
                  retained |-> [o \in Elements |-> FALSE], fault |-> FALSE, crashed |-> FALSE]

(* A new element, and cee_del of one that the program holds itself. *)
New(o) == /\ o \notin mem.live
          /\ mem' = [mem EXCEPT !.live = @ \cup {o}]
          /\ UNCHANGED <<sets, values>>

Drop(o) == /\ o \in mem.live /\ Holders(o) = {} /\ o \notin {values[i] : i \in DOMAIN values}
           /\ mem' = Freed(mem, o)
           /\ UNCHANGED <<sets, values>>

Make(s, policy) == s \notin Made /\ Become(s, [set |-> EmptySet(policy), mem |-> mem])

Add(s, e) == MayGive(e, s) /\ Become(s, Added(On(s), e))

RemoveFrom(s, e) == e \in mem.live /\ Become(s, Removed(On(s), e))

Clear(s) == Become(s, Cleared(On(s)))

Values(s) == /\ values = <<>> /\ MayShare(sets[s].policy)
             /\ values' = Visited(sets[s].tree)
             /\ \A o \in Contents(s) : mem.rc[o] < MaxRc
             /\ mem' = Listed(mem, values') /\ UNCHANGED sets

DropValues == /\ values # <<>> /\ values' = <<>>
              /\ mem' = Unlisted(mem, values) /\ UNCHANGED sets

Union(s, a, b) == /\ s \notin Made /\ MayShare(sets[a].policy) /\ MayShare(sets[b].policy)
                  /\ Become(s, United(a, b))

Clone(s, a) == s \notin Made /\ MayShare(sets[a].policy) /\ Become(s, Cloned(a))

(* cee_del of a set: free_pair_follow reads the policy through a context   *)
(* that is NULL, for every element.                                        *)
Delete(s) ==
    /\ Contents(s) = {} \/ "delete_full" \in Freedoms
    /\ sets' = [n \in Made \ {s} |-> sets[n]]
    /\ mem' = [mem EXCEPT !.crashed = Contents(s) # {}]
    /\ UNCHANGED values

Next == /\ ~ mem.crashed
        /\ \/ \E o \in Elements : New(o) \/ Drop(o)
           \/ \E s \in Sets, policy \in Policies : Make(s, policy)
           \/ \E s \in Sets, a, b \in Made : Union(s, a, b)
           \/ \E s \in Sets, a \in Made : Clone(s, a)
           \/ \E s \in Made : Clear(s) \/ Values(s) \/ Delete(s)
           \/ \E s \in Made, e \in Elements : Add(s, e) \/ RemoveFrom(s, e)
           \/ DropValues

Spec == Init /\ [][Next]_vars

-----------------------------------------------------------------------------
(* Type invariant. *)
TypeOK == /\ Made \subseteq Sets /\ values \in Seq(Elements)
          /\ \A s \in Made : /\ sets[s].size \in Nat /\ sets[s].policy \in Policies
                             /\ Contents(s) \subseteq Elements
          /\ mem.live \subseteq Elements /\ mem.rc \in [Elements -> 0..MaxRc]
          /\ mem.retained \in [Elements -> BOOLEAN]

(* Safety: whatever is added, removed, united, cloned, listed and cleared, *)
(* the elements of every set are allocated, no freed element is counted    *)
(* down or freed again, and the program does not crash.                    *)
ElementsAllocated == /\ \A s \in Made : Contents(s) \subseteq mem.live
                     /\ ~ mem.fault /\ ~ mem.crashed

(* Safety: an element has at least the counts of the sets and the list     *)
(* that hold it.  It may have more: adding it again counts once more, and  *)
(* removing it does not count down.                                        *)
HoldersCounted ==
    \A o \in mem.live :
        LET counting == {s \in Holders(o) : sets[s].policy = "RC"}
            listed == {i \in DOMAIN values : values[i] = o}
        IN  ~ mem.retained[o] => mem.rc[o] >= Cardinality(counting) + Cardinality(listed)

(* Safety: the size never falls below the number of elements, so a set     *)
(* that cee_set_empty calls empty is empty.                                *)
SizeCovers == \A s \in Made : sets[s].size >= Cardinality(Contents(s))

(* Safety: no sequence of calls makes the memory unsafe, nor understates   *)
(* who holds an element and how many there are.                            *)
MemorySafe == TypeOK /\ ElementsAllocated /\ HoldersCounted /\ SizeCovers

(* What the test of cee_set_values expects: the size is the number of      *)
(* elements (test-func.c:188).                                             *)
SizeIsNumberOfValues == \A s \in Made : sets[s].size = Len(Visited(sets[s].tree))

(* Refinement: sets are sets; in particular a clone and a union have the   *)
(* elements of their sources, and clearing one set leaves the others.      *)
Algebra == INSTANCE SetAlgebra WITH Names <- Sets, sets <- [s \in Made |-> Contents(s)]
ImplementsAlgebra == Algebra!Spec
=============================================================================
