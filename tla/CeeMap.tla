-------------------------------- MODULE CeeMap --------------------------------
(***************************************************************************)
(* cee_map: a balanced tree of key and value pairs, found by the name its  *)
(* comparison function sees in a key, and beside it the list of the keys   *)
(* in the order they came in.  Each pair is a cee_tuple that counts its    *)
(* key and its value, and the list counts the keys once more, so adding to *)
(* a map can free the very key it was called with.                         *)
(*                                                                         *)
(* Maps are made with cee_map_mk: both policies are CEE_DP_DEL_RC.  Keys   *)
(* and values are leaf objects here; CeeRefs has the recursion of cee_del. *)
(***************************************************************************)
EXTENDS Integers, SequencesExt

CONSTANTS
    Maps,      \* addresses of maps
    Keys,      \* addresses of keys
    Values,    \* addresses of values
    Name,      \* what cmp sees of a key, as a number
    MergeChoices,   \* what the merge functions of the program return: the "new"
               \* value, as without a function, the "old" one or an "other"
    MaxRc      \* bound on the count of a value, which re-adding it increases

ASSUME MapAssumption ==
    /\ IsFiniteSet(Maps) /\ IsFiniteSet(Keys) /\ Name \in [Keys -> Nat] /\ Values # {}
    /\ Keys \cap Values = {}
    /\ MergeChoices \subseteq {"new", "old", "other"} /\ MaxRc \in Nat

VARIABLES
    tree,    \* the tree of each map, see MuslTsearch
    order,   \* its insertion_ordered_keys, and size
    made,    \* the maps that exist
    mem      \* the keys and values that are allocated, their in_degree, and
             \* whether freed memory was used

vars == <<tree, order, made, mem>>

Objs == Keys \cup Values
Pairs == [key : Keys, val : Values]

PairRank == [e \in Pairs |-> Name[e.key]]   \* the order of the pairs, S(cmp)

T == INSTANCE MuslTsearch WITH Elements <- Pairs, Rank <- PairRank, tree <- tree

-----------------------------------------------------------------------------
(* Counting, as in CeeRefs. *)

Used(c, o) == [c EXCEPT !.fault = @ \/ o \notin c.live]

Incr(c, o) == [Used(c, o) EXCEPT !.rc[o] = @ + 1]

Decr(c, o) == [Used(c, o) EXCEPT !.rc[o] = IF @ > 0 THEN @ - 1 ELSE 0]

(* cee_del_ref, of an object that is not retained. *)
DelRef(c, o) == LET d == Decr(c, o)
                IN  IF d.rc[o] = 0 THEN [d EXCEPT !.live = @ \ {o}] ELSE d

-----------------------------------------------------------------------------
(* A map and the memory together: what the functions of map.c work on.     *)
Map(m) == [tree |-> tree[m], order |-> order[m], mem |-> mem]

(* The path to a key of this name, if there is one. *)
Path(s, k) == T!Find(s.tree, [key |-> k, val |-> CHOOSE v \in Values : TRUE])
Has(s, k) == Path(s, k) \in DOMAIN s.tree

(* Faulty: the old value is let go even if the merge function keeps it.    *)
ReplacedLetsGo(s, k, v, new) ==
    LET p == Path(s, k)
        counted == Incr(Incr(s.mem, k), v)
    IN  [s EXCEPT !.tree[p].key.val = new,
                  !.mem = DelRef(Decr(counted, s.tree[p].key.val), k)]

(* cee_map_add_e of a name that is there: the new pair counts both, the    *)
(* old one takes the merged value, and deleting the new one gives its key  *)
(* back.                                                                   *)
Replaced(s, k, v, new) ==
    LET p == Path(s, k)
        old == s.tree[p].key.val
        counted == Incr(Incr(s.mem, k), v)
        captured == IF new = old THEN counted ELSE Decr(counted, old)
    IN  [s EXCEPT !.tree[p].key.val = new, !.mem = DelRef(captured, k)]

(* Faulty: the key is listed in front of the others.                       *)
EnteredInFront(s, k, v) ==
    [s EXCEPT !.tree = T!Inserted(@, [key |-> k, val |-> v]),
              !.order = <<k>> \o @,
              !.mem = Incr(Incr(Incr(@, k), v), k)]

(* cee_map_add_e of a new name: the pair counts both, the list the key.    *)
Entered(s, k, v) ==
    [s EXCEPT !.tree = T!Inserted(@, [key |-> k, val |-> v]),
              !.order = Append(@, k),
              !.mem = Incr(Incr(Incr(@, k), v), k)]

(* cee_map_add_e, with what the merge function chooses. *)
Put(s, k, v, new) == IF Has(s, k) THEN Replaced(s, k, v, new) ELSE Entered(s, k, v)

(* Faulty: the key is looked for in the list by its address; the pair is   *)
(* deleted with its policies.                                              *)
TakenSame(s, k) ==
    LET old == s.tree[Path(s, k)].key
        listed == SelectInSeq(s.order, LAMBDA l : l = k)
    IN  [s EXCEPT !.tree = T!Deleted(@, old),
                  !.order = IF listed = 0 THEN @ ELSE RemoveAt(@, listed),
                  !.mem = Decr(Decr(Decr(@, old.key), old.val), old.key)]
TakenWithFields(s, k) ==
    LET old == s.tree[Path(s, k)].key
        listed == SelectInSeq(s.order, LAMBDA l : Name[l] = Name[k])
        decreased == Decr(Decr(s.mem, old.key), old.val)
    IN  [s EXCEPT !.tree = T!Deleted(@, old),
                  !.order = RemoveAt(@, listed),
                  !.mem = Decr(DelRef(DelRef(decreased, old.key), old.val), s.order[listed])]

(* cee_map_remove of a name that is there, by a key of that name. *)
Taken(s, k) ==
    LET old == s.tree[Path(s, k)].key
        listed == SelectInSeq(s.order, LAMBDA l : Name[l] = Name[k])
    IN  [s EXCEPT !.tree = T!Deleted(@, old),
                  !.order = RemoveAt(@, listed),
                  !.mem = Decr(Decr(Decr(@, old.key), old.val), s.order[listed])]

(* What a merge function may return: the code has no say in it. *)
Merged(s, k, v, choice) ==
    CASE choice = "old" /\ Has(s, k) -> {s.tree[Path(s, k)].key.val}
      [] choice = "other" -> Values \cap s.mem.live
      [] OTHER -> {v}

(* The pairs of a tree, in the order of the walk. *)
Walked(t) == LET walk == T!Walk(t) IN [i \in DOMAIN walk |-> t[walk[i]].key]

(* Add a pair of another map, and all of a list. *)
Copied(s, e, choice) == Put(s, e.key, e.val, CHOOSE n \in Merged(s, e.key, e.val, choice) : TRUE)
PutAll(s, list, choice) ==
    LET after[n \in 0..Len(list)] == IF n = 0 THEN s ELSE Copied(after[n - 1], list[n], choice)
    IN  after[Len(list)]

(* cee_del of a list of keys, and of pairs.                                *)
Unlisted(c, list) ==
    LET after[n \in 0..Len(list)] == IF n = 0 THEN c ELSE DelRef(after[n - 1], list[n])
    IN  after[Len(list)]
Unpaired(c, list) ==
    LET after[n \in 0..Len(list)] ==
            IF n = 0 THEN c ELSE DelRef(DelRef(after[n - 1], list[n].key), list[n].val)
    IN  after[Len(list)]

(* The DEL_FOLLOW case of trace: the list, and then every pair, in an      *)
(* order that makes no difference to leaf objects.                         *)
Destroyed(s) == [tree |-> T!Empty, order |-> <<>>,
                 mem |-> Unpaired(Unlisted(s.mem, s.order), Walked(s.tree))]

-----------------------------------------------------------------------------
Init == /\ tree = [m \in Maps |-> T!Empty]
        /\ order = [m \in Maps |-> <<>>]
        /\ made = {}
        /\ mem = [live |-> {}, rc |-> [o \in Objs |-> 0], fault |-> FALSE]

(* A new key or value. *)
New(o) == /\ o \notin mem.live
          /\ mem' = [mem EXCEPT !.live = @ \cup {o}]
          /\ UNCHANGED <<tree, order, made>>

(* The map m becomes s. *)
Becomes(m, s) ==
    /\ \A v \in Values : s.mem.rc[v] <= MaxRc
    /\ tree' = [tree EXCEPT ![m] = s.tree]
    /\ order' = [order EXCEPT ![m] = s.order]
    /\ mem' = s.mem

Make(m) == /\ m \notin made /\ made' = made \cup {m}
           /\ UNCHANGED <<tree, order, mem>>

Add(m, k, v) ==
    /\ {k, v} \subseteq mem.live
    /\ \E new \in UNION {Merged(Map(m), k, v, c) : c \in MergeChoices} :
          Becomes(m, Put(Map(m), k, v, new))
    /\ UNCHANGED made

RemoveKey(m, k) == /\ k \in mem.live /\ Has(Map(m), k)
                /\ Becomes(m, Taken(Map(m), k))
                /\ UNCHANGED made

(* cee_map_rename: remove, and add what was removed. *)
Rename(m, k, new) ==
    LET v == tree[m][Path(Map(m), k)].key.val
    IN  /\ {k, new} \subseteq mem.live /\ Has(Map(m), k)
        /\ Becomes(m, Put(Taken(Map(m), k), new, v, v))
        /\ UNCHANGED made

(* cee_map_merge, of a map with itself as well. *)
Merge(m, n) == /\ \E s \in {PutAll(Map(m), Walked(tree[n]), c) : c \in MergeChoices} : Becomes(m, s)
               /\ UNCHANGED made

Clone(m, n) == /\ m \notin made /\ made' = made \cup {m}
               /\ Becomes(m, PutAll(Map(m), Walked(tree[n]), "new"))

(* cee_del of a map. *)
Delete(m) == made' = made \ {m} /\ Becomes(m, Destroyed(Map(m)))

Next == \/ \E o \in Objs : New(o)
        \/ \E m \in Maps : Make(m)
        \/ \E m \in Maps, n \in made : Clone(m, n)
        \/ \E m \in made : Delete(m)
        \/ \E m, n \in made : Merge(m, n)
        \/ \E m \in made, k \in Keys : RemoveKey(m, k)
        \/ \E m \in made, k, new \in Keys : Rename(m, k, new)
        \/ \E m \in made, k \in Keys, v \in Values : Add(m, k, v)

Spec == Init /\ [][Next]_vars

-----------------------------------------------------------------------------
(* Type invariant. *)
TypeOK == /\ made \subseteq Maps
          /\ \A m \in Maps : T!Contents(tree[m]) \subseteq Pairs /\ order[m] \in Seq(Keys)
          /\ mem.live \subseteq Objs /\ mem.rc \in [Objs -> Nat] /\ mem.fault \in BOOLEAN

Fields(m) == {[map |-> m, key |-> e.key, val |-> e.val] : e \in T!Contents(tree[m])}
References(o) ==
    LET pairs == UNION {Fields(m) : m \in Maps}
    IN  Cardinality({x \in pairs : x.key = o}) + Cardinality({x \in pairs : x.val = o})
        + Cardinality({x \in Maps \X (1..Cardinality(Keys)) :
                          x[2] \in DOMAIN order[x[1]] /\ order[x[1]][x[2]] = o})

(* Safety: the count of a key is exactly the number of pairs and lists it  *)
(* is in, and a value is counted at least as often as it is referred to,   *)
(* whatever is added, replaced, merged, renamed and deleted.               *)
CountsCover == /\ \A k \in Keys \cap mem.live : mem.rc[k] = References(k)
               /\ \A v \in Values \cap mem.live : mem.rc[v] >= References(v)

(* Safety: no operation counts, compares or deletes an object that an      *)
(* earlier operation of a map has freed.                                   *)
NoUseAfterFree == /\ ~ mem.fault
                  /\ \A o \in Objs : References(o) > 0 => o \in mem.live

(* Refinement: the tree and the list of keys, which every operation        *)
(* changes in turn, are one ordered map.                                   *)
Abstract(m) ==
    LET t == tree[m]
        Node(k) == CHOOSE p \in DOMAIN t : Name[t[p].key.key] = Name[k]
    IN  [i \in DOMAIN order[m] |->
            [name |-> Name[order[m][i]], val |-> t[Node(order[m][i])].key.val]]

Ordered == INSTANCE OrderedMap WITH
    Names <- {Name[k] : k \in Keys},
    maps <- [m \in made |-> Abstract(m)]

ImplementsOrderedMap == Ordered!Spec

(* Safety: the tree and the list hold the same keys, object for object.    *)
SameKeys == \A m \in Maps : /\ {e.key : e \in T!Contents(tree[m])} = {order[m][i] : i \in DOMAIN order[m]}
                            /\ Cardinality(DOMAIN tree[m]) = Len(order[m])

(* Safety: no sequence of calls makes the memory unsafe, whether by a      *)
(* count, by what is freed, or by a key that only the tree or the list has. *)
MemorySafe == TypeOK /\ CountsCover /\ NoUseAfterFree /\ SameKeys
=============================================================================
