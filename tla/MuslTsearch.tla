----------------------------- MODULE MuslTsearch -----------------------------
(***************************************************************************)
(* The balanced tree under sets and maps.  A tree is a function from the   *)
(* paths of its nodes, sequences of 0 (left) and 1 (right) from the root,  *)
(* to their key and height; an empty link is a path that leads to no node. *)
(* The stack a[] of link addresses that insertion and deletion keep is a   *)
(* path here, and its i-th entry the prefix of length i.                   *)
(***************************************************************************)
EXTENDS Integers, SequencesExt

CONSTANTS
    Elements,   \* what the tree may hold
    Rank        \* the order of cmp: Rank[e] - Rank[f] has the sign of cmp(e, f)

ASSUME TreeAssumption == Rank \in [Elements -> Nat]

Empty == << >>
Paths(t) == DOMAIN t
Contents(t) == {t[p].key : p \in Paths(t)}
Height(t, p) == IF p \in Paths(t) THEN t[p].h ELSE 0

(* A node moves to where nodes says, a node below one of the links in      *)
(* subtrees moves along with it, from the first path to the second, and    *)
(* any other stays.                                                        *)
Relinked(t, nodes, subtrees) ==
    LET Below(q) == {m \in subtrees : IsPrefix(m[1], q)}
        Place(q) == IF q \in DOMAIN nodes THEN nodes[q]
                    ELSE IF Below(q) = {} THEN q
                    ELSE LET m == CHOOSE x \in Below(q) : TRUE
                         IN  m[2] \o SubSeq(q, Len(m[1]) + 1, Len(q))
        From(r) == CHOOSE q \in Paths(t) : Place(q) = r
    IN  [r \in {Place(q) : q \in Paths(t)} |-> t[From(r)]]

-----------------------------------------------------------------------------
(* Faulty: the deeper side of y decides for nothing, x always gets a       *)
(* single rotation.                                                        *)
RotSingle(t, p, dir) ==
    LET x == Append(p, 1 - dir)
        y == Append(p, dir)
        z == Append(y, 1 - dir)
        hz == Height(t, z)
        moved == Relinked(t, [q \in {p, y} |-> IF q = p THEN x ELSE p],
                          {<<x, Append(x, 1 - dir)>>, <<z, Append(x, dir)>>, <<Append(y, dir), y>>})
    IN  [moved EXCEPT ![x].h = hz + 1, ![p].h = hz + 2]

(* rot, at the link p whose node x is too deep on the side dir.            *)
Rot(t, p, dir) ==
    LET o == 1 - dir
        x == Append(p, o)        \* where x goes
        y == Append(p, dir)
        z == Append(y, o)
        hz == Height(t, z)
        double == Relinked(t, [q \in {p, z} |-> IF q = p THEN x ELSE p],
                           {<<x, Append(x, o)>>, <<Append(z, o), Append(x, dir)>>,
                            <<Append(z, dir), z>>})
        single == Relinked(t, [q \in {p, y} |-> IF q = p THEN x ELSE p],
                           {<<x, Append(x, o)>>, <<z, Append(x, dir)>>, <<Append(y, dir), y>>})
    IN  IF hz > Height(t, Append(y, dir))
        THEN [double EXCEPT ![x].h = hz, ![y].h = hz, ![p].h = hz + 1]
        ELSE [single EXCEPT ![x].h = hz + 1, ![p].h = hz + 2]

(* __tsearch_balance, at the link p. *)
Balance(t, p) ==
    LET h0 == Height(t, Append(p, 0))
        h1 == Height(t, Append(p, 1))
    IN  IF h0 - h1 \in -1..1
        THEN [t EXCEPT ![p].h = IF h0 < h1 THEN h1 + 1 ELSE h0 + 1]
        ELSE Rot(t, p, IF h0 < h1 THEN 1 ELSE 0)

(* Rebalance the ancestors of the link path from below, up to the first    *)
(* whose height is unchanged.                                              *)
Rebalanced(t, path) ==
    LET from[n \in 0..Len(path)] ==
            LET p == SubSeq(path, 1, n)
                below == from[n + 1]
                b == Balance(below.tree, p)
            IN  IF n = Len(path) THEN [tree |-> t, go |-> TRUE]
                ELSE IF below.go THEN [tree |-> b, go |-> b[p].h # below.tree[p].h]
                ELSE below
    IN  from[0].tree

-----------------------------------------------------------------------------
(* A loop that goes down from a link, one node per round, as long as turn  *)
(* names a side, 0 or 1, to go on from the node.                           *)
Descend(t, from, turn) ==
    LET Down[p \in Seq({0, 1})] ==
            IF p \in Paths(t) /\ turn[p] \in {0, 1} THEN Down[Append(p, turn[p])] ELSE p
    IN  Down[from]

(* Where the search for e ends: at the node equal to it, or an empty link. *)
Find(t, e) ==
    LET turn == [p \in Paths(t) |-> CASE Rank[e] = Rank[t[p].key] -> 2
                                      [] Rank[e] > Rank[t[p].key] -> 1
                                      [] OTHER -> 0]
    IN  Descend(t, <<>>, turn)

(* musl_tfind *)
Has(t, e) == Find(t, e) \in Paths(t)

(* musl_tsearch *)
Inserted(t, e) ==
    LET p == Find(t, e)
    IN  IF p \in Paths(t) THEN t
        ELSE Rebalanced([q \in Paths(t) \cup {p} |-> IF q = p THEN [key |-> e, h |-> 1] ELSE t[q]], p)

(* The node that is freed for the one at p: its predecessor, if it has a   *)
(* left child, whose key it takes over.                                    *)
Victim(t, p) ==
    LET left == Append(p, 0)
    IN  IF left \notin Paths(t) THEN p
        ELSE Front(Descend(t, left, [q \in Paths(t) |-> 1]))

(* Faulty: the left child of the predecessor is not moved up. *)
DeletedOrphans(t, e) ==
    LET p == Find(t, e)
        v == Victim(t, p)
        over == [t EXCEPT ![p].key = t[v].key]
        rest == [q \in {r \in Paths(t) : ~ IsPrefix(v, r)} |-> over[q]]
    IN  IF p \notin Paths(t) THEN t ELSE Rebalanced(rest, v)

(* musl_tdelete *)
Deleted(t, e) ==
    LET p == Find(t, e)
        v == Victim(t, p)
        over == [t EXCEPT ![p].key = t[v].key]
        rest == [q \in Paths(t) \ {v} |-> over[q]]
        child == Append(v, IF v = p THEN 1 ELSE 0)
    IN  IF p \notin Paths(t) THEN t
        ELSE Rebalanced(Relinked(rest, << >>, {<<child, v>>}), v)

(* musl_twalk, what set.c and map.c do with it: they look at a node on the *)
(* way down, and below a node of height 1 the walk does not look.          *)
Walk(t) ==
    LET Seen == {p \in Paths(t) : \A q \in Prefixes(p) \ {p} : t[q].h # 1}
        Before(p, q) == \/ IsStrictPrefix(p, q)
                        \/ \E i \in 1..Len(p) : /\ i <= Len(q) /\ p[i] < q[i]
                                                /\ SubSeq(p, 1, i - 1) = SubSeq(q, 1, i - 1)
    IN  [i \in 1..Cardinality(Seen) |->
            CHOOSE p \in Seen : Cardinality({q \in Seen : Before(q, p)}) = i - 1]

-----------------------------------------------------------------------------
(* A tree on its own. *)
VARIABLE tree

Init == tree = Empty

Tsearch(e) == tree' = Inserted(tree, e)

Tdelete(e) == tree' = Deleted(tree, e)

Next == \E e \in Elements : Tsearch(e) \/ Tdelete(e)

Spec == Init /\ [][Next]_tree

-----------------------------------------------------------------------------
(* Safety: every height is exact and no node leans by more than one, after *)
(* any sequence of insertions and deletions: so stopping at the first      *)
(* unchanged height leaves no ancestor out, a path never exceeds MAXH, and *)
(* the walk finds no children below a node of height 1.                    *)
BalancedTree(t) ==
    \A p \in Paths(t) :
        LET h0 == Height(t, Append(p, 0))
            h1 == Height(t, Append(p, 1))
        IN  h0 - h1 \in -1..1 /\ t[p].h = (IF h0 < h1 THEN h1 ELSE h0) + 1

(* ... and so it visits every node (set.c and map.c build clones, lists of *)
(* keys and the marks of a collection on it).                              *)
WalkVisitsAll == {Walk(tree)[i] : i \in DOMAIN Walk(tree)} = Paths(tree)

Balanced == BalancedTree(tree) /\ WalkVisitsAll

(* Refinement: a tree is the set of its keys, so rotations and deletions   *)
(* neither lose a key nor break the order that searching relies on.        *)
Set == INSTANCE TreeSet WITH elements <- Contents(tree)
ImplementsSet == Set!Spec
=============================================================================
