----------------------------- MODULE MuslHsearch -----------------------------
(***************************************************************************)
(* The hash table under dictionaries: open addressing in a table of a      *)
(* power of two entries.  A probe looks at the entries hash, hash + 1,     *)
(* hash + 1 + 2, hash + 1 + 2 + 3, ... modulo the size, one step for each, *)
(* until it meets its key or a free entry; nothing else stops it.          *)
(*                                                                         *)
(* The module is one call at a time: what calls it sets probe, and finds   *)
(* the outcome there.                                                      *)
(***************************************************************************)
EXTENDS Integers, FiniteSets, Folds

CONSTANTS
    Keys,      \* what the entries hold, compared with strcmp
    Hash,      \* keyhash
    NoKey,     \* the key of a free entry
    Data       \* what is stored with a key

VARIABLES
    tab,       \* the entries, from 0 to the mask
    used,      \* how many are taken
    probe      \* the search that is running: its key, i and j

MINSIZE == 8
None == [key |-> NoKey]

Size(t) == Cardinality(DOMAIN t)
Mask(t) == Size(t) - 1
Taken(t) == {e \in DOMAIN t : t[e].key # NoKey}

(* Where the probe for h is after n rounds of i += j++.  Faulty: the probe *)
(* takes every other entry.                                                *)
PlaceTwice(t, h, n) == (h + n * (n + 1)) % Size(t)
Place(t, h, n) == (h + (n * (n + 1)) \div 2) % Size(t)

(* The number of rounds until an entry that satisfies no condition but     *)
(* being free: the loop of resize.                                         *)
FreeFor(t, h) ==
    LET Round(n) == t[Place(t, h, n)].key = NoKey /\ \A m \in 0..n - 1 : t[Place(t, h, m)].key # NoKey
    IN  Place(t, h, CHOOSE n \in 0..Mask(t) : Round(n))

(* The smallest size of a table for nel entries.                           *)
SizeFor(nel) == CHOOSE s \in {MINSIZE * 2^k : k \in 0..nel} :
                    s >= nel /\ (s = MINSIZE \/ s \div 2 < nel)

(* musl_hcreate_r, when calloc succeeds, and what musl_hdestroy_r leaves.  *)
Fresh(nel) == [e \in 0..SizeFor(nel) - 1 |-> None]
Unmade == Fresh(0)

(* Faulty: the entries of the old table keep their places. *)
ResizedInPlace(t, nel) ==
    [e \in 0..SizeFor(nel) - 1 |-> IF e \in DOMAIN t THEN t[e] ELSE None]

(* resize, when calloc succeeds: the old entries in order. *)
Resized(t, nel) ==
    LET Move(new, e) == IF t[e].key = NoKey THEN new
                        ELSE [new EXCEPT ![FreeFor(new, Hash[t[e].key])] = t[e]]
        Rest[e \in 0..Size(t)] == IF e = 0 THEN Fresh(nel) ELSE Move(Rest[e - 1], e - 1)
    IN  Rest[Size(t)]

-----------------------------------------------------------------------------
Idle == [on |-> FALSE]
Entry == Place(tab, Hash[probe.key], probe.j)

(* lookup: from the entry the hash names ... *)
Lookup(k) == [on |-> TRUE, key |-> k, j |-> 0]

(* ... on to the next, if this one is neither free nor of the key. *)
Arrived == probe.on /\ tab[Entry].key \in {NoKey, probe.key}
Probe == /\ probe.on /\ ~ Arrived
         /\ probe' = [probe EXCEPT !.j = (@ + 1) % (2 * Size(tab))]   \* the probe repeats from here
         /\ UNCHANGED <<tab, used>>

Found == Arrived /\ tab[Entry].key # NoKey

(* The growth rule, for a table of which n entries are taken. *)
MustGrow(n) == n > Mask(tab) - Mask(tab) \div 4

(* musl_hsearch_r with ENTER, once the lookup has arrived: the item is     *)
(* entered unless its key is there, and the table grows, or cannot.        *)
Enter(data, ok) ==
    LET item == [key |-> probe.key, data |-> data]
        with == [tab EXCEPT ![Entry] = item]
    IN  IF Found THEN UNCHANGED <<tab, used>>
        ELSE IF ~ MustGrow(used + 1) THEN tab' = with /\ used' = used + 1
        ELSE IF ok THEN tab' = Resized(with, 2 * (used + 1)) /\ used' = used + 1
        ELSE tab' = [with EXCEPT ![Entry] = None] /\ used' = used
=============================================================================
