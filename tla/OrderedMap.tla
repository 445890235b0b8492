----------------------------- MODULE OrderedMap -----------------------------
(***************************************************************************)
(* What cee.h promises of maps, with no tree in sight: a map is a sequence *)
(* of pairs with distinct names, in the order in which the names came in.  *)
(* A pair is replaced in place, a renamed one goes to the end, and a merge *)
(* changes the destination only.                                           *)
(***************************************************************************)
EXTENDS SequencesExt

CONSTANTS Maps, Names, Values

VARIABLE maps   \* the pairs [name, val] of each map that exists

Present == DOMAIN maps

At(s, n) == {i \in DOMAIN s : s[i].name = n}

Put(s, n, v) == IF At(s, n) = {} THEN Append(s, [name |-> n, val |-> v])
                ELSE [i \in DOMAIN s |-> IF i \in At(s, n) THEN [s[i] EXCEPT !.val = v] ELSE s[i]]

Init == maps = [m \in {} |-> <<>>]

Become(m, s) == maps' = [x \in Present \cup {m} |-> IF x = m THEN s ELSE maps[x]]

Make(m) == m \notin Present /\ Become(m, <<>>)

Add(m, n, v) == Become(m, Put(maps[m], n, v))

RemoveKey(m, n) == \E i \in At(maps[m], n) : Become(m, RemoveAt(maps[m], i))

Rename(m, n, new) ==
    \E i \in At(maps[m], n) : Become(m, Put(RemoveAt(maps[m], i), new, maps[m][i].val))

(* Where both have a name, keep decides for the value of the destination.  *)
Merged(dest, src, keep) ==
    LET news == {i \in DOMAIN src : At(dest, src[i].name) = {}}
        Old(x) == IF keep \/ At(src, x.name) = {} THEN x
                  ELSE src[CHOOSE i \in At(src, x.name) : TRUE]
    IN  {[i \in DOMAIN dest |-> Old(dest[i])] \o [i \in DOMAIN s |-> src[s[i]]] : s \in SetToSeqs(news)}

Merge(m, n) == \E keep \in BOOLEAN : \E s \in Merged(maps[m], maps[n], keep) : Become(m, s)

Clone(m, n) == m \notin Present /\ \E s \in Merged(<<>>, maps[n], FALSE) : Become(m, s)

Delete(m) == maps' = [x \in Present \ {m} |-> maps[x]]

Next == \/ \E m \in Maps : Make(m)
        \/ \E m \in Present : Delete(m)
        \/ \E m \in Present, n \in Names, v \in Values : Add(m, n, v)
        \/ \E m \in Present, n \in Names : RemoveKey(m, n)
        \/ \E m \in Present, n, new \in Names : Rename(m, n, new)
        \/ \E m, n \in Present : Merge(m, n)
        \/ \E m \in Maps, n \in Present : Clone(m, n)

Spec == Init /\ [][Next]_maps
=============================================================================
