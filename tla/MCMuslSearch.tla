---------------------------- MODULE MCMuslSearch ----------------------------
(***************************************************************************)
(* The two search structures taken from musl, side by side: one behaviour  *)
(* of the run is either a tree or a dictionary, the other stays as it was. *)
(***************************************************************************)
EXTENDS MuslTsearch

CONSTANTS MaxKey,        \* the number of ranks in the tree
          NoKey, NoValue

MCElements == 1..MaxKey + 1
(* Two elements compare equal. *)
MCRank == [e \in MCElements |-> IF e > MaxKey THEN 1 ELSE e]

VARIABLES using, tab, used, probe, made, keys, vals, call, answer

dict == <<tab, used, probe, made, keys, vals, call, answer>>

(* Seven keys are the first number for which the table grows.  Keys 1 to   *)
(* 5 have the same place in a table of eight entries, 1 and 2 in any.  Key *)
(* 1 may be stored again with another value.                               *)
DictKeys == 1..7
DictHash == <<0, 0, 8, 16, 24, 7, 3>>
DictOffers == [k \in DictKeys |-> IF k = 1 THEN {"v", "w"} ELSE {"v"}]

D == INSTANCE CeeDict WITH Keys <- DictKeys, Hash <- DictHash, Data <- {"v", "w"},
                           Offers <- DictOffers, InitSize <- 6, MaxAdds <- 8

(* Key 1 is stored at any time, and again at any time; the others follow   *)
(* one another.                                                            *)
InTurn(c) == (c.op = "add" /\ c.key # 1) =>
    LET listed == {keys[i] : i \in DOMAIN keys}
    IN  c.key \notin listed /\ 2..c.key - 1 \subseteq listed

SearchInit == Init /\ D!Init /\ using \in {"tree", "dict"}
SearchNext == \/ using = "tree" /\ Next /\ UNCHANGED <<dict, using>>
              \/ using = "dict" /\ D!Next /\ InTurn(call') /\ UNCHANGED <<tree, using>>
SearchSpec == SearchInit /\ [][SearchNext]_<<tree, dict, using>> /\ WF_dict(D!Step)

LookupsEnd == D!LookupsEnd
ImplementsDictionary == D!ImplementsDictionary
=============================================================================
