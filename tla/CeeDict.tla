------------------------------- MODULE CeeDict -------------------------------
(***************************************************************************)
(* cee_dict: a hash table from keys to values, and beside it a list of the *)
(* keys and one of the values.  The lists get every key and value that is  *)
(* added and count them, as in CeeRefs; the table keeps the value a key    *)
(* had first, and counts nothing.                                          *)
(***************************************************************************)
EXTENDS MuslHsearch, SequencesExt

CONSTANTS
    NoValue,    \* what cee_dict_find returns for a key that is not there
    Offers,     \* the values the program stores under each key
    InitSize,   \* the size it makes a dictionary for
    MaxAdds     \* bound on the additions to one dictionary

VARIABLES
    made,      \* whether the dictionary exists
    keys,      \* its lists
    vals,
    call,      \* the call that is running
    answer     \* what the last call returned

vars == <<tab, used, probe, made, keys, vals, call, answer>>

Ready == call.op = "none"

Init == /\ tab = Unmade /\ used = 0 /\ probe = Idle
        /\ made = FALSE /\ keys = <<>> /\ vals = <<>>
        /\ call = [op |-> "none"] /\ answer = NoValue

(* cee_dict_mk_e, when hcreate succeeds. *)
Make == /\ Ready /\ ~ made /\ made' = TRUE
        /\ tab' = Fresh((InitSize * 5) \div 4) /\ used' = 0
        /\ keys' = <<>> /\ vals' = <<>>
        /\ UNCHANGED <<probe, call, answer>>

(* A call of cee_dict_add or cee_dict_find, which begins with a lookup. *)
Start(c) == /\ Ready /\ made
            /\ call' = c /\ probe' = Lookup(c.key)
            /\ UNCHANGED <<tab, used, made, keys, vals, answer>>

Return(v) == probe' = Idle /\ call' = [op |-> "none"] /\ answer' = v

Step == Probe /\ UNCHANGED <<made, keys, vals, call, answer>>

Listed == keys' = Append(keys, call.key) /\ vals' = Append(vals, call.val)

(* cee_dict_add, once the lookup has arrived: if the table has to grow and *)
(* cannot, the program segfaults.                                          *)
FinishAdd(ok) ==
    /\ call.op = "add" /\ Arrived
    /\ Enter(call.val, ok)
    /\ IF ok \/ Found \/ ~ MustGrow(used + 1)
       THEN Listed /\ Return(NoValue)
       ELSE probe' = Idle /\ call' = [op |-> "crashed"] /\ UNCHANGED <<keys, vals, answer>>
    /\ UNCHANGED made

(* cee_dict_find *)
FinishFind == /\ call.op = "find" /\ Arrived
              /\ Return(IF Found THEN tab[Entry].data ELSE NoValue)
              /\ UNCHANGED <<tab, used, made, keys, vals>>

(* The DEL_FOLLOW case of trace: the lists, whose policy is RC and which   *)
(* nobody counts, and the table.                                           *)
Delete == /\ Ready /\ made /\ made' = FALSE
          /\ tab' = Unmade /\ used' = 0 /\ keys' = <<>> /\ vals' = <<>>
          /\ answer' = NoValue /\ UNCHANGED <<probe, call>>

Next == \/ Make \/ Delete \/ Step \/ FinishFind
        \/ \E ok \in BOOLEAN : FinishAdd(ok)
        \/ \E k \in Keys : Start([op |-> "find", key |-> k])
        \/ \E k \in Keys, v \in Data :
              /\ v \in Offers[k] /\ Len(keys) < MaxAdds
              /\ Start([op |-> "add", key |-> k, val |-> v])

(* A lookup that has a next step takes it. *)
Spec == Init /\ [][Next]_vars /\ WF_vars(Step)

-----------------------------------------------------------------------------
(* Liveness: every lookup ends, whether its key is there or not: the probe *)
(* comes to every entry, and the table is never full.                      *)
LookupsEnd == probe.on ~> Arrived

(* Refinement: a dictionary answers as a map in which the first value of a *)
(* key stays, however the keys collide and the table grows.                *)
Map == INSTANCE Dictionary WITH
    Values <- Data,
    map <- [k \in {keys[i] : i \in DOMAIN keys} |->
               vals[CHOOSE i \in DOMAIN keys : keys[i] = k /\ \A h \in 1..i - 1 : keys[h] # k]]
ImplementsDictionary == Map!Spec
=============================================================================
