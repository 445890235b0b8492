------------------------------ MODULE JsonValues ------------------------------
(***************************************************************************)
(* cee_json values as a program builds them: every pointer it was given    *)
(* stays good until the state is deleted, and setting, appending and       *)
(* merging put the pointer of a value into a container, never a copy.      *)
(* Documents can therefore come to share parts.                            *)
(*                                                                         *)
(* A value is a cee_tagged and what it points to in one.  An object is a   *)
(* function from its keys: the order of the keys is the subject of CeeMap. *)
(* true, false, null and undefined are the first addresses.                *)
(*                                                                         *)
(* A program calls what a value supports, makes no cycles, merges what     *)
(* shares nothing with the destination, and puts no text in the place of   *)
(* another that its block cannot hold.  Freedoms lifts these rules:        *)
(* "types", "shared" and "long".                                           *)
(***************************************************************************)
EXTENDS Integers, SequencesExt, TLC

CONSTANTS
    Keys,       \* the keys of objects
    Leaves,     \* what the values without parts may hold: [t, val]
    Texts,      \* what strings hold
    Long,       \* the texts that fit only in the block of such a text
    Rewrites,   \* the maps of texts given to cee_json_replace
    Documents,  \* the pairs of documents that were parsed, as trees
    Freedoms,   \* see above
    MaxCalls    \* bound on the number of calls

VARIABLES
    heap,       \* the values, by address
    outcome,    \* "ok", or how the last call failed: "crash" or "loops"
    last,       \* the last call: op, the value it was for, and the other one
    calls       \* their number

vars == <<heap, outcome, last, calls>>

-----------------------------------------------------------------------------
Node(t, val) == [t |-> t, val |-> val, elems |-> <<>>, fields |-> [k \in {} |-> 0]]
Singletons == <<Node("bool", 1), Node("bool", 0), Node("null", 0), Node("undefined", 0)>>
Bool(b) == IF b THEN 1 ELSE 2
Null == 3
NULL == 0   \* no value

Addresses == DOMAIN heap
Is(h, a, t) == h[a].t = t

Children(h, a) == Range(h[a].elems) \cup Range(h[a].fields)

RECURSIVE Reach(_, _)
Reach(h, a) == {a} \cup UNION {Reach(h, c) : c \in Children(h, a)}

Mutable(h, a) == Reach(h, a) \ 1..Len(Singletons)

(* The document at a, with no sharing to be seen in it. *)
RECURSIVE Tree(_, _)
Tree(h, a) == [t |-> h[a].t, val |-> h[a].val,
               elems |-> [i \in DOMAIN h[a].elems |-> Tree(h, h[a].elems[i])],
               fields |-> [k \in DOMAIN h[a].fields |-> Tree(h, h[a].fields[k])]]

(* No part of the document is reached twice. *)
RECURSIVE IsTree(_, _)
IsTree(h, a) ==
    LET parts == [i \in DOMAIN h[a].elems |-> h[a].elems[i]]
        Apart(c, d) == Mutable(h, c) \cap Mutable(h, d) = {}
    IN  /\ \A i, j \in DOMAIN parts : i # j => Apart(parts[i], parts[j])
        /\ \A k, l \in DOMAIN h[a].fields : k # l => Apart(h[a].fields[k], h[a].fields[l])
        /\ \A c \in Children(h, a) : IsTree(h, c)

-----------------------------------------------------------------------------
(* What a call makes of the heap: the heap, the value it returns, and how  *)
(* it ends.                                                                *)
Done(h, val) == [heap |-> h, val |-> val, end |-> "ok"]
Crash(h) == [heap |-> h, val |-> NULL, end |-> "crash"]
Loops(h) == [heap |-> h, val |-> NULL, end |-> "loops"]

StringLeaf(text) == [t |-> "string", val |-> [text |-> text, block |-> text]]

(* cee_tagged_mk, and what it returns. *)
New(h, node) == Append(h, node)
Fresh(h) == Len(h) + 1

ToObject(h, a) == Is(h, a, "object")
ToArray(h, a) == Is(h, a, "array")
ToStr(h, a) == Is(h, a, "string")

(* cee_json_object_get, cee_json_array_get; positions count from one. *)
Get(h, j, key) == IF key \in DOMAIN h[j].fields THEN h[j].fields[key] ELSE NULL
At(h, j, i) == IF i \in DOMAIN h[j].elems THEN h[j].elems[i] ELSE NULL

(* cee_json_object_set and the functions that make the value first. *)
Set(h, j, key, v) ==
    IF ~ ToObject(h, j) THEN Crash(h)
    ELSE Done([h EXCEPT ![j].fields = (key :> v) @@ @], v)
(* Faulty: the value is set and never made. *)
SetLeafUnmade(h, j, key, leaf) == Set(h, j, key, Fresh(h))
SetLeaf(h, j, key, leaf) == Set(New(h, Node(leaf.t, leaf.val)), j, key, Fresh(h))
SetNull(h, j, key) == Set(h, j, key, Null)
SetBool(h, j, key, b) == Set(h, j, key, Bool(b))

ObjectKv(h, key, v) == Set(New(h, Node("object", 0)), Fresh(h), key, v)

Without(f, key) == [k \in DOMAIN f \ {key} |-> f[k]]

RemoveKey(h, j, key) ==
    IF ~ ToObject(h, j) THEN Crash(h)
    ELSE Done([h EXCEPT ![j].fields = Without(@, key)], Get(h, j, key))

(* cee_json_object_rename: a value under the new key is lost. *)
Rename(h, j, old_key, new_key) ==
    IF ~ ToObject(h, j) \/ old_key \notin DOMAIN h[j].fields THEN Done(h, NULL)
    ELSE Done([h EXCEPT ![j].fields = (new_key :> h[j].fields[old_key]) @@ Without(@, old_key)], 1)

(* cee_json_object_convert_to_i64 tests the type of the object in the      *)
(* place of that of the value: it never converts anything.                 *)
ConvertToI64(h, j, key) ==
    IF ~ ToObject(h, j) THEN Done(h, NULL)
    ELSE IF Get(h, j, key) = NULL THEN Crash(h)
    ELSE IF Is(h, Get(h, j, key), "i64") THEN Done(h, 1)
    ELSE Done(h, NULL)

(* cee_json_array_insert, append and remove. *)
Insert(h, j, i, v) ==
    IF ~ ToArray(h, j) THEN Crash(h)
    ELSE Done([h EXCEPT ![j].elems = InsertAt(@, i, v)], v)
AppendTo(h, j, v) ==
    IF ~ ToArray(h, j) THEN Crash(h)
    ELSE Done([h EXCEPT ![j].elems = Append(@, v)], v)
AppendBool(h, j, b) == AppendTo(h, j, Bool(b))
AppendLeaf(h, j, leaf) == AppendTo(New(h, Node(leaf.t, leaf.val)), j, Fresh(h))
RemoveElem(h, j, i) ==
    IF ~ ToArray(h, j) THEN Crash(h)
    ELSE IF i \notin DOMAIN h[j].elems THEN Done(h, NULL)
    ELSE Done([h EXCEPT ![j].elems = RemoveAt(@, i)], NULL)

(* Faulty: the elements leave the source. *)
ConcatMoves(h, dest, src) ==
    IF ~ ToArray(h, dest) \/ ~ ToArray(h, src) THEN Crash(h)
    ELSE Done([h EXCEPT ![dest].elems = @ \o h[src].elems, ![src].elems = <<>>], dest)

(* The loop of cee_list_merge and of cee_json_array_concat tests the size  *)
(* of the source, which grows if it is the destination.                    *)
Extended(h, dest, src) ==
    IF dest = src /\ h[src].elems # <<>> THEN Loops(h)
    ELSE Done([h EXCEPT ![dest].elems = @ \o h[src].elems], dest)

Concat(h, dest, src) ==
    IF ~ ToArray(h, dest) \/ ~ ToArray(h, src) THEN Crash(h) ELSE Extended(h, dest, src)

-----------------------------------------------------------------------------
(* Faulty: a text becomes an empty list. *)
ListifyEmpty(h, j) ==
    IF ToArray(h, j) THEN Done(h, j)
    ELSE IF ~ ToStr(h, j) THEN Crash(h)
    ELSE Done(New(h, Node("array", 0)), Fresh(h))

(* cee_json_listify: the state of an object is looked for as that of a     *)
(* text, which it is not.                                                  *)
Listify(h, j) ==
    IF ToArray(h, j) THEN Done(h, j)
    ELSE IF ~ ToStr(h, j) THEN Crash(h)
    ELSE AppendTo(New(h, Node("array", 0)), Fresh(h), j)

(* The end of one call carried into the next. *)
Then(r, next(_)) == IF r.end = "ok" THEN next(r.heap) ELSE r

(* Faulty: what is not a list is appended to as if it were. *)
ObjectAppendUnlisted(h, j, key, v) ==
    IF ~ ToObject(h, j) THEN Crash(h)
    ELSE IF Get(h, j, key) = NULL THEN Set(h, j, key, v)
    ELSE IF ToArray(h, v) THEN Concat(h, Get(h, j, key), v) ELSE AppendTo(h, Get(h, j, key), v)

(* cee_json_object_append: under the key comes a list of the old value and *)
(* the new, or the new value itself if there is none.                      *)
ObjectAppend(h, j, key, v) ==
    LET old == Get(h, j, key)
        listed == Listify(h, old)
        list == IF ToArray(h, old) THEN old ELSE Fresh(h)
        Join(g) == IF ToArray(g, v) THEN Concat(g, list, v) ELSE AppendTo(g, list, v)
    IN  IF ~ ToObject(h, j) THEN Crash(h)
        ELSE IF old = NULL THEN Set(h, j, key, v)
        ELSE IF ToArray(h, old) THEN Join(h)
        ELSE Then(Then(listed, Join), LAMBDA g : Set(g, j, key, list))

(* cee_json_set_error: the first error stays. *)
SetError(h, j, text) ==
    IF ~ ToObject(h, j) THEN Crash(h)
    ELSE IF "error" \in DOMAIN h[j].fields THEN Done(h, NULL)
    ELSE SetLeaf(h, j, "error", StringLeaf(text))

-----------------------------------------------------------------------------
(* Faulty: values of the same type are taken for merged. *)
RECURSIVE MergeSameKept(_, _, _)
MergeSameKept(h, dest, src) ==
    LET Enter(r, k) ==
            IF r.end # "ok" THEN r
            ELSE IF Get(r.heap, dest, k) = NULL
            THEN [r EXCEPT !.heap[dest].fields = (k :> h[src].fields[k]) @@ @]
            ELSE LET m == MergeSameKept(r.heap, Get(r.heap, dest, k), h[src].fields[k])
                 IN  IF m.end # "ok" THEN m
                     ELSE IF m.val # NULL THEN [r EXCEPT !.heap = m.heap]
                     ELSE [r EXCEPT !.heap[dest].fields[k] = h[src].fields[k]]
    IN  IF h[dest].t # h[src].t THEN Done(h, NULL)
        ELSE IF ToObject(h, dest)
        THEN FoldLeft(Enter, Done(h, 1), SetToSeq(DOMAIN h[src].fields))
        ELSE IF ToArray(h, dest)
        THEN Done([h EXCEPT ![dest].elems = @ \o h[src].elems], 1)
        ELSE Done(h, 1)

(* cee_json_merge, and cee_map_merge with merge_json_value: a key that     *)
(* only the source has brings its value along, not a copy of it; where     *)
(* both have the key and the values do not merge, the source's is taken.   *)
(* The order of the keys makes no difference to what is a tree.            *)
RECURSIVE Merge(_, _, _)
Merge(h, dest, src) ==
    LET Enter(r, k) ==
            IF r.end # "ok" THEN r
            ELSE IF Get(r.heap, dest, k) = NULL
            THEN [r EXCEPT !.heap[dest].fields = (k :> h[src].fields[k]) @@ @]
            ELSE LET m == Merge(r.heap, Get(r.heap, dest, k), h[src].fields[k])
                 IN  IF m.end # "ok" THEN m
                     ELSE IF m.val # NULL THEN [r EXCEPT !.heap = m.heap]
                     ELSE [r EXCEPT !.heap[dest].fields[k] = h[src].fields[k]]
    IN  IF h[dest].t # h[src].t THEN Done(h, NULL)
        ELSE IF ToObject(h, dest)
        THEN FoldLeft(Enter, Done(h, 1), SetToSeq(DOMAIN h[src].fields))
        ELSE IF ToArray(h, dest) THEN Extended(h, dest, src) ELSE Done(h, NULL)

(* cee_json_merge_or_return: what the pointer holds afterwards. *)
MergeOrReturn(h, dest, src) ==
    IF dest = NULL THEN Done(h, src) ELSE [Merge(h, dest, src) EXCEPT !.val = dest]

-----------------------------------------------------------------------------
(* Faulty: the search of an array ends with its first element. *)
RECURSIVE HasFirst(_, _, _)
HasFirst(h, j, key) ==
    LET Below(k) == IF k = key THEN {h[j].fields[k]} ELSE HasFirst(h, h[j].fields[k], key)
    IN  IF ToArray(h, j) THEN IF h[j].elems = <<>> THEN {} ELSE HasFirst(h, h[j].elems[1], key)
        ELSE UNION {Below(k) : k \in DOMAIN h[j].fields}

(* cee_json_has: the values that may be found, which one depends on the    *)
(* order of the walk of an object.                                         *)
RECURSIVE Has(_, _, _)
Has(h, j, key) ==
    LET hits == {i \in DOMAIN h[j].elems : Has(h, h[j].elems[i], key) # {}}
        Below(k) == IF k = key THEN {h[j].fields[k]} ELSE Has(h, h[j].fields[k], key)
    IN  IF ToArray(h, j) THEN IF hits = {} THEN {} ELSE Has(h, h[j].elems[Min(hits)], key)
        ELSE UNION {Below(k) : k \in DOMAIN h[j].fields}

-----------------------------------------------------------------------------
(* A text written into the block of another: cee_str_replace, of which     *)
(* cee_json_replace ignores the new block.                                 *)
Fits(node, text) == text \notin Long \/ node.val.block \in Long
Written(node, text) == IF Fits(node, text) THEN [node EXCEPT !.val.text = text] ELSE node

(* Faulty: the elements of arrays are left alone. *)
RECURSIVE ReplaceFieldsOnly(_, _, _)
ReplaceFieldsOnly(h, j, re) ==
    LET Go(g, c) == ReplaceFieldsOnly(g, c, re)
    IN  IF ToObject(h, j)
        THEN FoldLeft(Go, h, [i \in 1..Cardinality(DOMAIN h[j].fields) |->
                                 h[j].fields[SetToSeq(DOMAIN h[j].fields)[i]]])
        ELSE IF ToStr(h, j) /\ h[j].val.text \in DOMAIN re
        THEN [h EXCEPT ![j] = Written(@, re[h[j].val.text])]
        ELSE h

(* cee_json_replace *)
RECURSIVE Replace(_, _, _)
Replace(h, j, re) ==
    LET Go(g, c) == Replace(g, c, re)
        keys == SetToSeq(DOMAIN h[j].fields)
    IN  IF ToObject(h, j) THEN FoldLeft(Go, h, [i \in DOMAIN keys |-> h[j].fields[keys[i]]])
        ELSE IF ToArray(h, j) THEN FoldLeft(Go, h, h[j].elems)
        ELSE IF ToStr(h, j) /\ h[j].val.text \in DOMAIN re
        THEN [h EXCEPT ![j] = Written(@, re[h[j].val.text])]
        ELSE h

-----------------------------------------------------------------------------
(* A parsed document: each value of it is made once. *)
RECURSIVE Build(_, _)
Build(h, tree) ==
    LET keys == SetToSeq(DOMAIN tree.fields)
        Elem(r, c) == LET b == Build(r.heap, c) IN [heap |-> b.heap, at |-> Append(r.at, b.val)]
        elems == FoldLeft(Elem, [heap |-> h, at |-> <<>>], tree.elems)
        fields == FoldLeft(Elem, elems, [i \in DOMAIN keys |-> tree.fields[keys[i]]])
        n == Len(tree.elems)
        At_(k) == fields.at[n + (CHOOSE i \in DOMAIN keys : keys[i] = k)]
    IN  IF \E i \in DOMAIN Singletons : Tree(Singletons, i) = tree
        THEN Done(h, CHOOSE i \in DOMAIN Singletons : Tree(Singletons, i) = tree)
        ELSE Done(New(fields.heap, [t |-> tree.t, val |-> tree.val, elems |-> elems.at,
                                    fields |-> [k \in DOMAIN tree.fields |-> At_(k)]]),
                  Fresh(fields.heap))

Parsed(d) == Build(Build(Singletons, d[1]).heap, d[2]).heap

Init == /\ \E d \in Documents : heap = Parsed(d)
        /\ outcome = "ok" /\ last = [op |-> "none"] /\ calls = 0

(* The rules of the program, see above. *)
Typed(j, ts) == "types" \in Freedoms \/ heap[j].t \in ts
Apart(j, v) == "shared" \in Freedoms \/ (IsTree(heap, j) /\ Mutable(heap, j) \cap Mutable(heap, v) = {})
Short(re) == "long" \in Freedoms \/ \A x \in DOMAIN re : re[x] \notin Long
NoCycle(j, v) == j \notin Reach(heap, v)

CallOf(c, r) == heap' = r.heap /\ outcome' = r.end /\ last' = c
Call(op, j, v, r) == CallOf([op |-> op, j |-> j, v |-> v], r)

Made == DOMAIN heap
Objects(j) == Typed(j, {"object"})
Arrays(j) == Typed(j, {"array"})

SetValue == \E j, v \in Made, key \in Keys :
               Objects(j) /\ NoCycle(j, v) /\ Call("set", j, v, Set(heap, j, key, v))
SetNew == \E j \in Made, key \in Keys : Objects(j) /\
             \/ \E leaf \in Leaves : Call("set", j, j, SetLeaf(heap, j, key, leaf))
             \/ \E b \in BOOLEAN : Call("set", j, j, SetBool(heap, j, key, b))
             \/ Call("set", j, j, SetNull(heap, j, key))
SetObject == \E v \in Made, key \in Keys : Call("kv", v, v, ObjectKv(heap, key, v))
ChangeKeys == \E j \in Made, key, new_key \in Keys : Objects(j) /\
                 \/ Call("remove", j, j, RemoveKey(heap, j, key))
                 \/ Call("rename", j, j, Rename(heap, j, key, new_key))
                 \/ /\ Get(heap, j, key) # NULL
                    /\ Call("convert", j, j, ConvertToI64(heap, j, key))
SetError_ == \E j \in Made, text \in Texts : Objects(j) /\ Call("error", j, j, SetError(heap, j, text))

InsertValue == \E j, v \in Made : Arrays(j) /\ NoCycle(j, v) /\
                  \/ \E i \in 1..Len(heap[j].elems) : Call("insert", j, v, Insert(heap, j, i, v))
                  \/ Call("insert", j, v, AppendTo(heap, j, v))
InsertNew == \E j \in Made : Arrays(j) /\
                \/ \E leaf \in Leaves : Call("insert", j, j, AppendLeaf(heap, j, leaf))
                \/ \E b \in BOOLEAN : Call("insert", j, j, AppendBool(heap, j, b))
RemoveValue == \E j \in Made : Arrays(j) /\
                  \E i \in 1..Len(heap[j].elems) + 1 : Call("remove", j, j, RemoveElem(heap, j, i))

ConcatValue == \E j, v \in Made : /\ Arrays(j) /\ Arrays(v)
                                    /\ Apart(j, v) /\ Call("concat", j, v, Concat(heap, j, v))
MergeValue == \E j, v \in Made : Apart(j, v) /\ Call("merge", j, v, MergeOrReturn(heap, j, v))

(* What is there may be a list or a text, and nothing is appended to       *)
(* itself.                                                                 *)
AppendValue == \E j, v \in Made, key \in Keys :
                  /\ Objects(j) /\ Apart(j, v)
                  /\ Get(heap, j, key) # NULL => Typed(Get(heap, j, key), {"array", "string"})
                  /\ CallOf([op |-> "append", j |-> j, v |-> v, key |-> key], ObjectAppend(heap, j, key, v))

ReplaceTexts == \E j \in Made, re \in Rewrites :
                   Short(re) /\ Call("replace", j, re, Done(Replace(heap, j, re), NULL))

Next == /\ outcome = "ok" /\ calls < MaxCalls /\ calls' = calls + 1
        /\ \/ SetValue \/ SetNew \/ SetObject \/ ChangeKeys \/ SetError_
           \/ InsertValue \/ InsertNew \/ RemoveValue \/ ConcatValue \/ MergeValue
           \/ AppendValue \/ ReplaceTexts

Spec == Init /\ [][Next]_vars

-----------------------------------------------------------------------------
(* What the header promises, on documents as trees. *)

RECURSIVE Union(_, _)
Union(t, u) ==
    IF t.t # u.t \/ t.t \notin {"object", "array"} THEN u
    ELSE [t EXCEPT !.elems = @ \o u.elems,
                   !.fields = [k \in DOMAIN @ \cup DOMAIN u.fields |->
                                  IF k \notin DOMAIN u.fields THEN @[k]
                                  ELSE IF k \notin DOMAIN @ THEN u.fields[k]
                                  ELSE Union(@[k], u.fields[k])]]

RECURSIVE Rewritten(_, _)
Rewritten(t, re) ==
    [t EXCEPT !.val = IF t.t = "string" /\ @.text \in DOMAIN re THEN [@ EXCEPT !.text = re[@]] ELSE @,
              !.elems = [i \in DOMAIN @ |-> Rewritten(@[i], re)],
              !.fields = [k \in DOMAIN @ |-> Rewritten(@[k], re)]]

Listed(t) == IF t.t = "array" THEN t.elems ELSE <<t>>

(* Type invariant: every pointer is to a value, no value contains itself,  *)
(* and nothing is ever written to the shared ones.                         *)
HeapOK == /\ \A a \in Made : Children(heap, a) \subseteq Made
          /\ \A a \in Made : \A c \in Children(heap, a) : a \notin Reach(heap, c)
          /\ SubSeq(heap, 1, Len(Singletons)) = Singletons

(* Under the rules no call dereferences NULL or fails to return.           *)
NeverFails == outcome = "ok"

(* A call changes only the document it is for, and no document     *)
(* that shares nothing with that one; the source of a merge, of a          *)
(* concatenation or of an append is as it was.                             *)
OthersKept == \A a \in Made : Mutable(heap, a) \cap Mutable(heap, last'.j) = {} =>
                                   Tree(heap', a) = Tree(heap, a)

(* Merging into a document unites it with the other one: what only *)
(* one has is there, objects under the same key are united, lists joined,  *)
(* and of two other values the source's is taken (value.c:221-232).  Two   *)
(* values that are not both objects or both lists stay as they are.        *)
United == LET t == Tree(heap, last'.j)  u == Tree(heap, last'.v)
          IN  IF t.t = u.t /\ t.t \in {"object", "array"}
              THEN Tree(heap', last'.j) = Union(t, u) ELSE Tree(heap', last'.j) = t

(* What is appended under a key comes after all that was there,    *)
(* one value, the elements of a list each by itself.                       *)
Collected ==
    LET old == Get(heap, last'.j, last'.key)
        new == Get(heap', last'.j, last'.key)
    IN  IF old = NULL THEN new = last'.v
        ELSE Listed(Tree(heap', new)) = Listed(Tree(heap, old)) \o Listed(Tree(heap, last'.v))

(* Every text of a tree that the map names is replaced, at any     *)
(* depth, once.                                                            *)
Replaced == IsTree(heap, last'.j) => Tree(heap', last'.j) = Rewritten(Tree(heap, last'.j), last'.v)

(* Safety: a search finds a key if and only if an object of the document   *)
(* has it.                                                                 *)
HasIffOccurs ==
    \A a \in Made, key \in Keys :
       (Has(heap, a, key) # {}) <=> \E c \in Reach(heap, a) : key \in DOMAIN heap[c].fields

(* Safety: the heap stays sound, no call fails, and searching is complete. *)
ValuesSound == HeapOK /\ NeverFails /\ HasIffOccurs

(* Action: a call has its effect on the document it is for and on no other *)
(* (cee_json_merge, cee_json_object_append, cee_json_replace and the rest). *)
CallsHaveTheirEffect ==
    [][calls' # calls => /\ OthersKept
                         /\ last'.op = "merge" => United
                         /\ last'.op = "append" => Collected
                         /\ last'.op = "replace" => Replaced]_vars
=============================================================================
