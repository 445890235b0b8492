# cee-std in TLA+

A verification development for cee-std, a C library of reference-counted, traced
containers with JSON on top and a thin SQLite layer above that.  The modules are
translated from the C sources; TLC checks them on small instances, TLAPS proves
facts about the trace chain, reference counts and deletion, the collector, balanced trees
and the sets built of them, strings, the JSON tokenizer and parser, the SQLite layer and
the database manager for every instance.

* Part 1 is the inventory of the system, part 2 how the modules correspond to the
  code, part 3 the runs, part 4 the proofs, part 5 the divergences found, part 6
  what is not modelled and the plan.

To check a run: `tlc -workers 2 -config set.cfg MCCeeSet`, and likewise for the
others (`PROJECT.json` has the module of each).  To check proofs:
`tlapm CeeChainProofs.tla`, and likewise.

## 1. The system

Everything allocated through the library is a *block*: a header that contains a
`struct cee_sect` (trace function, resize method, links of the trace chain,
`in_degree`, `retained`, `gc_mark`), and behind it the data the user holds a
pointer to.  The library is single-threaded.  What is hard about it is not
interleaving but long sequences of legal calls on shared objects, deletion and
marking that recurse through graphs, addresses that `realloc` reuses, and limits
and boundaries.  Interleaving enters with SQLite: other connections between the
statements of a call, and processes that die between the statements of a script.

| component | state | operations | hard behaviour | what makes it correct |
|---|---|---|---|---|
| trace chain (`cee-resize.h`, `state.c`) | `trace_next`, `trace_prev` of every block, `trace_tail` of the state | chain, de_chain, resize by realloc / malloc / in place, sweep, teardown | a block moves while others link to it; sweep frees the list it walks | links lead to live blocks, every block is on the chain, sweep and teardown return and free what they should |
| counts and policies (`cee-common.c`) | `in_degree` (16 bits), `retained` | cee_incr_indegree, cee_decr_indegree, cee_del_e, cee_del_ref, cee_del | deletion recurses through shared objects while its containers are still there | no dangling element, no double delete, counts are exact, exactly the unowned objects go |
| containers (`list.c stack.c tagged.c tuple.c triple.c quadruple.c n_tuple.c env.c`) | the elements and their policies | mk, append, insert, remove, push, pop, delete | the same object in several places under different policies | as above |
| mark and sweep (`state.c`, trace functions) | roots, contexts, `gc_mark`, next mark | add/remove root and context, cee_state_gc | the mark alternates and fresh blocks carry 0; recursion without a visited test; sweep does not undo counts; the key list of a map, of the contexts' too, is not marked | roots and what they reach survive, old garbage goes, a collection returns |
| map (`map.c`) | a balanced tree of pairs, the list of keys in insertion order, `size` | add(_e), find, remove, rename, merge, clone, delete | tree and list change one after the other; re-adding frees the key passed in | the two are one ordered map; counts cover references; no use after free |
| set (`set.c`) | a balanced tree, `size`, a policy | add, find, remove, clear, union, values, clone, delete | counts on add and not on remove; equal elements that are different objects | set algebra; no element of a set is freed |
| balanced tree (`musl-tsearch.c`) | nodes with key, two links, stored height | search (insert), find, delete, walk, destroy | rebalancing along a stack of addresses with an early stop | AVL shape, exact heights, order; an abstract set; a walk that sees every node |
| hash table (`musl-hsearch.c`) | entries, used count | hcreate, hsearch, grow | a probe ends only at its key or a free entry | every lookup returns, and finds what was entered |
| dict (`dict.c`) | a hash table, parallel lists of keys and values | add, find | a key added twice is in the lists twice and keeps its first value | a map; table and lists agree |
| JSON parser (`cee-json/parser.c`) | automaton state, a stack bounded at 512, the value being built | one step per token | what is on the stack must be what the state works on | exactly the (lenient) grammar; a tree; the root returned |
| JSON tokenizer (`cee-json/tokenizer.c`) | position, line, a scratch copy of a string | next token | nothing but a NUL stops it within a token; escapes, surrogates, UTF-8, numbers by first digits | tokens are those of JSON; strings are what was meant; never beyond the buffer |
| JSON printer (`cee-json/snprint.c`) | an explicit stack bounded at 500, the offset | one step per stack frame; two passes | the counting and the writing pass must agree; bracket over padding | prints what was parsed; fills the buffer exactly |
| JSON values (`cee-json/value.c`) | value trees, which share parts after set, append and merge | constructors, setters, merge, concat, replace, rename, remove, listify, has, iterate | a pointer goes into two documents; text is replaced in place | a merge is a union; what shares nothing with a call's arguments stays as it was |
| JSON selectors (`cee-json/value.c`, escape) | position in selector and document | select, escape_string | a token buffer of 256; a buffer nothing wrote | the path leads where it says; escaped text is read back |
| JSON files (`cee-json/cee_json_merge.c`, load and save) | files, a process | load, save, merge of many | the output is emptied before the inputs are read | a reported success has the union |
| strings (`str.c`) | a block with a capacity, a text | mk, mkf, mkv, add, catf, replace, trims, str_replace_* | the NUL at the capacity; sizes computed before writing | one text; never writes outside the block |
| SQLite layer (`sqlite3/cee-sqlite3.c`, `join.c`) | bound data, statements, the table | insert, update, update_or_insert, delete, select, select1_or_insert, next id, join, insert of an array | other connections between two statements; statements fail | a call is one step on a keyed table or fails and says so |
| database manager (`sqlite3/cee_dbm.c`) | the database file, dump, version | create, restore, migrate, customize, backup | a crash between two statements of a script | ready means sound; a restore brings back the backup |

How they interact: every container calls chain and de_chain of the state it was
made in; every container calls cee_incr_indegree / cee_del_e for its elements;
`cee_del` calls an object's trace function, which calls `cee_del_e` of its
elements; `cee_state_gc` calls the trace functions twice, first to mark and then
to free; map and set own a tree and the map a list besides; a dict a hash table and
two lists; a JSON value is a tagged container over map, list, str and boxed;
parser and printer use stacks; the parser takes its tokens from the tokenizer;
the merge tool parses, merges and prints; the SQLite layer takes JSON objects in
and gives JSON arrays out, and the manager runs scripts through it.

The hazards, each with the line where it bites and the properties that watch it,
are listed in `PROJECT.json` under `hazards`.  Smaller ones that are plain from
the text and need no model: `cee_list_iterate` returns an uninitialised variable for
an empty list (list.c:138); `cee_list_merge` of a list into itself does not end
(list.c:154); closures are never marked (closure.c:30; see part 5).

## 2. Modules and code

Every definition that stands for code is listed with its lines in `PROJECT.json`
(`map`).  Definitions that a comment calls *Faulty* are plausible bugs; each breaks
a property under the configuration of a run (`mutants`), and no run uses them.

Programs that the library cannot survive are kept out of a model by guards: a
program deletes what it holds itself, makes no cycles of counted references, calls
what a value supports.  The constant `Freedoms` of a module lifts such rules
one by one, or adds a failure of the surroundings, and its comment says what each
member lifts (`TableFreedoms` in `CeeSqlite`).  The passing runs leave it empty (`database` has "crash"), and
part 5 says what happens when it is not.

Some properties are conjunctions of named parts (`MemorySafe`, `DeletionSafe`,
`ReportsTruly` and so on): the parts are stated and commented one by one in
their modules.

### The trace chain: CeeTracked, CeeChain, CeeChainRefinement, CeeChainProofs

`CeeChain` has the links (`next`, `prev`, `tail`), the allocated blocks `live`,
and where it is (`pc`): with the program, or in a sweep with its `head` and
the blocks it is to `keep`, or in the teardown.
`Chain`, `DeChain` and the three resize methods are operators on the links,
written assignment by assignment as in `cee-resize.h`; `Alloc`, `Del`, `ResizeRealloc`
(the block moves or stays) and `ResizeMalloc` are one call each; the sweep loop of
`state.c` and the loop that deletes a state take one step per iteration, because
each iteration changes the links the next one reads.  A freed address is
reused by a later allocation, and its links keep what they last held: reading
them is what `SweepOnLiveBlock` forbids.  The constant `GrowOld` says whether
the program grows blocks other than the one registered last.

`CeeTracked` is the abstract specification: the tracked blocks in order, a
collection that frees exactly the unmarked ones, a deletion that frees all, newest first.
`CeeChainRefinement` maps the chain to it by following `trace_prev`.

### Counts, policies, deletion: CeeOwnership, CeeRefs, CeeRefsRefinement, CeeRefsProofs

`CeeRefs` has the objects with kind, policy and slots, `in_degree` modulo `RcMod`,
`retained`, and the call stack of `cee_del`: one frame per nested trace function,
one step per slot visited, which is where a shared object can be met twice.
Actions are the library calls (make, append, insert, remove, push, pop,
delete).  `cee_tuple_update_del_policy` is called by the map alone (map.c:140, 194, 195) and is
part of `Put` and `Taken` of `CeeMap`.  Preconditions the header states are guards: a
program gives an object under `DEL` to a single owner, deletes what it holds
itself, and makes no cycles of counted references.

`CeeOwnership` is the abstract specification: an ownership relation, and a
deletion that removes at once everything that is owned by nobody outside.
`CeeRefsRefinement` maps the objects to it: while a deletion runs, the objects it is
going to free (`Heap!Condemned` of the calls in progress) count as freed already.

### Mark and sweep: CeeGC, CeeGCProofs

Objects are lists, maps and closures with references, roots, the marks and the
alternating next mark; `Mark` is one call of a trace function with action
MARK, with its own stack; the sweep frees what does not carry the mark.  The
constant `Kinds` selects the containers, `Cycles` whether programs link cycles.
`AddContext` and `RemoveContext` go through the map of contexts (state.c:101), whose pairs are marked and
whose list of keys is not (map.c:68-71): `ctx_list` says whether that list is still there, and
`LateContexts` whether programs call them after their first collection, which is a use of freed memory.

### Search structures: TreeSet, MuslTsearch, MuslTsearchProofs, MuslHsearch, Dictionary, CeeDict

`MuslTsearch` represents a tree as a function from paths (sequences of sides) to
nodes of key and stored height; `Rot` and `Balance` are `rot` and
`__tsearch_balance` on the subtree at a path, heights computed exactly as the code
does and never recomputed from the shape; `Rebalanced` is the loop up the stack
of addresses, with its early stop.  `Inserted` and `Deleted` are the functions
with their search, and `Deleted` includes the predecessor that is freed in the
place of the deleted node.  `Walk` takes a stored height of one for a leaf, as
`walk` does.  `TreeSet` is the set of elements with a comparison.

`MuslHsearch` is the table with its quadratic probe, one entry a step, and the growth that
enters everything into a larger table.  `CeeDict` calls it: an addition enters a
key into the table if it is not there, and appends to both lists whether it is or
not.  `Dictionary` is the map they amount to, in which the first value stays.

### The containers over a tree: OrderedMap, CeeMap, CeeMapProofs, SetAlgebra, CeeSet, CeeSetProofs

`CeeMap` builds on the operators of the tree: `tree[m]`, `order[m]` (the list
`insertion_ordered_keys`; its length is the `size`), and the memory of keys and
values with their counts.  An action is a whole call: `Put` is `cee_map_add_e`
from the temporary pair to its deletion, `Taken` is `cee_map_remove`, `Rename` is the
two of them, `Merge` and `Clone` go on from `Put` to `Put` over the pairs of the walk (`PutAll`), and
`Destroyed` gives back the list of keys and then each pair.  Keys that compare equal
and are different objects are part of the instance.  `OrderedMap` is the abstract
specification: a sequence of names with values, without counts or objects.

`CeeSet` has the elements of each set as a tree, its policy and its `size`, and the
memory of the elements; actions are whole calls, with `Values` and `Union` as the
code builds them from walks.  `SetAlgebra` is named sets and the algebra on them.

### JSON text: JsonTokenizer, JsonLexicon, JsonEscape, JsonGrammar, JsonParser, TextProofs, JsonPrinter, JsonRoundTrip, JsonSelect

`JsonTokenizer` works on bytes: a step is a call of `cee_json_next_token` from one
position to the next, with its white space, comments, numbers (`strtoll`, which saturates at the
least and the greatest integer, and `strtod`, by what their text means), strings in two passes, `\u` escapes to UTF-8.  `Behind`
is what lies behind the buffer.  `JsonLexicon` states the tokens of JSON over
whole texts, independently of the scanner.  `JsonEscape` has the two functions that
write a string, with the one that goes on behind the fourth of six characters.

`JsonParser` is the automaton of `cee_json_parsex`: one action per state, one
alternative per branch, the stack with its frames (`tops`, `j`) and its bound, the
value tree as a sequence of nodes.  The tokenizer is a free choice of the next
token there, errors included.  `JsonGrammar` is a recursive definition of the texts
that are JSON values, with and without trailing commas.  `JsonPrinter` is the printer
with its stack bound, the indentation kept modulo `TabsMod` and the bracket that
overwrites padding, in the counting and in the writing pass; `JsonRoundTrip`
composes the two: what was parsed is printed, where each key of an object is printed once, in the place of
its first member and with the value of its last (`Singly`, computed on the tokens and not on the tree).

`JsonSelect` is the loop over a selector, one character a round, with the token
buffer, the arguments of `*`, and the garbage that `*` in a name copies.  What a path leads to
(`Follow`) is stated from the comment above the function, with a table of types of its own.

### JSON values and files: JsonValues, JsonFiles

`JsonValues` is a heap of values.  Setting, appending and merging put a pointer
into a container, as the code does, so that documents share parts, and the
properties compare the *trees* before and after a call.  `JsonFiles` is the
command line tool that merges files and the functions that load and save one,
step by step, in the order in which files are opened, read, written and closed, with an open that
fails at each.  Documents carry their type: the tool goes on where the union is an object, and ends
in a segfault where it is not.

### Strings: TextBuffer, CeeStr, TextProofs

`CeeStr` has the blocks of a string, each with its size and the characters written to
it, the NUL included; a growth leaves the block before it as it was.  Where the code leaves a
string without a NUL (`cee_str_strn`), or prints arguments that an earlier attempt has used
up, the text goes on with what the memory holds (`Garbage`, `Reread`); `MemoryEnds` says that
this ends within the block.  `TextBuffer` is
one text.  The `str_replace_*` functions are operators that compute the size and
the result as the code does.  `str_replace_all_ext` divides by the length of the shortest new part:
where that is zero, a step of its own (`ReplaceExtCrash`) is the end of the program.

### SQLite: KeyedTable, CeeSqlite, CeeDbm, DatabaseProofs

`CeeSqlite` has the table, the bound `data`, the counters of the connection (`changes`, and `earlier`,
whether its total is above zero) and the running `call`;
the steps of a call are its statements (probe, update, insert, select, fetch ...),
and between two of them another connection may insert.  Statements fail where a
program must expect it.  An entry of the data has the fields `i`, `i64` and `value` of
`struct cee_sqlite3_bind_data`: `Populated` and `BoundTo` choose one by the type of the column, `Rebound`,
which is what a join does, by the type of the JSON value.  A number for an int is cast to one
(`ToInt`).  A value of the wrong type ends the iteration over the keys, of which any others may have come
before (`Reached`), as a map is walked in the order of its tree.  "own_select" is a select without
info, "select_op" the one by way of `cee_sqlite3_generic_opcode`.  `KeyedTable` is the calls on
the rows of one key as one step each: a request is asked, served at once or failed, and finished.
What a request means (`NewOf`, `PatchOf`) is stated from the JSON object and the header, without the data.

What `TableFreedoms` lifts, each with its row in part 5: "select_fails" (the SELECT of an update fails),
"step_fails" (so does the fetch of a further row), "others_delete" (the other connection deletes
rows between two statements), "reuse" (one data for several calls), "mistyped" (a value has not the type of its
column), "wide" (a number of an INT column fits no int), "null_update" (an update gives null to
a not_null column), "join_int64" (a join by an INT64 column).

`CeeDbm` has a database file (schema, version, rows), the dumps by version, the
connection of the application, and a process that runs `cee_dbm_db_init` statement
by statement, or a backup; it may die between any two steps of an
initialisation and start again.  `broken` and `saved` are history variables.

### MC modules

The runs of the chain and of the counts use the refinement modules as they are.
`MCCeeGC`, `MCCeeSet` give one module its instance.  `MCMuslSearch`, `MCValues`, `MCJsonText` and `MCDatabase` hold several modules
side by side: a variable `using` chooses one of them at the start, which then takes
all the steps of the behaviour.  No behaviour is lost by it, as these modules share
no state; and every property of one holds in the others' behaviours trivially.

## 3. Runs

Deadlock is checked in the runs of one module.  The runs `json_text`, `search`, `values`
and `database` hold behaviours of calls that return, after which nothing follows,
of bounded numbers of calls, or of a process that has been ended by a failed
assertion: these may stop.

| run | instance | distinct states | shows |
|---|---|---|---|
| chain_newest | 4 addresses, only the newest block grows | 75,640 | sweep touches allocated blocks only and returns; the chain refines CeeTracked |
| chain_any | 3 addresses, any block grows | 12,182 | links of allocated blocks stay consistent, deletion of a state leaves none and ends, a collection that returned freed all garbage |
| chain_hang | as chain_any | violation | a collection after growing an old block does not return |
| refs_kinds | 3 objects; box, list, stack, env; RC, DEL, NOOP | 247,880 | no dangling element, nothing deleted twice; exact counts, retained objects have an owner |
| refs_products | 3 objects; box, list and all fixed products, up to 4 slots; RC, DEL | 59,879 | deletion returns; refines CeeOwnership |
| gc | 3 addresses, no cycles, contexts changed before the first collection only; lists with 2 references each, or list, map and closure with one | 2,048,608 | with lists, roots and what they reach survive, counts cover references and a collection returns; with all kinds, bounded mark depth, and old garbage is freed in spite of the alternating mark |
| gc_map | 3 maps | violation | a surviving map loses its list of keys |
| set | 3 sets; 3 elements, 2 of them equal; RC, DEL | 278,194 | no element of a set is freed, counts and sizes cover what is held; refines SetAlgebra |
| search | trees of 11 ranks with an equal element; dicts of 7 keys, 5 of which collide | 513,086 | exact heights, AVL balance, complete walk; refines TreeSet; lookups end; refines Dictionary |
| values | 2 maps of 4 keys, 3 names, 2 values; 4 pairs of documents, 2 calls; 3 files, 2 calls | 216,935 | counts, no use after free, refines OrderedMap; calls do what they say and leave the rest; a reported success has the union |
| database | 2 versions, 1 migration; 3 row ids, an int, an int64 and a text column, ints of 3 bits | 532,473 | ready is sound, restored is the backup; calls refine KeyedTable, report truly, return |
| json_text | 2 strings, 9 tokens, depth 4, both formats, both settings of force_eof; numbers of 5 bytes, 4 pieces of words and strings; selectors of 4 steps; strings of 5 characters | 736,488 | exactly the lenient grammar, a tree, the root; printing gives the text back into a buffer of the right size; tokens are those of JSON and strings what was meant; selectors lead where they say; strings stay in their blocks |

Why the bounds are enough for what they show:

* Chain: the code distinguishes a first, an inner and a last block and whether the
  neighbour is the state; three blocks have all of these and four have an inner
  pair.  The proofs remove the bound for the safety properties.
* References: sharing, diamonds and an object met twice by one deletion need
  three objects; the count's width matters only beyond the reachable counts
  (`RcMod` is above them; see part 5 for the width).  The proofs remove the bound on the
  objects.
* GC: the floating garbage of the alternating mark needs an object that outlives
  two collections and an owner that does not; depth two already recurses.
* Set: a union and its two operands are three sets; two equal elements that are
  different objects tell the identity of an element from its comparison.
* Tree: a tree of twelve nodes is the smallest in which one deletion rotates at two
  levels; eleven ranks and one that is equal to another reach all four rotations, the
  early stop and the predecessor case.
* Dict: the seventh key makes a table for six grow; five keys fall on one
  place of the first table, three and two of them on one after it has grown.  Other keys come in
  turn, which loses no collision, as their number and not their order fills a table.
* Map: three names give a tree with an inner node and a rotation; two objects of one
  name are what makes the list searched by comparison differ from one searched
  by address; two maps are needed for merge and clone.
* Documents: two calls on two parsed documents, since a third call can only meet the
  sharing that two leave; nested documents under a key that both have are the case
  merge recurses in.
* Files: three inputs, of which the output may be one, and one given twice.
* JSON: nine tokens hold an array in an object in an array, a
  duplicate key and an error at any place; the parser's stack bound
  of 4 is exceeded by texts of the run, the printer's of 6 lies above it.
* Bytes: a number has at most five parts (sign, digits, point, digits, exponent);
  four pieces of a string have a pair of surrogates between two others.  The
  printed and escaped texts of three characters have every character next to
  every other.
* Strings: blocks of four bytes of which the header takes two, with `Slack` of one
  between the size the code believes it has and the end of the block; texts
  end before, at and behind each boundary.
* Table: two keys and three ids: a duplicate that is refused, a row that another
  connection inserted, a list with a bad entry in the middle.  Ints have three bits (`IntMax` of 3), so
  that 9 is wider than an int and becomes 1, which is a key; `MaxEarlier` of 1 stands for what a
  connection changed before the update it reports on.
* Database: one version with a migration script and one without is what the code
  distinguishes, since an initialisation applies one migration.

Assumed of the surroundings, and named in the modules: behind a text buffer is a NUL
(`Behind`); texts that `cee_json_escape_string` is given have no control characters
without a letter (`EscapeTexts`; part 5); paths with a `*` in a name are left out of
`SelectsPath`, and so are those that ask a double, a u64 or a strn for its type (`Asks`); what memory holds before it is written is one of `Garbage`.

Fairness.  Liveness (`SweepTerminates`, `TeardownTerminates`, `ListGcTerminates`,
`DeletionTerminates`, `LookupsEnd`, `CallsReturn`) assumes weak fairness of the
steps of a call that is running, and of nothing else.  The library is
single-threaded and its loops and recursions wait for nothing, so a call that has a
next step takes it; a program need not make any call at all, and another
connection to a database need not do anything.

Every property comes with at least one plausible bug of the code that breaks it under
the same configuration.

## 4. Proofs

`CeeChainProofs` is about any set of addresses (`Blocks`), and programs that grow
any block.  It assumes `ChainAssumption` only: the state and NULL are no
block addresses and are different.

* `TypeCorrect`: Spec => []TypeOK.
* `ChainStaysConsistent`: Spec => []LinksConsistent.  The neighbours of
  an allocated block are allocated and link back to it; only the tail's
  `trace_next` may be stale.
* `NothingLeaks`: Spec => []TeardownLeavesNothing: when `cee_del` of a state has
  returned, no block is allocated.

The inductive invariant is `IInv == TypeOK /\ ChainOn(links, live) /\ TeardownLeavesNothing`, where
`ChainOn` is consistency of the links together with *acyclicity* of `trace_prev`,
stated as a rank that decreases along it.  Consistency alone is not inductive for
the last theorem: a ring of live blocks that the tail is not on is locally consistent,
and the teardown loop, which ends when the tail is the state, would leave it
behind.  With a rank, the block of the lowest rank has the state as its predecessor, and
well-founded induction shows that a chain whose tail is the state has no block.
`ChainAppends`, `DeChainRemoves` and `OffChainWrite` say that the list operations
keep `ChainOn`; `NextIInv` lifts that to every action of `Next`.

The collection builds on it:

* `SweepFreesAll`: Spec => SweepIsComplete.  A collection that returns has freed all
  it did not mark, again for programs that grow any block.  The invariant
  `SweepInv` says that there is a set of headers behind the cursor, all kept, the state among
  them, from which `trace_next` leads nowhere but to the set or to the cursor, the tail
  aside.  When the cursor is NULL, an allocated block of least rank outside
  the set would have its predecessor in it (`AllSwept`).  Where a resize broke the forward
  chain, the sweep may not return, but it cannot return early.
* `SweepStaysOnLiveBlocks`: if `GrowOld = FALSE`, Spec => []SweepOnLiveBlock.  The added
  invariant is that the tail's `trace_next` is NULL (`EndInv`), which is exactly what
  growing an older block destroys.
* `ChainKeepsTheList`: if `GrowOld = FALSE` and `Blocks` is finite, Spec => Tracked!Safety, which is
  the refinement `ImplementsTracked` without its fairness: the links change as the list of
  tracked blocks does in each allocation, free, growth, iteration of the sweep and iteration
  of the teardown.  The invariant is that `trace_prev` spells some list that has each
  allocated block once (`Ordered`); `OrderAppends`, `OrderRemoves` and `OrderOff` say what `chain`,
  `de_chain` and the copying of stale links do to that list.  The refinement mapping
  reads the list by a recursive function (`Predecessor`).  What that computes
  is not proved by induction, but by uniqueness: the function that walks through the
  list solves the recursion, and two solutions have no least argument at which they
  differ (`PredecessorsAre`, `ReadsOrder`).

`CeeRefsProofs` is about any finite set of objects and any `MaxSlots`, with all kinds of
containers and all policies.  It assumes `Freedoms = {}`, that is programs that give an
object to RC or to DEL owners and what an env refers to to no other (part 5 has what happens
otherwise), and `CountersSuffice`: in_degree can count as many references as there is room
for, in the code 65535 of them.

* `DeletionMeetsLiveObjectsOnce`: Spec => []DeletionSafe.  No allocated container holds an
  owned element that is freed, and the calls of `cee_del` that are running are about different,
  allocated objects.
* `InDegreeCountsReferences`: Spec => []CountsExact, at every step of a deletion, not only
  between calls.

The invariant `RInv` adds to the two that a DEL container or an env that owns an object
is its only owner (`LoneOwner`), without which an object freed through its DEL owner would
leave an RC reference behind, and that what is being deleted has no owner left (`BeingDeleted`).  The
latter is why a deletion cannot come back to an object it is about, whatever shape the graph of
references has, so that neither theorem needs the condition on cycles that termination
needs.  References that a running call has dealt with count no more (`RefsIn`), which is what
makes the counts exact in the middle of a deletion.  The invariant is stated of a heap and a
call stack given as arguments, and the lemmas are about two heaps: `AddingIsSound`,
`InsertingIsSound`, `RemovingIsSound` for the calls, `GoingOnIsSound` and `ReturningIsSound` for the
steps of a deletion.

The refinement goes on from there, under the same assumptions:

* `CountingImplementsOwnership`: Spec => ImplementsOwnership.  Each call of the library is the
  one step of `CeeOwnership` it stands for, and the nested calls of `cee_del` free together
  exactly the least set that holds the object deleted and each object that has owners and
  only owners in the set: nothing is freed that somebody owns, and nothing is left behind.

The refinement mapping asks for that least set (`DoomedIn`) in each state of a deletion, so
each of its steps has to leave alone which sets are closed under ownership.  Going on to the next
element gives up a reference of an object that is in every closed set (`GoingOnKeeps`);
here the exact counts are used, as `cee_del_ref` calls itself precisely for the element
that has no other owner.  The object a returning call frees holds nothing any more
(`ReturningKeeps`).  Cycles of counted references need no exclusion: they are in no least set and are
not freed.

`CeeGCProofs` is about any finite set of objects and any number of references and of
collections, and programs that link what they like, cycles included where nothing else is said.
The two theorems on survival assume `~ LateContexts`: a program changes its contexts before its first
collection, or never (part 5).

* `GarbageGoes`: Spec => SweepFreesOldGarbage, with all kinds of containers.  The
  invariant `Marking` says that between collections no object older than the last one
  carries the mark value of the next, and that during one such an object carries it
  only if it is reachable.
* `CollectionsSpareTheLists`: GCSpec => []ListsSurvive, if programs link no cycles and `~ LateContexts`, for the
  specification the run checks (`MCCeeGC`), which is a part of Spec (`GCSpecIsSpec`).  It
  combines the following two with type correctness.
* `RootsKeepTheirOwn`: Spec => [](RootsSurvive /\ SurvivorsIntact /\ InDegreeCovers), if
  `Kinds` has lists only and `~ LateContexts`; lists stand for every container that marks all it refers to
  (`gc_map` shows why the condition is there); cycles are allowed.  That what is marked is
  closed is not an invariant, as an object is
  marked before what it refers to, and young objects may carry the mark without having
  been reached.  So the invariant `LInv` speaks of a set of objects that have been *reached*
  (`Reached`): each of their references leads into the set, or is still to come in one of
  the calls of trace that are running.  Without calls and roots to do, the set is
  closed, and `Reachable`, the least closed set, lies within it.  Between
  collections, what the program may use lies in a closed set of allocated objects
  (`Usable`), so that the mark phase never follows a pointer to a freed one either
  (`NoFault`).  The counts of this set cover the references within it (`Counted`); they
  need not cover all references of allocated objects, since garbage that a collection spares
  for being young may refer to an address that was freed and given out again.
* `MarkingStaysShallow`: Spec => []MarkDepthBounded with all kinds of containers, if programs link
  no cycles.  No object leads to itself (`Acyclic`), where references to freed blocks and to what
  was allocated there since count as well, and each call of trace is about something
  that the objects of the calls beneath lead to (`Descends`); so they are different objects.

`MuslTsearchProofs` is about any elements, any order of `cmp` on them (`TreeAssumption`) and trees
of any size.

* `TreesStayBalanced`: Spec => []Balanced.  Every stored height is exact, no node leans by
  more than one, and the walk visits every node.
* `TreesAreSets`: Spec => ImplementsSet.  An insertion or a deletion, with all the rotations it
  makes, is the step of `TreeSet` on the keys.

The invariant `Upright` says that nodes hang together and paths are bounded (`Formed`), that on
either side of a node all keys, not only that of the child, lie on that side in the order
(`Ordered`), and that every node is balanced (`BalancedAt`).  In between it does not hold, and the proof
is about what does: `Leaning` is a tree that is balanced everywhere but above one link, whose
subtree counts there as of the height it had before, one less or one more.  `SingleIs` and
`DoubleIs` say where a rotation takes each subtree, `SingleKeeps` and `DoubleKeeps` that the keys
beneath the link and their order stay, `SingleBalances` and `DoubleBalances` which height comes
out, and `BalanceIs` that one step of the loop takes a leaning tree to one that leans above
the next link, or to an upright one if the height has not changed: which is why the early stop is
right.  `RebalancedIs` goes up the path by the greatest length at which it would fail;
`FindIs` and `VictimIs` go down it by the least distance from the longest path.  The walk is
complete because a node with a child has height two at least (`SeenIs`), and because the order of the walk
is a strict total order, in which each node of a finite set has a place of its own (`PlacesIs`).

What a container does with a tree is known from these proofs as well: `TreeIs` says what finding,
inserting, deleting and walking return for any upright tree, and `ListingIs` that a walk lists each
key once.

`CeeSetProofs` is about any elements, any order of `cmp` on them, any number of sets and any bound
of the counts, with `Freedoms = {}`, that is programs that share elements among counting sets only
and empty a set before they delete it (part 5 has what happens otherwise).

* `SetsKeepMemorySafe`: Spec => []MemorySafe.  No call frees an element of a set, frees one
  twice or counts down one that was freed; every holder of an element has its count; and no size
  is below the number of elements.
* `SetsAreSets`: Spec => ImplementsAlgebra.  Each call is its step of `SetAlgebra` on the elements.

The invariant `Ind` adds to the property that every tree is upright, that the list of
`cee_set_values` has no element twice, and whose an element is: if an owning set holds it, no other set and
no list does (`Exclusive`).  A union counts the elements of both sets into two lists, adds those to a
set of its own and gives the lists back: `UnionPasses` follows the counts through all four, of which the
last two must not free what the first two have taken.  Walks and lists are recursive functions here;
what they compute follows from how one step goes on from the one before (`RecursionIs`), so
`AddAllIs` and `LetGoAllIs` are stated once for lists of any length.  The trees of a set are those of
`MuslTsearchProofs`, as the lemmas `Same...` show definition by definition.

`CeeMapProofs` is about any finite sets of keys and of maps, any values, any names and hence any
order of the keys (`MapAssumption`), and any bound of the counts.  It assumes
`"other" \notin MergeChoices`, that is merge functions that return one of the two values they are
given, which is also what the run has: a third value is stored without being counted (part 5).

* `MapsKeepMemorySafe`: Spec => []MemorySafe.  The count of a key is exactly the number of pairs and
  lists it is in, no value is counted too low, the tree and the list have the same keys, object
  for object, and nothing that was freed is counted, compared or deleted.
* `MapsAreOrderedMaps`: Spec => ImplementsOrderedMap.  Each call is its step of `OrderedMap` on the
  names and values that the list and the tree give together.

The invariant `Ind` says that every tree is upright and has the keys of its list, each once
(`Shape`), that the counts are those of all references (`Sound`), and that a map which does not
exist has neither (`Blank`).  A call changes one map, so the lemmas are about one (`Whole`): its counts
are right if `Rest` is what all the other maps refer to.  `EnteredIs`, `ReplacedIs` and `TakenIs` follow the
counts through the temporary pair, where adding under a name that is there counts the key up and down
again: the key may be freed by that, but only where no tree and no list has it.  A merge reads a walk of
the other map, or of the map itself; no pair of that walk is freed on the way, as the other map has
counted it, or as it is put over itself (`Backed` in `PutAllIs`).  `Mix` states, in sets, what a merge makes of the
pairs of both, and `UnlistedIs`, `UnpairedIs` and `DestroyedIs` that a deletion gives back all and no more.
That the set comprehensions of `References` count what `Rest` adds up is `CountOf`.

For the refinement a map is read as `Listed` reads it, from its set of pairs and its list; the tree
is in it only through `AbstractIs`.  `ListedMore`, `ListedOther` and `ListedLess` are the three things a call does
to that list, and `ListedMixed` is a merge: what the destination had stays in its place, and the
new keys at its end are those of the source that the destination has no name for, each
once (`MixedNews`), which is one of the orders that `OrderedMap` allows.

`TextProofs` is about the tokenizer, the parser and the strings.  In the tokenizer a text has any bytes
and any length.

* `TokensStayInBuffer`: TokSpec => []StaysInBuffer, if a NUL lies right behind the buffer
  (`Terminated`; part 5 has what happens otherwise).  The invariant `TokInv` is about
  one call after the other, and each call is a question about the text alone:
  every kind of token ends in the buffer (`WordStays`, `NumberStays`, `CommentStays`,
  `StringStays`), and a string with escapes is written to less than what is allocated
  for it (`UnescapedFits`).  The two walks over the bytes of a string are recursive
  functions, each of which looks ahead only; that such a function exists, and that it stays
  within the string, is proved by the least distance from the end at which it would not.

In the parser there is any set of keys (`Strings`) and there are any bounds of the stack
and of the number of tokens, with or without `force_eof`.

* `ParserIsSafe`: Spec => []ParserSafe.  The automaton works on a container of the kind
  its state is for, a parse that reports success has returned the
  outermost value, and the values made are a tree at every step: no value is in two
  places, or beneath itself.

What a container on the stack is matters only when it comes back to the top, so the
property is not inductive.  The invariant `PInv` says of every frame but the first that
its state is one that works on the container in the frame beneath (`StackFits`), that the
first frame holds the outermost value, that the automaton's state works on the
container on top (`StateFits`), that the result is value 1 when the automaton is done, and
that there is a key whenever one is needed.  `Takes` says what a container becomes
when a value is added, whether at its end or over an older value of the same key;
`TreeGrows` that the values stay a tree, as the new one gets one holder, which is
older; `StackPushed` and `StackPopped` that the stack keeps its shape.  Each action
is one of five ways to go on (`Failing`, `Returning`, `Going`, `Entering`, `Starting`).

`DatabaseProofs` is about the two modules over SQLite.  In `CeeDbm` there is any number of versions, any of
which has a migration script, and there are any finite sets of data and of rows that the
customize scripts insert (`DbmAssumption`).

* `InitialisationIsSound`: Spec => []ReadyMeansSound, with crashes between any two
  statements.  The invariant `DInv` has a part for each script that may be running: it
  is at its start, between its statements or at its end, and what tables and version
  the file has follows from where it is (`Creating`, `Filling`, `Migrating`), unless an
  earlier crash has left a script of this file unfinished.
* `BackupIsRestored`: Spec => []RestoresTheBackup, if "torn_backup" is not among
  `Freedoms`, and whatever else is.  The invariant `BInv` says that the dump of the
  saved version is what was saved, except while the shell writes it anew (`Kept`), and
  that while a new database is filled each saved row is in the file or in the
  rest of the script (`Restoring`).

In `CeeSqlite` there are any columns of the types INT, INT64 and TEXT, any JSON objects and lists of them, any
finite set of row ids, any of the calls, and ints and totals of any size.  `SqliteAssumption` asks
for a column "k", for keys that are not null, and that texts, numbers and null are different.

* `CallsReportTruly`: TableSpec => []ReportsTruly, if the table refuses a second row of a
  key, and programs take none of the freedoms but "others_delete" (`WellUsed`): values have the type of
  their column and fit into it, updates give no null to a not_null column, joins are not by
  an INT64 column, each call has data of its own, and neither the SELECT of an update nor the
  fetch of a further row fails (part 5 has what happens otherwise).  Any other
  statement may fail, and the other connection may insert and delete at any time.  That
  a joined element has the row of its own key rests on the field that the join writes being the
  one that the statement binds (`Joined`).  The
  invariant `SInv` says that keys are apart (`Keyed`), and of the call that runs that
  its error and its outcome go together (`Settled`) and that the rows got and the rows
  left are together those that matched, each once (`Collected`).
* `CallsImplementTable`: TableSpec => ImplementsTable, if besides nobody deletes rows
  between the statements of a call (`WellKept`).  A call of
  two statements is the one step of `KeyedTable` that its second statement takes, or
  its first when that is the last.  `TInv` says that what is bound is what the JSON
  object of the call gives (`Bound`), and that a row which the first statement found is still
  there (`Found`); that no row has come instead is what the refused insertion is for.
  `NewRowIsNew` and `SetRowIsPatch` say that the bound values make the row that
  null, not_null, no_update and defaults are meant to make.

Of the strings, `TextProofs` is about any characters, any texts, and any sizes of `CEE_BLOCK`, of the
header and of its padding (`StrAssumption`), and assumes `MemoryEnds` (part 2).

* `StringsStayInTheirBlocks`: StrSpec => []WritesInBlock.  Every block that a string has had
  claims what lies behind its header, its text ends in that, and the last NUL goes past it by
  less than the padding (`BlocksSound`).  The new size of a growth is larger than what
  is added to the text (`RoundsUp`), which is where `CEE_BLOCK` comes in.
* `StringsAreTexts`: StrSpec => KeepsTexts.  Each call is the one step of `TextBuffer` it stands
  for, and no call changes a block the string has left.

Both hold for one step each (`Fits`), so that one walk through the calls proves them.
The `str_replace_*` functions, which only return a new string, are folds over the text and
are left to the run.

Model-checked only: liveness (TLAPS does not do fairness and ENABLED), everything
about the other recursive definitions (grammar, probes of the hash table, documents as trees)
and about folds (the printer's two passes, the `str_replace_*` functions), the refinements
not named above, and the components not named above.

## 5. Divergences found, and how to see them

Two runs document a disagreement: `chain_hang` and `gc_map` (`findings` in
`PROJECT.json` quotes the lines).  Others are kept out of the passing runs by a
constant, a guard or a condition; the instance below shows them.  For modules that are
instantiated in an MC module, `Freedoms` is set there.

| where | what | instance |
|---|---|---|
| env.c:59 | two envs over one outer free it under each other: mk does not count, deletion un-counts | refs_kinds with `Kinds = {"box", "env"}`, `Policies = {"RC"}`, `Freedoms = {"share_env"}`: DeletionSafe |
| cee-common.c:70 | an object put under a counting and an owning container in turn loses a reference, as counting skips a retained object | refs_products with `Freedoms = {"mix"}`: InDegreeIsOwners |
| cee-common.c:72 | `in_degree` wraps | refs_kinds with `RcMod = 2`: CountsExact, DeletionSafe |
| closure.c:30 | a closure is never marked | gc with `Kinds = {"list", "closure"}`: RootsSurvive |
| list.c:45 | marking does not return on a cycle | gc with `Cycles = TRUE`: ListsSurvive (MarkDepthBounded) |
| state.c:101, map.c:68-71 | the list of keys of the contexts is swept by the first collection; the next cee_state_add_context or _remove_context uses it, in a program of lists too, where state.c:122 says that a context will survive | gc with `LateContexts = TRUE`: ListsSurvive |
| state.c:75 | garbage made since the last collection may pass for marked and is freed by the next one only; SweepFreesOldGarbage is stated accordingly | - |
| state.c:76 | sweep does not give back the counts of what it frees; InDegreeCovers asks for "at least" accordingly | - |
| map.c:136 | a third value that a merge function returns is stored uncounted | values with `MergeChoices = {"new", "old", "other"}`: MemorySafe |
| map.c:131 | re-adding the value that is there counts it once too often, so it is never freed; CountsCover asks for "at least" accordingly | - |
| map.c:320 | the merge of two maps says "keep the src intact", and puts its values into both | values, JsonValues with `Freedoms = {"shared"}` |
| map.c:332 | a clone has the keys in the order of the walk and not of insertion; OrderedMap allows any order there | - |
| map.c:202 | rename of a key whose value is NULL removes it and returns false | - |
| set.c:54 | deleting a set that is not empty dereferences NULL | set with `Freedoms = {"delete_full"}`: MemorySafe |
| set.c:136 | two owning sets of one element free it twice | set with `Freedoms = {"share"}`: MemorySafe |
| set.c:118 | adding an element that is there, the same object, counts it again, and `size` with it; test-func.c:188 takes the size for the number of values | set with INVARIANT SizeIsNumberOfValues |
| set.c:181 | remove leaves the count that add took, so that a removed element is never freed; `CountsCover` asks for "at least" accordingly | - |
| cee.h:418 | the header declares `cee_set_union_sets`, which does not exist; the code has `cee_set_union_set` | - |
| dict.c:77 | the failure path of mk frees a header that is on the chain | - |
| dict.c:92 | a second value for a key is listed and not found; the first one stays | Dictionary says so |
| parser.c:133, map.c:131 | of two members with one key the parser keeps the last value, in the place of the first; test-print.c:114 asks for the unchanged text of every parsed file, y_object_duplicated_key.json among them | json_text, PrintsWhatItParsed with `Tidy` in the place of `Singly(Tidy)` |
| snprint.c:190 | the printer cuts off below a nesting of 500, the parser allows 512 | json_text with `StackSize = 4`, `MaxDepth = 5`: PrintsWhatItParsed |
| snprint.c:15 | the indentation is a char | json_text with `TabsMod = 4`: PrintsWhatItParsed |
| parser.c:174, 236 | trailing commas are accepted, which test-parser.c:97 reads as an error | json_text with INVARIANT AcceptsTheGrammar |
| tokenizer.c:313 | a first surrogate at the end of a string is dropped; `Proper` says so | - |
| tokenizer.c:440 | within a token only a NUL ends the text; `cee_json_load_from_fileno` reads into a buffer without one (value.c:637) | json_text with `Terminator == {<<0>>, <<49, 0>>}`, which is what lies `Behind`: StaysInBuffer |
| value.c:752, 798 | the comment says that ":n" asks for a number and ":s" for a string; the code takes I64 only, and STRING only: a double or a u64 is no number, a strn no string (`LeftOut`) | json_text, SelectsPath without `Asks` |
| value.c:837 | a `*` in the name of a field is copied from a buffer nothing has written | json_text, SelectsPath without its condition on "named" steps |
| value.c:889 | of an escaped control character the last two digits are overwritten | MCJsonText, `EscapeTexts` over 97 and 1: ReadsWhatIsMeant |
| value.c:357 | cee_json_object_convert_to_i64 tests the type of the object in the place of the value's, and never converts | JsonValues models it so |
| value.c:221 | merging documents that share parts may not return, or changes the other | values, JsonValues with `Freedoms = {"shared"}`: ValuesSound, CallsHaveTheirEffect |
| value.c:225, 244-251 | the comment says that of two values of different types the source overwrites the destination; of the values of one key it does, of two documents of different types `cee_json_merge` returns false and leaves the destination, which the merge tool (cee_json_merge.c:39) does not look at | `Unite` of MCValues leaves it |
| value.c:928 | a text that does not fit in the block of the one it replaces is written to a new block, which is dropped: the value keeps the old one | values, JsonValues with `Freedoms = {"long"}`: CallsHaveTheirEffect |
| value.c:57, cee-json.h:91 | `cee_json_listify` of an object crashes, as it looks for the state of a text, where the header promises [object]; other calls on a value of the wrong type end the program | values, JsonValues with `Freedoms = {"types"}`: ValuesSound |
| cee_json_merge.c:50 | a write that stops short is not reported, and the file before is gone | values, JsonFiles with `Freedoms = {"short"}`: ReturnsUnion |
| str.c:101 | cee_str_mkv uses its va_list twice; `Reread` | - |
| str.c:189 | a string that fills its capacity has its NUL behind it, in the padding of the header (`Slack`) | - |
| str.c:323, 375 | the size of a replacement's result leaves no room for the NUL in some cases, and the unit of `str_replace_all_ext` loses the remainder | json_text, ReplacementFits without its condition |
| str.c:378 | `str_replace_all_ext` divides by zero when every new part is empty | json_text, ReplacementFits without the condition of "signal" |
| cee.h:225 | the trims keep one white character where the header says that they remove all | TextBuffer says so |
| cee-sqlite3.c:247 | another connection that deletes between SELECT and UPDATE: the update is of no row and reported as done | database with `TableFreedoms = {"others_delete"}`: ImplementsTable |
| cee-sqlite3.c:430 | a fetch that fails after the first row is taken for one more row, again and again | database with `TableFreedoms = {"step_fails"}`: ReportsTruly (no end to its states) |
| cee-sqlite3.c:247 | a SELECT that fails is taken for "no such row" | database with `TableFreedoms = {"select_fails"}`: ReportsTruly; with `Unique = FALSE` also ImplementsTable |
| cee-sqlite3.c:631 | values bound for one call stay bound for the next | database with `TableFreedoms = {"reuse"}`: ImplementsTable |
| cee-sqlite3.c:652 | a value of the wrong type is reported, and the statement runs all the same, with the keys that came before it in the order of the map's tree | database with `TableFreedoms = {"mistyped"}`: ReportsTruly |
| cee-sqlite3.c:644, value.c:174 | a number for an INT column is cast to int: one that fits none is stored, and looked up, as another number | database with `TableFreedoms = {"wide"}`: ImplementsTable |
| cee-sqlite3.c:628 | not_null "will only affect insert" (cee-sqlite3.h:61-75), but a null for such a column is ignored in an update as well: the column stays, or is set to its default | database with `TableFreedoms = {"null_update"}`: ImplementsTable |
| join.c:35, cee-sqlite3.c:190 | a join writes a number to `i` and binds an INT64 column from `i64`, which no element changes: every element gets the row of the key that was bound before | database with an int64 "k" in `TableInfos` and `TableFreedoms = {"join_int64"}`: ReportsTruly |
| join.c:22-23 | where the data has no value and info has a default, a join writes over that default, for all later uses of the info; the model has joins by data | - |
| cee-sqlite3.c:369-370 | an update reports as updated_rows all that its connection has changed since it was opened; `CountsOwnRows` is about the first change of a connection accordingly | database, ReportsTruly without `call.first` |
| cee-sqlite3.c:341 | cee_sqlite3_update looks for SQLITE_OK, which the statements, that end with ROW or DONE, do not give: it adds no error of its own | - |
| cee-sqlite3.c:411-413, 801 | cee_sqlite3_select_op with a status ends in a segfault: the status was made an object, and select_iter takes an array only | database with "select_op" among `Ops`: CallsReturn |
| cee-sqlite3.c:1176-1181 | the errors of an element are printed and dropped, the insertion of an array reports none; `MarksErrors` names the exception | database, ReportsTruly without it |
| cee_dbm.c:258 | a crash within a script leaves a file that the next start takes for finished, or a script that fails ever after | database, ReadyMeansSound without `broken` |
| cee_dbm.c:421 | the shell empties the dump before it writes the new one, and the result is not looked at | database with `Freedoms = {"torn_backup"}`: RestoresTheBackup |

## 6. Not modelled, and the plan

Components without a model, with the reason, are in `PROJECT.json` (`components`,
status `not_modelled`).  Out of scope for good: the amalgamations in `release/` (the
same code once more), the text of SQL statements, the digits of printed floating
point numbers, wording of messages, build files, and `musl-lsearch.c`/`musl-insque.c`,
which nothing calls; and the conversions and comparisons of `boxed.c`, each a cast or a few comparisons, of
which the library stores the comparisons (cee.h:99) and calls none.

What is left, in the order of importance:

1. Compositions: a map in the collector with its real list of keys and tree; deletion
   while what a collection left behind is still counted; JSON documents in the
   collector.
2. Proofs: ReadsWhatIsMeant of the tokenizer for any string.  BufferExact of the
   printer compares two passes that fold over the same document, and stays with TLC.
3. Two processes on one database file that both initialise it.
