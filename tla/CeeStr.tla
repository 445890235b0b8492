-------------------------------- MODULE CeeStr --------------------------------
(***************************************************************************)
(* cee_str: a text with a NUL behind it, in a block that knows how much it *)
(* holds.  A call that needs more returns a larger block with a copy; the  *)
(* block before stays as it is (CEE_RESIZE_WITH_MALLOC).                   *)
(*                                                                         *)
(* The functions that replace parts of a C string, str_replace_*, compute  *)
(* the size of their result first and write it then.                       *)
(***************************************************************************)
EXTENDS Naturals, SequencesExt

CONSTANTS
    Chars, Spaces,   \* the characters, and those of them that are white space
    Block,           \* CEE_BLOCK, 64
    Header, Slack,   \* the size of the header; how much of that lies behind
                     \* the offset of the text: 8 bytes
    Inputs,          \* the texts the calls on strings are given
    Sources,         \* the texts the str_replace functions are given
    Garbage,         \* what fresh memory may hold before its first NUL
    Reread,          \* what a format may print whose arguments were used up
    Patterns,        \* the lists of pairs <<old, new>> to replace, old not empty
    MaxLen,          \* bound on the length of a string
    MaxBlocks        \* bound on its blocks

(* What is assumed of the constants. *)
StrAssumption ==
    /\ Block \in Nat \ {0} /\ Slack \in Nat \ {0} /\ Header \in Nat \ 0..Slack
    /\ MaxLen \in Nat /\ MaxBlocks \in Nat /\ Spaces \subseteq Chars
    /\ Inputs \cup Garbage \cup Reread \subseteq Seq(Chars)

VARIABLES
    blocks,   \* the blocks of one string, in the order they were allocated
    made      \* what the str_replace function called last returned, if it
              \* is still there, or that it was killed by a signal

string == <<blocks, made>>

NUL == "NUL"
Larger(a, b) == IF a > b THEN a ELSE b

(* The whole size of a new block, and of one that grows: _CEE_NEWSIZE.     *)
RoundUp(s) == (s \div Block + 1) * Block
NewSize(b, extra) == 2 * Larger(b.size, extra)

-----------------------------------------------------------------------------
(* A block: its text, its whole size, the capacity it claims, and how many *)
(* bytes were written to it.                                               *)
Fresh(t, bytes, written) ==
    LET size == RoundUp(bytes + Header)
    IN  [text |-> t, size |-> size, capacity |-> size - Header, used |-> written]

(* What the program has to see to: a text that fresh memory goes on with,  *)
(* and what is printed of arguments that were used up, end in their block. *)
Room(bytes) == RoundUp(bytes + Header) - Header
MemoryEnds == \A t \in Inputs : \A u \in {t \o g : g \in Garbage} \cup Reread : Len(u) <= Room(Len(t) + 1)

(* t and a NUL written at an offset. *)
Put(b, at, t) == [b EXCEPT !.text = SubSeq(@, 1, at) \o t, !.used = Larger(@, at + Len(t) + 1)]

Resized(b, extra) == [b EXCEPT !.size = NewSize(b, extra), !.capacity = NewSize(b, extra) - Header]

(* Faulty: the block before is freed, and loses its text. *)
MovedFreeing(b) == blocks' = Append([blocks EXCEPT ![Len(blocks)].text = <<>>], b)

InPlace(b) == blocks' = [blocks EXCEPT ![Len(blocks)] = b]
Moved(b) == blocks' = Append(blocks, b)

-----------------------------------------------------------------------------
This == Last(blocks)
Made == blocks # <<>>

(* cee_str_mk measures the text and prints it from one va_list: a C        *)
(* library that used up the arguments the first time prints another text.  *)
Mk(t) == /\ ~ Made
         /\ \E u \in {t} \cup Reread : blocks' = <<Fresh(u, Len(t) + 1, Len(u) + 1)>>

(* cee_str_mk_e with a format. *)
MkFormat(t) == ~ Made /\ blocks' = <<Fresh(t, Len(t) + 1, Len(t) + 1)>>

(* cee_str_mk_e without a format: room for n bytes. *)
MkRoom(n) == ~ Made /\ blocks' = <<Fresh(<<>>, n, 1)>>

(* cee_str_strn copies n bytes and no NUL. *)
Strn(t) == /\ ~ Made
           /\ \E g \in Garbage : blocks' = <<Fresh(t \o g, Len(t) + 1, Len(t))>>

(* Faulty: a text that fills its block is taken to have room. *)
AddAtCapacity(c) ==
    LET n == Len(This.text)
        t == IF c = NUL THEN <<>> ELSE <<c>>
    IN  IF n <= This.capacity
        THEN InPlace([Put(This, n, t) EXCEPT !.used = Larger(@, n + 2)])
        ELSE Moved([Put(Resized(This, Block), This.capacity, t)
                       EXCEPT !.used = Larger(@, This.capacity + 2)])

(* cee_str_add, of a NUL too. *)
Add(c) ==
    LET n == Len(This.text)
        t == IF c = NUL THEN <<>> ELSE <<c>>
    IN  IF n < This.capacity
        THEN InPlace([Put(This, n, t) EXCEPT !.used = Larger(@, n + 2)])
        ELSE Moved([Put(Resized(This, Block), This.capacity, t)
                       EXCEPT !.used = Larger(@, This.capacity + 2)])

(* Faulty: the size of the addition is taken for where it goes. *)
CatfAtSize(t) ==
    LET n == Len(This.text)
        s == Len(t) + 1
    IN  IF n + s < This.capacity THEN InPlace(Put(This, n, t))
        ELSE Moved(Put(Resized(This, s), IF s < n THEN s ELSE n, t))

Catf(t) ==
    LET n == Len(This.text)
        s == Len(t) + 1
    IN  IF n + s < This.capacity THEN InPlace(Put(This, n, t))
        ELSE Moved(Put(Resized(This, s), n, t))

(* cee_str_replace *)
ReplaceBy(t) ==
    LET s == Len(t) + 1
    IN  IF s < This.capacity THEN InPlace(Put(This, 0, t))
        ELSE Moved(Put(Resized(This, s), 0, t))

(* cee_str_rtrim leaves the first character alone. *)
RTrimmed(t) == SubSeq(t, 1, Max({0} \cup {i \in DOMAIN t : i = 1 \/ t[i] \notin Spaces}))
Rtrim == InPlace([This EXCEPT !.text = RTrimmed(@)])

(* cee_str_ltrim starts at the last of the leading white characters. *)
Leading(t) == {i \in DOMAIN t : \A j \in 1..i : t[j] \in Spaces}
LTrimmed(t) == SubSeq(t, Max({1} \cup Leading(t)), Len(t))
Ltrim == InPlace([This EXCEPT !.text = LTrimmed(@)])

(* cee_del of the state, and with it of every block. *)
Delete == Made /\ blocks' = <<>>

-----------------------------------------------------------------------------
(* What stands at position i of t.                                         *)
Stands(old, t, i) ==
    i + Len(old) - 1 <= Len(t) /\ SubSeq(t, i, i + Len(old) - 1) = old

(* The text that comes of t: at every position the first of the pairs      *)
(* whose old part stands there, or else the character itself.  Faulty: the *)
(* last of the pairs.                                                      *)
ScannedFromLast(t, pairs) ==
    LET at[i \in 1..Len(t) + 1] ==
            LET found == {x \in DOMAIN pairs : Stands(pairs[x][1], t, i)}
                p == pairs[Max(found)]
            IN  IF i > Len(t) THEN <<>>
                ELSE IF found = {} THEN <<t[i]>> \o at[i + 1]
                ELSE p[2] \o at[i + Len(p[1])]
    IN  at[1]
Scanned(t, pairs) ==
    LET at[i \in 1..Len(t) + 1] ==
            LET found == {x \in DOMAIN pairs : Stands(pairs[x][1], t, i)}
                p == pairs[Min(found)]
            IN  IF i > Len(t) THEN <<>>
                ELSE IF found = {} THEN <<t[i]>> \o at[i + 1]
                ELSE p[2] \o at[i + Len(p[1])]
    IN  at[1]

Returned(by, t, pairs, result, alloc) ==
    /\ made' = <<[by |-> by, from |-> t, pairs |-> pairs, text |-> result,
                  alloc |-> alloc, written |-> Len(result) + 1]>>
    /\ UNCHANGED blocks

(* str_replace_at_offset *)
ReplaceAtOffset(t, offset, len, new) ==
    /\ offset + len <= Len(t)
    /\ Returned("at", t, <<<<SubSeq(t, offset + 1, offset + len), new>>>>,
                SubSeq(t, 1, offset) \o new \o SubSeq(t, offset + len + 1, Len(t)),
                Len(t) - len + Len(new) + 1)

(* Faulty: the size is that of the text when nothing is found. *)
AllSizeOnce(t, old, new) == Len(t) * (Len(new) \div Len(old))

(* str_replace_all: the division is one of integers. *)
AllSize(t, old, new) == Len(t) * (Len(new) \div Len(old) + 1)
ReplaceEach(t, pair) ==
    Returned("all", t, <<pair>>, Scanned(t, <<pair>>), AllSize(t, pair[1], pair[2]))

(* str_replace_all_ext *)
MinOld(pairs) == Min({Len(pairs[x][1]) : x \in DOMAIN pairs})
MaxNew(pairs) == Max({Len(pairs[x][2]) : x \in DOMAIN pairs})
Unit(pairs) == IF MaxNew(pairs) > MinOld(pairs) THEN MinOld(pairs) ELSE MaxNew(pairs)
ExtSize(t, pairs) == (Len(t) \div Unit(pairs)) * Larger(MaxNew(pairs), MinOld(pairs)) + 1
ReplaceExt(t, pairs) ==
    /\ Unit(pairs) > 0
    /\ Returned("ext", t, pairs, Scanned(t, pairs), ExtSize(t, pairs))

(* The unit is the divisor: zero, if every new part is empty. *)
ReplaceExtCrash(t, pairs) ==
    Unit(pairs) = 0 /\ Returned("signal", t, pairs, <<>>, 0)

(* The program frees the result; after a signal the model starts over. *)
Release == made # <<>> /\ made' = <<>> /\ UNCHANGED blocks

-----------------------------------------------------------------------------
StrInit == blocks = <<>> /\ made = <<>>

Change(t) == Catf(t) \/ ReplaceBy(t)

Replacing(t) ==
    \/ \E offset, len \in 0..Len(t), new \in Sources : ReplaceAtOffset(t, offset, len, new)
    \/ \E pairs \in Patterns :
          ReplaceEach(t, pairs[1]) \/ ReplaceExt(t, pairs) \/ ReplaceExtCrash(t, pairs)

StrNext ==
    \/ /\ \/ \E t \in Inputs : Mk(t) \/ MkFormat(t) \/ Strn(t) \/ MkRoom(Len(t))
          \/ /\ Made
             /\ \/ \E c \in Chars \cup {NUL} : Add(c)
                \/ \E t \in Inputs : Change(t)
                \/ Rtrim \/ Ltrim \/ Delete
       /\ made = <<>> /\ UNCHANGED made
       /\ blocks' # <<>> => Len(Last(blocks').text) <= MaxLen /\ Len(blocks') <= MaxBlocks
    \/ ~ Made /\ made = <<>> /\ \E t \in Sources : Replacing(t)
    \/ Release

StrSpec == StrInit /\ [][StrNext]_string

-----------------------------------------------------------------------------
(* Safety: no call writes behind its block.  The capacity is passed by the *)
(* NUL of cee_str_add, which the padding of the header takes (str.c:189).  *)
BlockOK(b) == /\ b.text \in Seq(Chars) /\ {b.size, b.capacity, b.used} \subseteq Nat
              /\ b.used <= b.size - Header + Slack
WritesInBlock == \A i \in DOMAIN blocks : BlockOK(blocks[i])

(* Safety, of steps: who has a pointer that a call replaced by another     *)
(* reads the text there that it had before the call.                       *)
OldTextKept ==
    [][\A i \in DOMAIN blocks :
          blocks' # <<>> /\ (i < Len(blocks) \/ Len(blocks') # Len(blocks))
              => i \in DOMAIN blocks' /\ blocks'[i] = blocks[i]]_blocks

Occurs(old, t) == \E i \in DOMAIN t : Stands(old, t, i)

(* The results of the str_replace functions fit in what they allocate:     *)
(* those of str_replace_all if the text is not empty and nothing shorter   *)
(* is put in or something is found (str.c:323), those of                   *)
(* str_replace_all_ext if its unit divides the length (str.c:375), which   *)
(* divides by zero if, and only if, every new part is empty (str.c:378).   *)
ReplacementFits ==
    \A i \in DOMAIN made :
        LET m == made[i]
            old == m.pairs[1][1]
            new == m.pairs[1][2]
            fits == CASE m.by = "at" -> TRUE
                      [] m.by = "all" -> /\ m.from # <<>>
                                         /\ Len(new) >= Len(old) \/ Occurs(old, m.from)
                      [] m.by = "ext" -> Len(m.from) % Unit(m.pairs) = 0
                      [] m.by = "signal" -> \E x \in DOMAIN m.pairs : m.pairs[x][2] # <<>>
        IN  fits => m.written <= m.alloc

(* The text is divided from its start into old parts, each of the first    *)
(* pair that stands there, and characters where none does; the       *)
(* result has the new parts in the places of the old ones.                 *)
ReplacesLeftmost ==
    \A i \in DOMAIN made :
        LET m == made[i]
            AtStart(s) == {x \in DOMAIN m.pairs : Stands(m.pairs[x][1], m.from, s)}
            Piece(s) == IF AtStart(s) = {} THEN 1 ELSE Len(m.pairs[Min(AtStart(s))][1])
            Image(s) == IF AtStart(s) = {} THEN <<m.from[s]>> ELSE m.pairs[Min(AtStart(s))][2]
            After(s, S) == Min({Len(m.from) + 1} \cup {x \in S : x > s})
        IN  m.by \notin {"at", "signal"} =>
              \E S \in SUBSET DOMAIN m.from :
                 /\ m.from # <<>> => 1 \in S
                 /\ \A s \in S : After(s, S) = s + Piece(s)
                 /\ m.text = FoldLeft(LAMBDA r, s : r \o Image(s), <<>>, SetToSortSeq(S, <))

(* Safety: what is replaced is replaced where it should be, and fits.      *)
ReplacementsRight == ReplacementFits /\ ReplacesLeftmost

(* Refinement: whatever blocks it lies in, the text is one text, and the   *)
(* blocks before keep theirs. *)
Content == IF Made THEN This.text ELSE <<>>
Buffer == INSTANCE TextBuffer WITH text <- Content
KeepsTexts == Buffer!Spec /\ OldTextKept
=============================================================================
