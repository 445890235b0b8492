----------------------------- MODULE JsonPrinter -----------------------------
(***************************************************************************)
(* cee_json_asprint: print a tree of cee_json values twice with            *)
(* cee_json_snprint, once to count the bytes and once into a buffer.  The  *)
(* tree is walked with a stack of its own, whose capacity ends the loop,   *)
(* too.  A string or another scalar is one byte of output; how strings are *)
(* escaped is left out.                                                    *)
(***************************************************************************)
EXTENDS Integers, SequencesExt

CONSTANTS
    StackSize,   \* the capacity of the stack: 500 in the code
    TabsMod,     \* the number of values of a char, which holds the indentation
    Formats      \* the formats in use, of "compact" and "pretty"

VARIABLES
    nodes,   \* the values, see JsonParser; the printer only reads them
    root,    \* the value to print
    fmt,     \* the format
    pass,    \* "idle", "count", "write" or "done"
    stack,   \* the values being printed: the node, the element that comes next,
             \* its indentation and whether it has more siblings
    pen,     \* the offset, and the bytes written in the buffer
    size     \* the size of the buffer, as counted

Leaf(j) == nodes[j].tag \notin {"[", "{"}
Closing(j) == IF nodes[j].tag = "[" THEN "]" ELSE "}"

(* The value of n in a signed char. *)
Char(n) == ((n + (TabsMod \div 2)) % TabsMod) - (TabsMod \div 2)

Frame(j, tabs, more) == [j |-> j, next |-> 0, tabs |-> Char(tabs), more |-> more]

-----------------------------------------------------------------------------
(* Writing a byte; in the first pass there is no buffer. *)
Put(p, byte) ==
    [off |-> p.off + 1,
     buf |-> IF pass = "write" THEN (p.off :> byte) @@ p.buf ELSE p.buf]

PutAll(p, bytes) == FoldLeft(Put, p, bytes)

(* Faulty: the padding is not counted. *)
PadUncounted(p, tabs) ==
    IF fmt = "compact" \/ pass = "count" THEN p
    ELSE [PutAll(p, [i \in 1..tabs |-> "tab"]) EXCEPT !.off = p.off + tabs]

(* pad: a negative number of tabs writes nothing and moves the offset. *)
Pad(p, tabs) ==
    IF fmt = "compact" THEN p
    ELSE [PutAll(p, [i \in 1..tabs |-> "tab"]) EXCEPT !.off = p.off + tabs]

(* delimiter: an opening bracket overwrites what pad wrote before it. *)
Delimiter(p, tabs, c) ==
    CASE fmt = "compact" -> Put(p, c)
      [] fmt = "pretty" /\ c \in {"[", "{"} -> PutAll([Pad(p, tabs) EXCEPT !.off = p.off], <<c, "nl">>)
      [] fmt = "pretty" /\ c \in {"]", "}"} -> PutAll(Pad(Put(p, "nl"), tabs), <<c, "nl">>)
      [] fmt = "pretty" /\ c = ":" -> PutAll(p, <<"space", ":", "tab">>)
      [] fmt = "pretty" /\ c = "," -> PutAll(p, <<",", "nl">>)

(* What follows a value that is complete. *)
Separated(p, f) == IF f.more THEN Delimiter(p, f.tabs, ",") ELSE p

-----------------------------------------------------------------------------
Start(q) == /\ pass' = q
            /\ stack' = <<Frame(root, 0, FALSE)>>
            /\ pen' = [off |-> 0, buf |-> << >>]

Init == /\ fmt \in Formats /\ pass = "idle" /\ stack = <<>>
        /\ pen = [off |-> 0, buf |-> << >>] /\ size = 0

AsPrint == pass = "idle" /\ Start("count") /\ UNCHANGED size

Printing == pass \in {"count", "write"} /\ stack # <<>> /\ Len(stack) < StackSize
Top == Last(stack)
Elems == nodes[Top.j].elems

PrintLeaf ==
    /\ Printing /\ Leaf(Top.j)
    /\ pen' = Separated(Put(Pad(pen, Top.tabs), nodes[Top.j].tag), Top)
    /\ stack' = Front(stack)
    /\ UNCHANGED <<pass, size>>

(* The bracket comes before the first element, or before the closing one. *)
Opened == IF Top.next = 0 THEN Delimiter(pen, Top.tabs, nodes[Top.j].tag) ELSE pen

(* Faulty: the last element is followed by a separator as well. *)
PrintElementSeparated ==
    /\ Printing /\ ~ Leaf(Top.j) /\ Top.next < Len(Elems)
    /\ pen' = IF nodes[Top.j].tag = "[" THEN Opened
              ELSE Delimiter(Put(Pad(Opened, Top.tabs), nodes[Top.j].keys[Top.next + 1]), Top.tabs, ":")
    /\ stack' = Append([stack EXCEPT ![Len(stack)].next = @ + 1],
                       Frame(Elems[Top.next + 1], Top.tabs + 1, TRUE))
    /\ UNCHANGED <<pass, size>>

PrintElement ==
    /\ Printing /\ ~ Leaf(Top.j) /\ Top.next < Len(Elems)
    /\ pen' = IF nodes[Top.j].tag = "[" THEN Opened
              ELSE Delimiter(Put(Pad(Opened, Top.tabs), nodes[Top.j].keys[Top.next + 1]), Top.tabs, ":")
    /\ stack' = Append([stack EXCEPT ![Len(stack)].next = @ + 1],
                       Frame(Elems[Top.next + 1], Top.tabs + 1, Top.next + 1 < Len(Elems)))
    /\ UNCHANGED <<pass, size>>

PrintClose ==
    /\ Printing /\ ~ Leaf(Top.j) /\ Top.next >= Len(Elems)
    /\ pen' = Separated(Delimiter(Opened, Top.tabs, Closing(Top.j)), Top)
    /\ stack' = Front(stack)
    /\ UNCHANGED <<pass, size>>

(* Behind the loop: nothing left to print, or a full stack. *)
CountEnds == /\ pass = "count" /\ ~ Printing
             /\ Start("write")
             /\ size' = pen.off

(* The terminating NUL. *)
WriteEnds == /\ pass = "write" /\ ~ Printing
             /\ pass' = "done"
             /\ pen' = [pen EXCEPT !.buf = (pen.off :> "nul") @@ @]
             /\ UNCHANGED <<stack, size>>

Next == /\ AsPrint \/ PrintLeaf \/ PrintElement \/ PrintClose \/ CountEnds \/ WriteEnds
        /\ UNCHANGED <<nodes, root, fmt>>

-----------------------------------------------------------------------------
(* The text in the buffer, without the white space of the pretty format. *)
Printed == SelectSeq([i \in 1..size |-> pen.buf[i - 1]],
                     LAMBDA c : c \notin {"nl", "tab", "space"})

(* Safety: the second pass writes the bytes that the first one counted,    *)
(* and the NUL behind them: none is left out and none lies elsewhere       *)
(* (snprint.c:181, "compute how many bytes are needed").                   *)
BufferExact == pass = "done" => DOMAIN pen.buf = 0..size /\ pen.buf[size] = "nul"
=============================================================================
