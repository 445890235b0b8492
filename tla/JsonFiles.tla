------------------------------ MODULE JsonFiles ------------------------------
(***************************************************************************)
(* JSON documents in files: loading and saving one, and the tool that      *)
(* merges many into one.  The file that is written is emptied when it is   *)
(* opened, before anything is read or printed, and what went wrong while   *)
(* writing is lost on the way up.                                          *)
(*                                                                         *)
(* Freedoms: "short", a write may stop short (disk full).                  *)
(***************************************************************************)
EXTENDS Integers, SequencesExt

CONSTANTS
    Files,
    Documents,    \* what is saved, and what the files hold at first: documents
                  \* with their type as t
    Broken,       \* the content of a file that does not parse, or is empty
    Absent,       \* there is no such file, or none that can be read
    Unite(_, _),  \* cee_json_merge
    Listing(_, _),  \* an object with the list of some files under "originals"
    Inputs,       \* the sequences of files that are merged
    MaxRuns,      \* bound on the number of calls
    Freedoms

VARIABLES
    disk,         \* the content of each file
    proc,         \* the call that is running
    handles,      \* the number of open files
    states,       \* the number of cee_states that nobody will delete
    before,       \* history: the disk when the call began
    failed,       \* history: a call has failed that had opened a file
    runs          \* history: the number of calls

vars == <<disk, proc, handles, states, before, failed, runs>>

Idle == [pc |-> "idle"]
Parses(content) == content \notin {Broken, Absent}

Init == /\ disk \in [Files -> Documents \cup {Broken, Absent}]
        /\ proc = Idle /\ handles = 0 /\ states = 0
        /\ before = disk /\ failed = FALSE /\ runs = 0

At(pc) == proc.pc = pc
Begin(p) == /\ At("idle") /\ runs < MaxRuns /\ runs' = runs + 1
            /\ proc' = p /\ before' = disk
            /\ UNCHANGED <<disk, handles, states, failed>>
Go(p) == proc' = p /\ UNCHANGED <<before, runs>>
Same == UNCHANGED <<disk, handles, states, failed>>

-----------------------------------------------------------------------------
(* cee_json_load_from_file_path.  A file that is not there ends the        *)
(* program, one that does not parse gives NULL.                            *)
Load(f) == Begin([pc |-> "load", file |-> f])
EndLoad == /\ At("load") /\ Same
           /\ Go(IF disk[proc.file] = Absent THEN [pc |-> "segfault"] ELSE Idle)

(* cee_json_save_file_path: the file is emptied, then written; the program *)
(* ends if it cannot be opened.                                            *)
Save(f, doc) == Begin([pc |-> "empty", file |-> f, doc |-> doc])
EmptyFile == /\ At("empty") /\ disk' = [disk EXCEPT ![proc.file] = Broken]
             /\ Go([proc EXCEPT !.pc = "write"]) /\ UNCHANGED <<handles, states, failed>>
CannotEmpty == At("empty") /\ Go([pc |-> "segfault"]) /\ Same

(* cee_json_save_fileno *)
Written(f, doc, short) == [disk EXCEPT ![f] = IF short THEN Broken ELSE doc]
Short == IF "short" \in Freedoms THEN BOOLEAN ELSE {FALSE}
EndSave(short) == /\ At("write") /\ disk' = Written(proc.file, proc.doc, short)
                  /\ failed' = (failed \/ short)
                  /\ Go(Idle) /\ UNCHANGED <<handles, states>>

-----------------------------------------------------------------------------
(* cee_json_merge_all of a sequence of files into another file. *)
MergeAll(inputs, f) == Begin([pc |-> "output", inputs |-> inputs, file |-> f, i |-> 0,
                              doc |-> Broken])

OpenOutput == /\ At("output")
              /\ disk' = [disk EXCEPT ![proc.file] = Broken]
              /\ handles' = handles + 1 /\ Go([proc EXCEPT !.pc = "open"])
              /\ UNCHANGED <<states, failed>>

(* There is nothing to close then. *)
CannotOutput == At("output") /\ Go(Idle) /\ Same

More == proc.i < Len(proc.inputs)
Input == disk[proc.inputs[proc.i + 1]]

(* The function returns 1 at once: it closes and deletes nothing of what   *)
(* it has opened and made; its caller closes the output.                   *)
FailMerge == handles' = handles - 1 /\ failed' = TRUE /\ Go(Idle)

(* The state is made when the first file is open. *)
OpenInput == /\ At("open") /\ More
             /\ IF Input = Absent THEN FailMerge /\ UNCHANGED states
                ELSE /\ handles' = handles + 1
                     /\ states' = IF proc.i = 0 THEN states + 1 ELSE states
                     /\ Go([proc EXCEPT !.pc = "read"]) /\ UNCHANGED failed
             /\ UNCHANGED disk

(* What becomes of an input that was parsed. *)
Taken(doc) == Go([proc EXCEPT !.pc = "open", !.i = @ + 1, !.doc = doc]) /\ UNCHANGED failed
Joined == IF proc.i = 0 THEN Input ELSE Unite(proc.doc, Input)

(* Faulty: the file stays open. *)
ReadStaysOpen == /\ At("read")
                 /\ IF Parses(Input) THEN Taken(Joined) /\ UNCHANGED handles ELSE FailMerge
                 /\ UNCHANGED <<disk, states>>

(* Faulty: what has been merged so far goes into the new document. *)
ReadBackwards == /\ At("read")
                 /\ IF Parses(Input)
                    THEN /\ Taken(IF proc.i = 0 THEN Input ELSE Unite(Input, proc.doc))
                         /\ handles' = handles - 1
                    ELSE FailMerge
                 /\ UNCHANGED <<disk, states>>

ReadInput == /\ At("read")
             /\ IF Parses(Input) THEN Taken(Joined) /\ handles' = handles - 1 ELSE FailMerge
             /\ UNCHANGED <<disk, states>>

(* The first document has to be an object.  Whether the write succeeds is  *)
(* not looked at.                                                          *)
EndMerge(short) ==
    /\ At("open") /\ ~ More /\ UNCHANGED failed
    /\ IF proc.doc.t # "object" THEN Go([pc |-> "segfault"]) /\ UNCHANGED <<disk, handles, states>>
       ELSE /\ disk' = Written(proc.file, Listing(proc.doc, proc.inputs), short)
            /\ handles' = handles - 1 /\ states' = states - 1 /\ Go(Idle)

Next == \/ \E f \in Files : Load(f) \/ \E doc \in Documents : Save(f, doc)
        \/ \E f \in Files, inputs \in Inputs : MergeAll(inputs, f)
        \/ EndLoad \/ EmptyFile \/ CannotEmpty \/ OpenOutput \/ CannotOutput \/ OpenInput \/ ReadInput
        \/ \E short \in Short : EndSave(short) \/ EndMerge(short)

Spec == Init /\ [][Next]_vars

-----------------------------------------------------------------------------
(* Action: when the tool says that it has merged some files, the output is *)
(* what merging the documents they held in their order gives, and lists    *)
(* the files; it never says so when one of them was missing or broken, or  *)
(* was the output, and leaves no file open and no state undeleted then.    *)
AllMerged ==
    LET Add(doc, f) == Unite(doc, before[f])
    IN  /\ handles' = 0 /\ states' = 0
        /\ \A i \in DOMAIN proc.inputs : Parses(before[proc.inputs[i]]) /\ proc.inputs[i] # proc.file
        /\ disk'[proc.file] = Listing(FoldLeft(Add, before[Head(proc.inputs)], Tail(proc.inputs)),
                                      proc.inputs)
ReturnsUnion == [][(At("open") /\ proc' = Idle /\ ~ failed') => AllMerged]_vars
=============================================================================
