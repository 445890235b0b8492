------------------------------- MODULE CeeDbm -------------------------------
(***************************************************************************)
(* The database manager: it makes a database file from a create script,    *)
(* fills it from the dump of an earlier one, applies the migration script  *)
(* of the version it finds, and dumps a database for the next time.        *)
(* Scripts run outside of a transaction, statement after statement; the    *)
(* process may die between any two, and what it finds when it runs again   *)
(* is what the statements before have left.                                *)
(*                                                                         *)
(* Freedoms: "crash", the process dies during an initialisation;           *)
(* "torn_backup", it dies during a backup, or the dump fails.              *)
(***************************************************************************)
EXTENDS Integers, FiniteSets, SequencesExt

CONSTANTS
    Versions,     \* of the schema: 1 and so on
    Migrations,   \* those that have a migration script
    Data,         \* what the program stores
    Custom,       \* the rows of the customize scripts
    Freedoms

ASSUME DbmAssumption ==
    /\ IsFiniteSet(Versions) /\ Versions = 1..Cardinality(Versions)
    /\ Migrations \subseteq 1..(Cardinality(Versions) - 1)
    /\ IsFiniteSet(Data) /\ IsFiniteSet(Custom)

VARIABLES
    file,     \* the database: schema (0: no tables), version, rows
    dumps,    \* the restore scripts: from versions to the rows they insert
    proc,     \* the process
    conn,     \* the connection of the application
    broken,   \* history: a crash has left a script unfinished in this file
    saved     \* history: the last backup that was said to have succeeded

vars == <<file, dumps, proc, conn, broken, saved>>

NoFile == [exists |-> FALSE, schema |-> 0, version |-> 0, rows |-> {}]
Idle == [pc |-> "idle"]
NoBackup == [version |-> 0, rows |-> {}]

(* A script is a sequence of statements. *)
Schema(v) == [do |-> "schema", to |-> v]
Version(v) == [do |-> "version", to |-> v]
Row(r) == [do |-> "row", row |-> r]
CreateScript(v) == <<Schema(v), Version(v)>>
MigrateScript(v) == <<Schema(v + 1), Version(v + 1)>>
InsertScript(rows) == [i \in 1..Cardinality(rows) |-> Row(SetToSeq(rows)[i])]

(* A statement on a database: tables are made once, from nothing or from   *)
(* the schema before; rows need them.                                      *)
Fails(s) == \/ s.do = "schema" /\ file.schema \notin {0, s.to - 1}
            \/ s.do = "schema" /\ proc.pc = "migrate" /\ file.schema # s.to - 1
            \/ s.do = "row" /\ file.schema = 0
After(s) == CASE s.do = "schema" -> [file EXCEPT !.exists = TRUE, !.schema = s.to]
              [] s.do = "version" -> [file EXCEPT !.exists = TRUE, !.version = s.to]
              [] s.do = "row" -> [file EXCEPT !.rows = @ \cup {s.row}]

-----------------------------------------------------------------------------
Init == /\ file = NoFile /\ dumps = [v \in {} |-> {}]
        /\ proc = Idle /\ conn = "closed" /\ broken = FALSE /\ saved = NoBackup

At(pc) == proc.pc = pc
Go(p) == proc' = p /\ UNCHANGED <<file, dumps, conn, broken, saved>>

(* cee_dbm_db_init: which way it takes depends on whether there is a file, *)
(* and not on what is in it.                                               *)
StartInit(recreate, restore, customize, v) ==
    /\ At("idle") /\ conn = "closed"
    /\ Go([pc |-> IF ~ file.exists THEN "create" ELSE IF recreate THEN "drop" ELSE "version",
           script |-> IF file.exists THEN <<>> ELSE CreateScript(v),
           v |-> v, new |-> ~ file.exists \/ recreate, restore |-> restore,
           customize |-> customize, current |-> 0])

(* Faulty: the tables stay. *)
DropNothing == At("drop") /\ Go([proc EXCEPT !.pc = "create", !.script = CreateScript(proc.v)])

(* cee_sqlite3_drop_all_tables, in a transaction; the version stays. *)
Drop == /\ At("drop")
        /\ file' = [file EXCEPT !.schema = 0, !.rows = {}]
        /\ proc' = [proc EXCEPT !.pc = "create", !.script = CreateScript(proc.v)]
        /\ UNCHANGED <<dumps, conn, broken, saved>>

(* cee_sqlite3_init_db without a transaction: a statement that fails ends  *)
(* the process.                                                            *)
Scripted == {"create", "restore", "customize", "migrate"}
Statement ==
    /\ proc.pc \in Scripted /\ proc.script # <<>>
    /\ IF Fails(Head(proc.script))
       THEN proc' = [pc |-> "segfault"] /\ UNCHANGED file
       ELSE /\ file' = After(Head(proc.script))
            /\ proc' = [proc EXCEPT !.script = Tail(@)]
    /\ UNCHANGED <<dumps, conn, saved>>
    /\ broken' = IF proc.script = CreateScript(proc.v) /\ At("create") THEN FALSE ELSE broken

(* Faulty: the dump of the newest version is taken.                        *)
NewestRows == dumps[CHOOSE v \in DOMAIN dumps : \A w \in DOMAIN dumps : w <= v]

(* The scripts one after the other. *)
Restores(v) == proc.new /\ proc.restore /\ v \in DOMAIN dumps
RestoreScriptNewest(v) == IF Restores(v) THEN InsertScript(NewestRows) ELSE <<>>
RestoreScript(v) == IF Restores(v) THEN InsertScript(dumps[v]) ELSE <<>>
CustomizeScript == IF proc.new /\ proc.restore /\ proc.customize THEN InsertScript(Custom) ELSE <<>>

Created == /\ At("create") /\ proc.script = <<>> /\ Go([proc EXCEPT !.pc = "version"])
ReadVersion == /\ At("version")
               /\ Go([proc EXCEPT !.pc = "restore", !.current = file.version,
                                  !.script = RestoreScript(file.version)])
Restored == /\ At("restore") /\ proc.script = <<>>
            /\ Go([proc EXCEPT !.pc = "customize", !.script = CustomizeScript])
Customized == /\ At("customize") /\ proc.script = <<>>
              /\ Go([proc EXCEPT !.pc = "migrate",
                         !.script = IF proc.current \in Migrations THEN MigrateScript(proc.current) ELSE <<>>])
Migrated == /\ At("migrate") /\ proc.script = <<>> /\ Go([proc EXCEPT !.pc = "ready"])
ReturnInit == /\ At("ready") /\ Go(Idle)

-----------------------------------------------------------------------------
(* cee_dbm_db_backup.  The shell opens, and empties, the file of the dump  *)
(* before the dump runs; the call returns true whether it succeeds or not. *)
StartBackup == /\ At("idle") /\ file.exists
               /\ Go([pc |-> "redirect", current |-> file.version])
Dumped(rows) == [v \in DOMAIN dumps \cup {proc.current} |-> IF v = proc.current THEN rows ELSE dumps[v]]
Redirect == /\ At("redirect")
            /\ dumps' = Dumped({}) /\ proc' = [proc EXCEPT !.pc = "dump"]
            /\ UNCHANGED <<file, conn, broken, saved>>
Dump(ok) == /\ At("dump") /\ (ok \/ "torn_backup" \in Freedoms)
            /\ dumps' = IF ok THEN Dumped(file.rows) ELSE dumps
            /\ saved' = [version |-> proc.current, rows |-> file.rows]
            /\ proc' = Idle /\ UNCHANGED <<file, conn, broken>>

(* The application, which opens a database file that is there, reads       *)
(* another through an attachment, and stores and deletes rows.             *)
Open == /\ At("idle") /\ conn = "closed" /\ file.exists
        /\ conn' = "open" /\ UNCHANGED <<file, dumps, proc, broken, saved>>
Attach == conn = "open" /\ conn' = "attached" /\ UNCHANGED <<file, dumps, proc, broken, saved>>
Close == conn # "closed" /\ conn' = "closed" /\ UNCHANGED <<file, dumps, proc, broken, saved>>
Write == /\ conn # "closed" /\ At("idle") /\ file.schema > 0
         /\ \E r \in Data : file' = [file EXCEPT !.rows = IF r \in @ THEN @ \ {r} ELSE @ \cup {r}]
         /\ UNCHANGED <<dumps, proc, conn, broken, saved>>

(* The process dies, and its connection with it. *)
Unfinished == \/ At("create") \/ (proc.pc \in Scripted /\ proc.script # <<>>)
              \/ (proc.pc \in {"version", "restore"} /\ proc.new)
Crash == /\ \/ "crash" \in Freedoms /\ proc.pc \in Scripted \cup {"drop", "version", "ready", "segfault"}
            \/ "torn_backup" \in Freedoms /\ proc.pc \in {"redirect", "dump"}
         /\ proc' = Idle /\ conn' = "closed"
         /\ broken' = (broken \/ (proc.pc \notin {"redirect", "dump", "segfault"} /\ Unfinished))
         /\ UNCHANGED <<file, dumps, saved>>

Next == \/ \E recreate, restore, customize \in BOOLEAN, v \in Versions :
              StartInit(recreate, restore, customize, v)
        \/ Drop \/ Statement \/ Created \/ ReadVersion \/ Restored \/ Customized \/ Migrated \/ ReturnInit
        \/ StartBackup \/ Redirect \/ (\E ok \in BOOLEAN : Dump(ok))
        \/ Open \/ Attach \/ Close \/ Write \/ Crash

Spec == Init /\ [][Next]_vars

-----------------------------------------------------------------------------
(* Safety: an initialisation that gets to its end leaves a database whose  *)
(* tables are those of its version, unless a crash interrupted a script in *)
(* this file earlier; and with recreate it does so even then.  A script    *)
(* fails only in a file that a crash has left unfinished.                  *)
ReadyMeansSound ==
    /\ (At("ready") /\ (proc.new \/ ~ broken)) => file.schema = file.version /\ file.schema > 0
    /\ At("segfault") => broken

(* Safety: a database that is made anew and restored has every row of the  *)
(* last backup of the version it is created with.                          *)
RestoresTheBackup ==
    (At("ready") /\ proc.new /\ proc.restore /\ proc.v = saved.version) => saved.rows \subseteq file.rows
=============================================================================
