--------------------------- MODULE ConfigRevisions ---------------------------
(***************************************************************************)
(* The revision store of the control plane, as the processes that run      *)
(* `configs establish` and `configs revise` use it: opening the database   *)
(* (adapters/sqlite/connection.ts), migrating its schema, statement by     *)
(* statement (repository.ts), looking up the superseded revision on one    *)
(* connection, and inserting on another (config-revision-writer.ts).       *)
(*                                                                         *)
(* SQLite serializes the statements.  One that has to wait for a lock      *)
(* fails after busy_timeout: from the first time that happens on, late     *)
(* is TRUE.                                                                *)
(***************************************************************************)
EXTENDS Integers, Sequences, FiniteSets

CONSTANTS
  Procs,        \* processes
  Names,        \* configuration names
  Ids,          \* pool of revision ids: a bound on the revisions made
  NoId, NoProc,
  Columns,      \* what 0003_supply.sql adds, one by one, before the unique
                \* index on the last of them: a sequence
  MaxCrashes,   \* a bound on crashes
  MayBeLate     \* whether a lock wait may outlast busy_timeout

ASSUME RevisionAssumption ==
  /\ NoId \notin Ids /\ NoProc \notin Procs
  /\ Columns \in Seq(STRING) /\ Len(Columns) > 0
  /\ MaxCrashes \in Nat /\ Names # {} /\ MayBeLate \in BOOLEAN

VARIABLES
  journal,      \* PRAGMA journal_mode of the file
  tables,       \* no table yet; those of 0001_init.sql only; all of them
  converting,   \* the process that is converting it to WAL
  columns,      \* columns of stable_config_revision added by 0003_supply.sql
  index,        \* whether supersedes_revision_id has its unique index
  rows,         \* stable_config_revision, in the order of insertion
  run,          \* where each process is
  late, crashes

fileVars == <<journal, converting, tables, columns, index>>
vars == <<journal, converting, tables, columns, index, rows, run, late, crashes>>

Last == Len(Columns)
ColumnSet == {Columns[i] : i \in 1..Last}

Pcs == {"idle", "mode", "convert", "converting", "reread", "tables", "create",
        "migrate", "alter", "lookup", "insert"}
Answers == {"none", "stored", "notFound", "unsupported", "mismatch", "conflict",
            "failed", "locked"}

\* looked: the superseded revision has been looked up.  at: the statement
\* of the migration.
Runs == [pc : Pcs, at : 1..(Last + 1), looked : BOOLEAN,
         id : Ids \cup {NoId}, name : Names, sup : Ids \cup {NoId},
         answer : Answers]

NoRun == [pc |-> "idle", at |-> 1, looked |-> FALSE, id |-> NoId,
          name |-> CHOOSE n \in Names : TRUE, sup |-> NoId, answer |-> "none"]

Row(r) == [id |-> r.id, name |-> r.name, sup |-> r.sup]
RowSet == [id : Ids, name : Names, sup : Ids \cup {NoId}]
IsStored(id)     == \E i \in DOMAIN rows : rows[i].id = id
IsSuperseded(id) == \E i \in DOMAIN rows : rows[i].sup = id

\* No database yet, or one of an earlier version: before WAL, before the
\* tables of 0004, before any column of 0003, or left between two of its
\* statements; nothing superseded yet.
Init ==
  /\ journal \in {"delete", "wal"} /\ converting = NoProc
  /\ tables \in {"none", "old", "all"}
  /\ columns \in SUBSET ColumnSet
  /\ index \in BOOLEAN /\ (index => columns = ColumnSet)
  /\ rows \in {<<>>} \cup
       {<<[id |-> id, name |-> name, sup |-> NoId]>> : id \in Ids, name \in Names}
  /\ tables = "none" => rows = <<>> /\ columns = {} /\ ~index
  /\ run = [p \in Procs |-> NoRun]
  /\ late = FALSE /\ crashes = 0

-----------------------------------------------------------------------------
Set(p, r) == run' = [run EXCEPT ![p] = r]
At(p, pc, i) == Set(p, [run[p] EXCEPT !.pc = pc, !.at = i])
Goto(p, pc) == At(p, pc, 1)
Answer(p, a) == Set(p, [run[p] EXCEPT !.pc = "idle", !.answer = a])
Statement(p, i) == At(p, "migrate", i)
Keep == UNCHANGED <<late, crashes>>

\* A lock wait that outlasts busy_timeout, and what the code does about it.
TimesOut == MayBeLate /\ late' = TRUE /\ UNCHANGED crashes
LateFailure(p) == TimesOut /\ Answer(p, "failed") /\ UNCHANGED <<fileVars, rows>>

\* The ids are random: no two commands draw the same.
Fresh(id) == ~IsStored(id) /\ \A q \in Procs : run[q].id # id

\* runEstablish opens the writer at once, runRevise first the repository.
Begin(p) ==
  /\ run[p].pc = "idle"
  /\ \E id \in {i \in Ids : Fresh(i)}, name \in Names, sup \in Ids \cup {NoId} :
       Set(p, [pc |-> "mode", at |-> 1, looked |-> sup = NoId,
               id |-> id, name |-> name, sup |-> sup, answer |-> "none"])
  /\ UNCHANGED <<fileVars, rows>> /\ Keep

\* enableWalMode reads the mode; it waits for a conversion under way.
ReadMode(p) ==
  /\ run[p].pc = "mode" /\ converting = NoProc
  /\ IF journal = "wal" THEN Goto(p, "tables") ELSE Goto(p, "convert")
  /\ UNCHANGED <<fileVars, rows>> /\ Keep

\* PRAGMA journal_mode = WAL.  Busy handlers do not cover it: while another
\* connection converts the file it fails at once.
Convert(p) ==
  /\ run[p].pc = "convert"
  /\ \/ /\ journal = "wal" /\ Goto(p, "tables") /\ UNCHANGED converting
     \/ /\ journal = "delete" /\ converting = NoProc
        /\ converting' = p /\ Goto(p, "converting")
     \/ /\ converting # NoProc /\ Goto(p, "reread") /\ UNCHANGED converting
  /\ UNCHANGED <<journal, tables, columns, index, rows>> /\ Keep

Converted(p) ==
  /\ run[p].pc = "converting"
  /\ journal' = "wal" /\ converting' = NoProc
  /\ Goto(p, "tables")
  /\ UNCHANGED <<tables, columns, index, rows>> /\ Keep

\* The loser looks whether the winner has converted the file, and retries.
Reread(p) ==
  /\ run[p].pc = "reread" /\ converting = NoProc
  /\ IF journal = "wal" THEN Goto(p, "tables") ELSE Goto(p, "convert")
  /\ UNCHANGED <<fileVars, rows>> /\ Keep

-----------------------------------------------------------------------------
(* runConfigRevisionMigrations.                                            *)

\* The transaction that creates the tables of 0001 and 0004.  Its first
\* statement takes the write lock if the file has no table, and else a
\* snapshot, on which the later ones have to build.
CreateTables(p) ==
  /\ run[p].pc = "tables"
  /\ IF tables = "old" THEN Goto(p, "create") /\ UNCHANGED tables
     ELSE tables' = "all" /\ Statement(p, 1)
  /\ UNCHANGED <<journal, converting, columns, index, rows>> /\ Keep

\* If another process has written since, the snapshot cannot become a write
\* transaction: SQLite answers "database is locked" at once, without waiting.
CreateMore(p) ==
  /\ run[p].pc = "create"
  /\ IF tables = "old" THEN tables' = "all" /\ Statement(p, 1)
     ELSE Answer(p, "locked") /\ UNCHANGED tables
  /\ UNCHANGED <<journal, converting, columns, index, rows>> /\ Keep

Migrated(p) ==
  IF run[p].looked THEN Goto(p, "insert") ELSE Goto(p, "lookup")

\* columnExists, for the next column; a lock that is not freed in time
\* counts as the column being there.
CheckColumn(p) ==
  /\ run[p].pc = "migrate" /\ run[p].at \in 1..Last
  /\ \/ /\ Columns[run[p].at] \in columns
        /\ Statement(p, run[p].at + 1) /\ Keep
     \/ Columns[run[p].at] \notin columns /\ At(p, "alter", run[p].at) /\ Keep
     \/ Statement(p, run[p].at + 1) /\ TimesOut
  /\ UNCHANGED <<fileVars, rows>>

\* Mistaken: the column that another process has added meanwhile is an error.
AddColumnStrict(p) ==
  /\ run[p].pc = "alter" /\ run[p].at \in 1..Last
  /\ IF Columns[run[p].at] \in columns
       THEN Answer(p, "failed") /\ UNCHANGED columns
       ELSE /\ columns' = columns \cup {Columns[run[p].at]}
            /\ Statement(p, run[p].at + 1)
  /\ UNCHANGED <<journal, converting, tables, index, rows>> /\ Keep

\* ALTER TABLE ... ADD COLUMN.  A duplicate column is somebody else's; so is
\* a lock that is not freed in time, whether the column came or not.
AddColumn(p) ==
  /\ run[p].pc = "alter" /\ run[p].at \in 1..Last
  /\ Statement(p, run[p].at + 1)
  /\ \/ columns' = columns \cup {Columns[run[p].at]} /\ Keep
     \/ columns' = columns /\ TimesOut
  /\ UNCHANGED <<journal, converting, tables, index, rows>>

\* Rows that the unique index would refuse.
Forked ==
  \E i, j \in DOMAIN rows :
    i # j /\ rows[i].sup = rows[j].sup /\ rows[i].sup # NoId

\* CREATE UNIQUE INDEX IF NOT EXISTS.  A lock that is not freed in time is
\* swallowed here too, and the process goes on without the index.
CreateIndex(p) ==
  /\ run[p].pc = "migrate" /\ run[p].at = Last + 1
  /\ \/ index /\ Migrated(p) /\ UNCHANGED index /\ Keep
     \/ /\ ~index /\ Columns[Last] \in columns /\ ~Forked
        /\ index' = TRUE /\ Migrated(p) /\ Keep
     \/ /\ ~index /\ (Columns[Last] \notin columns \/ Forked)
        /\ Answer(p, "failed") /\ UNCHANGED index /\ Keep
     \/ Migrated(p) /\ UNCHANGED index /\ TimesOut
  /\ UNCHANGED <<journal, converting, tables, columns, rows>>

-----------------------------------------------------------------------------

\* runRevise: findById and the check of configName.  Then the connection is
\* closed, and the writer opens (and migrates) the file again.  What a row
\* contains is RevisionQueries's: any may be of another schema version, or
\* damaged, and its revision unsupported.
Lookup(p) ==
  /\ run[p].pc = "lookup"
  /\ \/ ~IsStored(run[p].sup) /\ Answer(p, "notFound")
     \/ IsStored(run[p].sup) /\ Answer(p, "unsupported")
     \/ \E i \in DOMAIN rows :
          /\ rows[i].id = run[p].sup
          /\ IF rows[i].name # run[p].name THEN Answer(p, "mismatch")
             ELSE Set(p, [run[p] EXCEPT !.pc = "mode", !.at = 1, !.looked = TRUE])
  /\ UNCHANGED <<fileVars, rows>> /\ Keep

\* Mistaken: the insert trusts the lookup.
InsertTrusting(p) ==
  /\ run[p].pc = "insert"
  /\ rows' = Append(rows, Row(run[p])) /\ Answer(p, "stored")
  /\ UNCHANGED fileVars /\ Keep

\* SqliteConfigRevisionWriter.create: one transaction, in which the unique
\* index decides between two that supersede the same revision.
Insert(p) ==
  /\ run[p].pc = "insert"
  /\ LET clash == index /\ run[p].sup # NoId /\ IsSuperseded(run[p].sup) IN
     \/ /\ columns # ColumnSet
        /\ Answer(p, "failed") /\ UNCHANGED rows
     \/ /\ columns = ColumnSet /\ clash
        /\ Answer(p, "conflict") /\ UNCHANGED rows
     \/ /\ columns = ColumnSet /\ ~clash
        /\ rows' = Append(rows, Row(run[p])) /\ Answer(p, "stored")
  /\ UNCHANGED fileVars /\ Keep

\* Any other statement that has to wait may fail; the error is not caught.
WaitFails(p) ==
  /\ run[p].pc \in {"mode", "reread", "convert", "tables", "lookup", "insert"}
  /\ LateFailure(p)

\* Killed.  A conversion is atomic: the file is converted, or it is not.
Crash(p) ==
  /\ run[p].pc # "idle" /\ crashes < MaxCrashes
  /\ crashes' = crashes + 1
  /\ Set(p, NoRun)
  /\ IF converting = p
       THEN converting' = NoProc /\ journal' \in {"delete", "wal"}
       ELSE UNCHANGED <<converting, journal>>
  /\ UNCHANGED <<tables, columns, index, rows, late>>

Work(p) ==
  \/ ReadMode(p) \/ Convert(p) \/ Converted(p) \/ Reread(p)
  \/ CreateTables(p) \/ CreateMore(p) \/ CheckColumn(p) \/ AddColumn(p) \/ CreateIndex(p)
  \/ Lookup(p) \/ Insert(p) \/ WaitFails(p)

Step(p) == Begin(p) \/ Work(p) \/ Crash(p)

Next == \E p \in Procs : Step(p)

Spec == Init /\ [][Next]_vars

-----------------------------------------------------------------------------
TypeOK ==
  /\ journal \in {"delete", "wal"} /\ converting \in Procs \cup {NoProc}
  /\ tables \in {"none", "old", "all"}
  /\ columns \subseteq ColumnSet /\ index \in BOOLEAN
  /\ rows \in Seq(RowSet)
  /\ run \in [Procs -> Runs]
  /\ late \in BOOLEAN /\ crashes \in 0..MaxCrashes

\* Two processes that supersede the same revision at the same time cannot
\* both win, whatever the state of the schema when they started, and however
\* their migrations interleave: each configuration's history is a list.
LinearHistory == ~late => ~Forked

\* What a revision supersedes is there, older, and of its configuration.
Grounded ==
  \A i \in DOMAIN rows :
    rows[i].sup # NoId =>
      \E j \in 1..(i - 1) :
        rows[j].id = rows[i].sup /\ rows[j].name = rows[i].name

\* What the command has printed is so: its revision is there and no other
\* command's; or it is not, and another one has superseded the revision it
\* named, or that one is there and cannot be read.
AnswerIsTrue(p) ==
  LET r == run[p] IN
  /\ r.answer = "stored" => \E i \in DOMAIN rows : rows[i] = Row(r)
  /\ r.answer \in {"notFound", "unsupported", "mismatch", "conflict", "failed", "locked"} =>
       ~IsStored(r.id)
  /\ r.answer = "unsupported" => IsStored(r.sup)
  /\ r.answer = "conflict" =>
       \E i \in DOMAIN rows : rows[i].sup = r.sup /\ rows[i].id # r.id
AnswersAreTrue == \A p \in Procs : AnswerIsTrue(p)

\* Converting one file at the same time, or adding the same columns and the
\* same index, is no error.
RaceIsNoError == ~late => \A p \in Procs : run[p].answer # "failed"

\* Expected, and not so (README.md, section 5): nor is creating the same tables,
\* who comes second waits for the first.
UpgradeWaits == \A p \in Procs : run[p].answer # "locked"

\* What one command does is a single step of the history.
History == INSTANCE RevisionHistory WITH history <- rows
ImplementsHistory == History!HistSpec

\* Why they hold.  Every id has one owner, until its row is stored; who is
\* past the migration has all columns and the index, without which nothing
\* has been superseded; who has looked up what it supersedes will find it.
OwnId(p) ==
  LET r == run[p] IN
  /\ r.pc # "idle" => r.id # NoId /\ r.answer = "none" /\ ~IsStored(r.id)
  /\ r.id # NoId => \A q \in Procs \ {p} : run[q].id # r.id

Place(p) ==
  LET r == run[p] IN
  /\ r.pc = "converting" <=> converting = p
  /\ r.pc = "alter" => r.at \in 1..Last
  /\ r.pc = "insert" => r.looked
  /\ r.pc # "idle" /\ r.looked /\ r.sup # NoId =>
       \E i \in DOMAIN rows : rows[i].id = r.sup /\ rows[i].name = r.name

Timely(p) ==
  LET r == run[p] IN
  ~late => /\ r.answer # "failed"
           /\ r.pc \in {"migrate", "alter"} =>
                \A i \in 1..(r.at - 1) : Columns[i] \in columns
           /\ r.pc \in {"lookup", "insert"} => index

Schema ==
  /\ index => Columns[Last] \in columns /\ ~Forked
  /\ index /\ ~late => columns = ColumnSet
  /\ ~index /\ ~late => \A i \in DOMAIN rows : rows[i].sup = NoId

UniqueIds == \A i, j \in DOMAIN rows : i # j => rows[i].id # rows[j].id

Inductive ==
  /\ TypeOK
  /\ \A p \in Procs : OwnId(p) /\ Place(p) /\ Timely(p) /\ AnswerIsTrue(p)
  /\ Schema /\ UniqueIds /\ Grounded
=============================================================================
