------------------------ MODULE ConfigRevisionsProofs ------------------------
(***************************************************************************)
(* The revision history stays a list, for any number of processes, names,  *)
(* revisions, crashes and columns.                                         *)
(***************************************************************************)
EXTENDS RevisionQueries, TLAPS, SequenceTheorems, WellFoundedInduction

\* The smallest schema has a last column.
LEMMA LastColumn == Last \in Nat \ {0} /\ Columns[Last] \in ColumnSet
BY RevisionAssumption DEF Last, ColumnSet

\* A step that leaves the rows alone, moves one process to r and does not
\* lose a column, the index or the lateness keeps the invariant, if r fits.
LEMMA Move ==
  ASSUME Inductive, NEW p \in Procs, NEW r \in Runs,
         run' = [run EXCEPT ![p] = r], rows' = rows,
         journal' \in {"delete", "wal"}, tables' \in {"none", "old", "all"},
         converting' \in Procs \cup {NoProc},
         \A q \in Procs \ {p} : converting' = q <=> converting = q,
         columns \subseteq columns', columns' \subseteq ColumnSet,
         index' \in BOOLEAN, index => index',
         index' => Columns[Last] \in columns' /\ ~Forked,
         index' /\ ~late' => columns' = ColumnSet,
         late' \in BOOLEAN, late => late',
         crashes' \in 0..MaxCrashes,
         r.id \in {NoId, run[p].id} \/ \A q \in Procs : run[q].id # r.id,
         r.pc # "idle" => r.id # NoId /\ r.answer = "none" /\ ~IsStored(r.id),
         r.pc = "converting" <=> converting' = p,
         r.pc = "alter" => r.at \in 1..Last,
         r.pc = "insert" => r.looked,
         r.pc # "idle" /\ r.looked /\ r.sup # NoId =>
           \E i \in DOMAIN rows : rows[i].id = r.sup /\ rows[i].name = r.name,
         ~late' /\ r.pc \in {"migrate", "alter"} =>
           \A i \in 1..(r.at - 1) : Columns[i] \in columns',
         ~late' /\ r.pc \in {"lookup", "insert"} => index',
         ~late' => r.answer # "failed",
         r.answer = "stored" => \E i \in DOMAIN rows : rows[i] = Row(r),
         r.answer \in {"notFound", "unsupported", "mismatch", "conflict", "failed", "locked"} =>
           ~IsStored(r.id),
         r.answer = "unsupported" => IsStored(r.sup),
         r.answer = "conflict" =>
           \E i \in DOMAIN rows : rows[i].sup = r.sup /\ rows[i].id # r.id
  PROVE  Inductive'
<1>1. TypeOK'
  BY DEF Inductive, TypeOK
<1>2. /\ run'[p] = r
      /\ \A q \in Procs \ {p} : run'[q] = run[q]
  BY DEF Inductive, TypeOK
<1>3. ASSUME NEW q \in Procs
      PROVE  OwnId(q)'
  <2>1. run[q] \in Runs /\ OwnId(q) /\ OwnId(p)
    BY DEF Inductive, TypeOK
  <2>2. CASE q = p
    BY <1>2, <2>1, <2>2 DEF OwnId, IsStored
  <2>3. CASE q # p
    BY <1>2, <2>1, <2>3 DEF OwnId, IsStored
  <2>4. QED BY <2>2, <2>3
<1>4. ASSUME NEW q \in Procs
      PROVE  Place(q)'
  <2>1. Place(q)
    BY DEF Inductive
  <2>2. QED BY <1>2, <2>1 DEF Place
<1>5. ASSUME NEW q \in Procs
      PROVE  Timely(q)'
  <2>1. Timely(q)
    BY DEF Inductive
  <2>2. CASE q = p
    BY <1>2, <2>1, <2>2 DEF Timely
  <2>3. CASE q # p
    BY <1>2, <2>1, <2>3 DEF Timely
  <2>4. QED BY <2>2, <2>3
<1>6. ASSUME NEW q \in Procs
      PROVE  AnswerIsTrue(q)'
  <2>1. AnswerIsTrue(q)
    BY DEF Inductive
  <2>2. CASE q = p
    BY <1>2, <2>2 DEF AnswerIsTrue, IsStored, Row
  <2>3. CASE q # p
    BY <1>2, <2>1, <2>3 DEF AnswerIsTrue, IsStored, Row
  <2>4. QED BY <2>2, <2>3
<1>7. Schema'
  BY DEF Inductive, Schema, Forked
<1>8. UniqueIds' /\ Grounded'
  BY DEF Inductive, UniqueIds, Grounded
<1>9. QED BY <1>1, <1>3, <1>4, <1>5, <1>6, <1>7, <1>8 DEF Inductive

\* What the invariant says of a process and of the files, in one place.
LEMMA Facts ==
  ASSUME Inductive, NEW p \in Procs
  PROVE  /\ run[p] \in Runs /\ OwnId(p) /\ Place(p) /\ Timely(p)
         /\ AnswerIsTrue(p) /\ Schema
         /\ journal \in {"delete", "wal"} /\ converting \in Procs \cup {NoProc}
         /\ tables \in {"none", "old", "all"}
         /\ columns \subseteq ColumnSet /\ index \in BOOLEAN
         /\ late \in BOOLEAN /\ crashes \in 0..MaxCrashes
BY DEF Inductive, TypeOK

\* A step of the opening or of the migration: of the process, only the
\* place changes.
LEMMA Advance ==
  ASSUME Inductive, NEW p \in Procs, NEW pc \in Pcs \ {"idle"},
         NEW at \in 1..(Last + 1),
         run[p].pc # "idle",
         run' = [run EXCEPT ![p] = [run[p] EXCEPT !.pc = pc, !.at = at]],
         rows' = rows,
         journal' \in {"delete", "wal"}, tables' \in {"none", "old", "all"},
         converting' \in Procs \cup {NoProc},
         \A q \in Procs \ {p} : converting' = q <=> converting = q,
         columns \subseteq columns', columns' \subseteq ColumnSet,
         index' \in BOOLEAN, index => index',
         index' => Columns[Last] \in columns' /\ ~Forked,
         index' /\ ~late' => columns' = ColumnSet,
         late' \in BOOLEAN, late => late', crashes' = crashes,
         pc = "converting" <=> converting' = p,
         pc = "alter" => at \in 1..Last,
         pc = "insert" => run[p].looked,
         ~late' /\ pc \in {"migrate", "alter"} =>
           \A i \in 1..(at - 1) : Columns[i] \in columns',
         ~late' /\ pc \in {"lookup", "insert"} => index'
  PROVE  Inductive'
<1> DEFINE r == [run[p] EXCEPT !.pc = pc, !.at = at]
<1>1. /\ run[p] \in Runs /\ crashes \in 0..MaxCrashes
      /\ OwnId(p) /\ Place(p)
  BY Facts
<1>2. r \in Runs
  BY <1>1 DEF Runs
<1>3. /\ r.pc = pc /\ r.at = at /\ r.id = run[p].id /\ r.sup = run[p].sup
      /\ r.name = run[p].name /\ r.looked = run[p].looked
      /\ r.answer = run[p].answer
  BY <1>1 DEF Runs
<1>4. r.id # NoId /\ r.answer = "none" /\ ~IsStored(r.id)
  <2>1. run[p].id # NoId /\ run[p].answer = "none" /\ ~IsStored(run[p].id)
    BY <1>1 DEF OwnId
  <2>2. QED BY <1>3, <2>1
<1>5. r.looked /\ r.sup # NoId =>
        \E i \in DOMAIN rows : rows[i].id = r.sup /\ rows[i].name = r.name
  BY <1>1, <1>3 DEF Place
<1>6. run' = [run EXCEPT ![p] = r]
  OBVIOUS
<1> HIDE DEF r
<1>7. /\ r.id \in {NoId, run[p].id} \/ \A q \in Procs : run[q].id # r.id
      /\ r.pc # "idle" => r.id # NoId /\ r.answer = "none" /\ ~IsStored(r.id)
      /\ r.pc = "converting" <=> converting' = p
      /\ r.pc = "alter" => r.at \in 1..Last
      /\ r.pc = "insert" => r.looked
  BY <1>3, <1>4
<1>8. /\ r.pc # "idle" /\ r.looked /\ r.sup # NoId =>
           \E i \in DOMAIN rows : rows[i].id = r.sup /\ rows[i].name = r.name
      /\ ~late' /\ r.pc \in {"migrate", "alter"} =>
           \A i \in 1..(r.at - 1) : Columns[i] \in columns'
      /\ ~late' /\ r.pc \in {"lookup", "insert"} => index'
      /\ ~late' => r.answer # "failed"
  BY <1>3, <1>4, <1>5
<1>9. /\ r.answer = "stored" => \E i \in DOMAIN rows : rows[i] = Row(r)
      /\ r.answer \in {"notFound", "unsupported", "mismatch", "conflict", "failed", "locked"} =>
           ~IsStored(r.id)
      /\ r.answer = "unsupported" => IsStored(r.sup)
      /\ r.answer = "conflict" =>
           \E i \in DOMAIN rows : rows[i].sup = r.sup /\ rows[i].id # r.id
      /\ crashes' \in 0..MaxCrashes
  BY <1>1, <1>4
<1>10. QED
  BY <1>2, <1>6, <1>7, <1>8, <1>9, Move

\* The end of a command that has stored nothing.
LEMMA GiveUp ==
  ASSUME Inductive, NEW p \in Procs,
         NEW a \in {"notFound", "unsupported", "mismatch", "conflict", "failed", "locked"},
         run[p].pc \notin {"idle", "converting"},
         Answer(p, a),
         UNCHANGED <<fileVars, rows, crashes>>,
         late' \in BOOLEAN, late => late',
         a = "failed" => late',
         a = "conflict" => IsSuperseded(run[p].sup),
         a = "unsupported" => IsStored(run[p].sup)
  PROVE  Inductive'
<1> DEFINE r == [run[p] EXCEPT !.pc = "idle", !.answer = a]
<1>1. /\ run[p] \in Runs /\ crashes \in 0..MaxCrashes /\ Schema
      /\ OwnId(p) /\ Place(p)
      /\ journal \in {"delete", "wal"} /\ converting \in Procs \cup {NoProc}
      /\ tables \in {"none", "old", "all"}
      /\ columns \subseteq ColumnSet /\ index \in BOOLEAN
  BY Facts
<1>2. r \in Runs
  BY <1>1 DEF Runs, Pcs, Answers
<1>3. r.pc = "idle" /\ r.id = run[p].id /\ r.sup = run[p].sup /\ r.answer = a
  BY <1>1 DEF Runs
<1>4. run[p].id # NoId /\ ~IsStored(run[p].id)
  BY <1>1 DEF OwnId
<1>5. run' = [run EXCEPT ![p] = r]
  BY DEF Answer, Set
<1>6. /\ journal' = journal /\ converting' = converting
      /\ tables' = tables /\ columns' = columns /\ index' = index /\ crashes' = crashes
      /\ rows' = rows /\ converting # p
  BY <1>1 DEF fileVars, Place
<1>7. /\ index' => Columns[Last] \in columns' /\ ~Forked
      /\ index' /\ ~late' => columns' = ColumnSet
  BY <1>1, <1>6 DEF Schema
<1> HIDE DEF r
<1>8. /\ r.answer = "stored" => \E i \in DOMAIN rows : rows[i] = Row(r)
      /\ r.answer \in {"notFound", "unsupported", "mismatch", "conflict", "failed", "locked"} =>
           ~IsStored(r.id)
      /\ r.answer = "unsupported" => IsStored(r.sup)
      /\ r.answer = "conflict" =>
           \E i \in DOMAIN rows : rows[i].sup = r.sup /\ rows[i].id # r.id
  BY <1>3, <1>4 DEF IsStored, IsSuperseded
<1>9. QED
  BY <1>1, <1>2, <1>3, <1>5, <1>6, <1>7, <1>8, Move

LEMMA BeginStep ==
  ASSUME Inductive, NEW p \in Procs, Begin(p)
  PROVE  Inductive'
<1>1. PICK id \in {i \in Ids : Fresh(i)}, name \in Names, sup \in Ids \cup {NoId} :
        run' = [run EXCEPT ![p] =
                 [pc |-> "mode", at |-> 1, looked |-> sup = NoId, id |-> id,
                  name |-> name, sup |-> sup, answer |-> "none"]]
  BY DEF Begin, Set
<1> DEFINE r == [pc |-> "mode", at |-> 1, looked |-> sup = NoId, id |-> id,
                 name |-> name, sup |-> sup, answer |-> "none"]
<1>2. /\ crashes \in 0..MaxCrashes /\ Schema /\ Place(p) /\ late \in BOOLEAN
      /\ journal \in {"delete", "wal"} /\ converting \in Procs \cup {NoProc}
      /\ tables \in {"none", "old", "all"}
      /\ columns \subseteq ColumnSet /\ index \in BOOLEAN
  BY Facts
<1>3. r \in Runs
  BY LastColumn DEF Runs, Pcs, Answers
<1>4. /\ journal' = journal /\ converting' = converting
      /\ tables' = tables /\ columns' = columns /\ index' = index /\ crashes' = crashes
      /\ rows' = rows /\ late' = late /\ converting # p
  BY <1>2 DEF Begin, Keep, fileVars, Place
<1>5. /\ index' => Columns[Last] \in columns' /\ ~Forked
      /\ index' /\ ~late' => columns' = ColumnSet
  BY <1>2, <1>4 DEF Schema
<1>6. /\ \A q \in Procs : run[q].id # r.id
      /\ r.pc = "mode" /\ r.id # NoId /\ r.answer = "none" /\ ~IsStored(r.id)
      /\ r.looked => r.sup = NoId
  BY RevisionAssumption DEF Fresh
<1> HIDE DEF r
<1>7. run' = [run EXCEPT ![p] = r]
  BY <1>1 DEF r
<1>8. QED
  BY <1>2, <1>3, <1>4, <1>5, <1>6, <1>7, Move

LEMMA CrashStep ==
  ASSUME Inductive, NEW p \in Procs, Crash(p)
  PROVE  Inductive'
<1>1. /\ crashes \in 0..MaxCrashes /\ Schema /\ Place(p) /\ late \in BOOLEAN
      /\ journal \in {"delete", "wal"} /\ converting \in Procs \cup {NoProc}
      /\ tables \in {"none", "old", "all"}
      /\ columns \subseteq ColumnSet /\ index \in BOOLEAN
  BY Facts
<1>2. NoRun \in Runs /\ NoRun.pc = "idle" /\ NoRun.id = NoId
      /\ NoRun.answer = "none"
  BY LastColumn, RevisionAssumption DEF NoRun, Runs, Pcs, Answers
<1>3. /\ tables' = tables /\ columns' = columns /\ index' = index /\ rows' = rows /\ late' = late
      /\ crashes' \in 0..MaxCrashes /\ journal' \in {"delete", "wal"}
      /\ converting' \in Procs \cup {NoProc} /\ converting' # p
      /\ \A q \in Procs \ {p} : converting' = q <=> converting = q
  BY <1>1, RevisionAssumption DEF Crash
<1>4. /\ index' => Columns[Last] \in columns' /\ ~Forked
      /\ index' /\ ~late' => columns' = ColumnSet
  BY <1>1, <1>3 DEF Schema
<1>5. run' = [run EXCEPT ![p] = NoRun]
  BY DEF Crash, Set
<1>6. QED
  BY <1>1, <1>2, <1>3, <1>4, <1>5, Move

LEMMA OpeningStep ==
  ASSUME Inductive, NEW p \in Procs,
         ReadMode(p) \/ Convert(p) \/ Converted(p) \/ Reread(p)
  PROVE  Inductive'
<1>1. /\ Schema /\ Place(p) /\ late \in BOOLEAN
      /\ journal \in {"delete", "wal"} /\ converting \in Procs \cup {NoProc}
      /\ tables \in {"none", "old", "all"}
      /\ columns \subseteq ColumnSet /\ index \in BOOLEAN
  BY Facts
<1>2. /\ tables' = tables /\ columns' = columns /\ index' = index
      /\ rows' = rows /\ late' = late /\ crashes' = crashes /\ run[p].pc # "idle"
      /\ run[p].pc \in {"mode", "convert", "converting", "reread"}
  BY DEF ReadMode, Convert, Converted, Reread, Keep, fileVars
<1>3. /\ index' => Columns[Last] \in columns' /\ ~Forked
      /\ index' /\ ~late' => columns' = ColumnSet
  BY <1>1, <1>2 DEF Schema
<1>4. 1 \in 1..(Last + 1) /\ (\A i \in 1..(1 - 1) : Columns[i] \in columns')
  BY LastColumn
<1>5. \A pc \in {"convert", "reread", "tables", "converting"} : pc \in Pcs \ {"idle"}
  BY DEF Pcs
<1>6. CASE Goto(p, "tables") /\ converting' # p
           /\ journal' \in {"delete", "wal"} /\ converting' \in Procs \cup {NoProc}
           /\ (\A q \in Procs \ {p} : converting' = q <=> converting = q)
  <2>1. run' = [run EXCEPT ![p] = [run[p] EXCEPT !.pc = "tables", !.at = 1]]
    BY <1>6 DEF Goto, At, Set
  <2>2. QED
    BY <1>1, <1>2, <1>3, <1>4, <1>5, <1>6, <2>1, Advance
<1>7. ASSUME NEW pc \in {"convert", "reread"}, Goto(p, pc),
             converting' = converting, journal' = journal, converting # p
      PROVE  Inductive'
  <2>1. run' = [run EXCEPT ![p] = [run[p] EXCEPT !.pc = pc, !.at = 1]]
    BY <1>7 DEF Goto, At, Set
  <2>2. QED
    <3>1. /\ pc \in Pcs \ {"idle"} /\ 1 \in 1..(Last + 1)
      BY <1>4, <1>5, <1>7
    <3>2. /\ pc = "converting" <=> converting' = p
          /\ pc = "alter" => 1 \in 1..Last
          /\ pc = "insert" => run[p].looked
          /\ ~late' /\ pc \in {"migrate", "alter"} =>
               \A i \in 1..(1 - 1) : Columns[i] \in columns'
          /\ ~late' /\ pc \in {"lookup", "insert"} => index'
      BY <1>7
    <3>3. /\ journal' \in {"delete", "wal"}
          /\ tables' \in {"none", "old", "all"}
          /\ converting' \in Procs \cup {NoProc}
          /\ \A q \in Procs \ {p} : converting' = q <=> converting = q
          /\ columns \subseteq columns' /\ columns' \subseteq ColumnSet
          /\ index' \in BOOLEAN /\ (index => index')
          /\ late' \in BOOLEAN /\ (late => late') /\ crashes' = crashes
      BY <1>1, <1>2, <1>7
    <3>4. QED
      BY <1>2, <1>3, <2>1, <3>1, <3>2, <3>3, Advance
<1>8. CASE Goto(p, "converting") /\ converting = NoProc /\ converting' = p
           /\ journal' = journal
  <2>1. run' = [run EXCEPT ![p] = [run[p] EXCEPT !.pc = "converting", !.at = 1]]
    BY <1>8 DEF Goto, At, Set
  <2>2. QED
    <3>1. /\ "converting" \in Pcs \ {"idle"}
          /\ converting' \in Procs \cup {NoProc}
          /\ \A q \in Procs \ {p} : converting' = q <=> converting = q
          /\ journal' \in {"delete", "wal"}
          /\ tables' \in {"none", "old", "all"}
      BY <1>1, <1>2, <1>5, <1>8, RevisionAssumption
    <3>2. /\ columns \subseteq columns' /\ columns' \subseteq ColumnSet
          /\ index' \in BOOLEAN /\ (index => index')
          /\ late' \in BOOLEAN /\ (late => late')
      BY <1>1, <1>2
    <3>3. /\ "converting" = "converting" <=> converting' = p
          /\ "converting" \notin {"alter", "migrate", "lookup", "insert"}
          /\ 1 \in 1..(Last + 1) /\ crashes' = crashes
      BY <1>2, <1>4, <1>8
    <3>4. QED
      BY <1>2, <1>3, <2>1, <3>1, <3>2, <3>3, Advance
<1>9. CASE ReadMode(p) \/ Reread(p)
  <2>1. converting' = converting /\ journal' = journal /\ converting # p
    BY <1>1, <1>9 DEF ReadMode, Reread, fileVars, Place
  <2>2. Goto(p, "tables") \/ Goto(p, "convert")
    BY <1>9 DEF ReadMode, Reread
  <2>3. QED BY <1>1, <1>6, <1>7, <2>1, <2>2
<1>10. CASE Convert(p)
  <2>1. journal' = journal /\ converting # p
    BY <1>1, <1>10 DEF Convert, Place
  <2>2. \/ Goto(p, "tables") /\ converting' = converting
        \/ Goto(p, "converting") /\ converting = NoProc /\ converting' = p
        \/ Goto(p, "reread") /\ converting' = converting
    BY <1>10 DEF Convert
  <2>3. QED BY <1>1, <1>6, <1>7, <1>8, <2>1, <2>2
<1>11. CASE Converted(p)
  <2>1. /\ Goto(p, "tables") /\ converting' = NoProc /\ journal' = "wal"
        /\ converting = p
    BY <1>1, <1>11 DEF Converted, Place
  <2>2. QED BY <1>6, <2>1, RevisionAssumption
<1>12. QED BY <1>9, <1>10, <1>11

LEMMA TablesStep ==
  ASSUME Inductive, NEW p \in Procs, CreateTables(p) \/ CreateMore(p)
  PROVE  Inductive'
<1>1. /\ Schema /\ Place(p) /\ late \in BOOLEAN /\ crashes \in 0..MaxCrashes
      /\ journal \in {"delete", "wal"} /\ converting \in Procs \cup {NoProc}
      /\ tables \in {"none", "old", "all"}
      /\ columns \subseteq ColumnSet /\ index \in BOOLEAN
  BY Facts
<1>2. /\ columns' = columns /\ index' = index /\ rows' = rows
      /\ late' = late /\ crashes' = crashes /\ journal' = journal
      /\ converting' = converting /\ run[p].pc \in {"tables", "create"}
      /\ tables' \in {"none", "old", "all"}
  BY <1>1 DEF CreateTables, CreateMore, Keep
<1>3. /\ index' => Columns[Last] \in columns' /\ ~Forked
      /\ index' /\ ~late' => columns' = ColumnSet
      /\ converting # p
  BY <1>1, <1>2 DEF Schema, Place
<1>4. ASSUME NEW pc \in {"create", "migrate"}, At(p, pc, 1)
      PROVE  Inductive'
  <2>1. run' = [run EXCEPT ![p] = [run[p] EXCEPT !.pc = pc, !.at = 1]]
    BY <1>4 DEF At, Set
  <2>2. /\ pc \in Pcs \ {"idle"} /\ 1 \in 1..(Last + 1)
        /\ pc = "converting" <=> converting' = p
        /\ pc = "alter" => 1 \in 1..Last
        /\ pc = "insert" => run[p].looked
        /\ ~late' /\ pc \in {"migrate", "alter"} =>
             \A i \in 1..(1 - 1) : Columns[i] \in columns'
        /\ ~late' /\ pc \in {"lookup", "insert"} => index'
    BY <1>2, <1>3, LastColumn DEF Pcs
  <2>3. QED
    BY <1>1, <1>2, <1>3, <2>1, <2>2, Advance
<1>5. CASE Answer(p, "locked") /\ tables' = tables
  BY <1>1, <1>2, <1>5, GiveUp DEF fileVars
<1>6. QED
  BY <1>4, <1>5 DEF CreateTables, CreateMore, Goto, Statement

LEMMA ColumnStep ==
  ASSUME Inductive, NEW p \in Procs, CheckColumn(p) \/ AddColumn(p)
  PROVE  Inductive'
<1>1. /\ Schema /\ Place(p) /\ Timely(p) /\ late \in BOOLEAN
      /\ journal \in {"delete", "wal"} /\ converting \in Procs \cup {NoProc}
      /\ tables \in {"none", "old", "all"}
      /\ columns \subseteq ColumnSet /\ index \in BOOLEAN
  BY Facts
<1>2. /\ index' = index /\ rows' = rows /\ journal' = journal
      /\ tables' = tables
      /\ converting' = converting /\ crashes' = crashes
      /\ run[p].pc \in {"migrate", "alter"} /\ run[p].at \in 1..Last
      /\ late' \in BOOLEAN /\ (late => late')
      /\ columns \subseteq columns' /\ columns' \subseteq ColumnSet
  BY <1>1 DEF CheckColumn, AddColumn, Keep, TimesOut, fileVars, ColumnSet, Last
<1>3. /\ index' => Columns[Last] \in columns' /\ ~Forked
      /\ index' /\ ~late' => columns' = ColumnSet
  BY <1>1, <1>2 DEF Schema
<1>4. /\ run[p].at + 1 \in 1..(Last + 1) /\ run[p].at \in 1..(Last + 1)
      /\ run[p].at \in Nat
  BY <1>2, LastColumn
<1>5. ~late' => \A i \in 1..(run[p].at - 1) : Columns[i] \in columns'
  BY <1>1, <1>2 DEF Timely
<1>6. converting' # p
  BY <1>1, <1>2 DEF Place
<1>7. CASE Statement(p, run[p].at + 1)
  <2>1. ~late' => Columns[run[p].at] \in columns'
    <3>1. run'[p].pc = "migrate" /\ ~At(p, "alter", run[p].at)
      <4>1. run \in [Procs -> Runs]
        BY DEF Inductive, TypeOK
      <4>2. /\ [run EXCEPT ![p] = [run[p] EXCEPT !.pc = "migrate",
                                               !.at = run[p].at + 1]][p].pc
                 = "migrate"
            /\ [run EXCEPT ![p] = [run[p] EXCEPT !.pc = "alter",
                                               !.at = run[p].at]][p].pc
                 = "alter"
        BY <4>1 DEF Runs
      <4>3. QED BY <1>7, <4>2 DEF Statement, At, Set
    <3>2. CASE CheckColumn(p)
      BY <1>2, <3>1, <3>2 DEF CheckColumn, TimesOut, fileVars
    <3>3. CASE AddColumn(p)
      BY <3>3 DEF AddColumn, TimesOut
    <3>4. QED BY <3>2, <3>3
  <2>2. ~late' => \A i \in 1..((run[p].at + 1) - 1) : Columns[i] \in columns'
    BY <1>4, <1>5, <2>1
  <2>3. run' = [run EXCEPT ![p] =
                  [run[p] EXCEPT !.pc = "migrate", !.at = run[p].at + 1]]
    BY <1>7 DEF Statement, At, Set
  <2>4. "migrate" \in Pcs \ {"idle"}
    BY DEF Pcs
  <2>5. /\ journal' \in {"delete", "wal"}
        /\ tables' \in {"none", "old", "all"}
        /\ converting' \in Procs \cup {NoProc}
        /\ \A q \in Procs \ {p} : converting' = q <=> converting = q
        /\ index' \in BOOLEAN /\ (index => index') /\ run[p].pc # "idle"
    BY <1>1, <1>2
  <2>6. /\ "migrate" = "converting" <=> converting' = p
        /\ "migrate" \notin {"alter", "insert", "lookup"}
    BY <1>6
  <2>7. QED
    BY <1>2, <1>3, <1>4, <2>2, <2>3, <2>4, <2>5, <2>6, Advance
<1>8. CASE At(p, "alter", run[p].at)
  <2>1. PICK at \in 1..(Last + 1) :
          /\ at = run[p].at
          /\ run' = [run EXCEPT ![p] = [run[p] EXCEPT !.pc = "alter", !.at = at]]
    BY <1>4, <1>8 DEF At, Set
  <2>2. "alter" \in Pcs \ {"idle"}
    BY DEF Pcs
  <2>3. QED
    <3>1. /\ "alter" # "converting" /\ "alter" \notin {"lookup", "insert"}
          /\ journal' \in {"delete", "wal"}
          /\ tables' \in {"none", "old", "all"}
          /\ converting' \in Procs \cup {NoProc}
          /\ \A q \in Procs \ {p} : converting' = q <=> converting = q
          /\ index' \in BOOLEAN /\ (index => index')
          /\ at \in 1..Last
          /\ ~late' => \A i \in 1..(at - 1) : Columns[i] \in columns'
      BY <1>1, <1>2, <1>5, <2>1
    <3>2. /\ "alter" = "converting" <=> converting' = p
          /\ "alter" = "insert" => run[p].looked
          /\ "alter" = "alter" => at \in 1..Last
          /\ ~late' /\ "alter" \in {"migrate", "alter"} =>
               \A i \in 1..(at - 1) : Columns[i] \in columns'
          /\ ~late' /\ "alter" \in {"lookup", "insert"} => index'
      BY <1>6, <3>1
    <3>3. QED
      BY <1>2, <1>3, <2>1, <2>2, <3>1, <3>2, Advance
<1>9. QED BY <1>7, <1>8 DEF CheckColumn, AddColumn

LEMMA IndexStep ==
  ASSUME Inductive, NEW p \in Procs, CreateIndex(p)
  PROVE  Inductive'
<1>1. /\ Schema /\ Place(p) /\ Timely(p) /\ late \in BOOLEAN
      /\ journal \in {"delete", "wal"} /\ converting \in Procs \cup {NoProc}
      /\ tables \in {"none", "old", "all"}
      /\ columns \subseteq ColumnSet /\ index \in BOOLEAN
  BY Facts
<1>2. /\ columns' = columns /\ rows' = rows /\ journal' = journal
      /\ tables' = tables
      /\ converting' = converting /\ crashes' = crashes
      /\ run[p].pc = "migrate" /\ run[p].at = Last + 1
      /\ late' \in BOOLEAN /\ (late => late')
      /\ index' \in BOOLEAN /\ (index => index') /\ converting' # p
  BY <1>1 DEF CreateIndex, Keep, TimesOut, Place
<1>3. ~late => columns = ColumnSet
  <2>1. (Last + 1) - 1 = Last /\ Last \in Nat
    BY LastColumn
  <2>2. ~late => \A i \in 1..Last : Columns[i] \in columns
    BY <1>1, <1>2, <2>1 DEF Timely
  <2>3. QED BY <1>1, <2>2 DEF ColumnSet
<1>4. /\ index' => Columns[Last] \in columns' /\ ~Forked
      /\ index' /\ ~late' => columns' = ColumnSet
  BY <1>1, <1>2, <1>3 DEF Schema, CreateIndex
<1>5. CASE Migrated(p) /\ (index' \/ late')
  <2>1. 1 \in 1..(Last + 1)
    BY LastColumn
  <2>2. ASSUME NEW pc \in {"lookup", "insert"}, Goto(p, pc),
                     pc = "insert" => run[p].looked
        PROVE  Inductive'
    <3>1. run' = [run EXCEPT ![p] = [run[p] EXCEPT !.pc = pc, !.at = 1]]
      BY <2>2 DEF Goto, At, Set
    <3>2. /\ pc \in Pcs \ {"idle"}
          /\ pc = "converting" <=> converting' = p
          /\ pc = "alter" => 1 \in 1..Last
          /\ ~late' /\ pc \in {"migrate", "alter"} =>
               \A i \in 1..(1 - 1) : Columns[i] \in columns'
          /\ ~late' /\ pc \in {"lookup", "insert"} => index'
      BY <1>2, <1>5, <2>2 DEF Pcs
    <3>3. /\ journal' \in {"delete", "wal"}
          /\ tables' \in {"none", "old", "all"}
          /\ converting' \in Procs \cup {NoProc}
          /\ \A q \in Procs \ {p} : converting' = q <=> converting = q
          /\ columns \subseteq columns' /\ columns' \subseteq ColumnSet
      BY <1>1, <1>2
    <3>4. QED
      BY <1>2, <1>4, <2>1, <2>2, <3>1, <3>2, <3>3, Advance
  <2>3. CASE run[p].looked
    BY <1>5, <2>2, <2>3 DEF Migrated
  <2>4. CASE ~run[p].looked
    BY <1>5, <2>2, <2>4 DEF Migrated
  <2>5. QED BY <2>3, <2>4
<1>6. CASE Answer(p, "failed") /\ UNCHANGED <<index, late>>
           /\ (Columns[Last] \notin columns \/ Forked) /\ ~index
  <2>1. late
    <3>1. ~late => ~Forked
      BY <1>6, <1>1 DEF Schema, Forked
    <3>2. QED BY <1>1, <1>3, <1>6, <3>1, LastColumn
  <2>2. QED
    BY <1>1, <1>2, <1>6, <2>1, GiveUp DEF fileVars
<1>7. QED
  BY <1>5, <1>6 DEF CreateIndex, Keep, TimesOut

LEMMA LookupStep ==
  ASSUME Inductive, NEW p \in Procs, Lookup(p)
  PROVE  Inductive'
<1>1. /\ run[p] \in Runs /\ OwnId(p) /\ Place(p) /\ Schema /\ late \in BOOLEAN
      /\ journal \in {"delete", "wal"} /\ converting \in Procs \cup {NoProc}
      /\ tables \in {"none", "old", "all"}
      /\ columns \subseteq ColumnSet /\ index \in BOOLEAN
      /\ crashes \in 0..MaxCrashes
  BY Facts
<1>2. /\ run[p].pc = "lookup" /\ rows' = rows /\ journal' = journal
      /\ converting' = converting /\ crashes' = crashes /\ late' = late
      /\ tables' = tables /\ columns' = columns /\ index' = index /\ converting' # p
  BY <1>1 DEF Lookup, Keep, fileVars, Place
<1>3. ASSUME NEW a \in {"notFound", "unsupported", "mismatch"}, Answer(p, a),
             a = "unsupported" => IsStored(run[p].sup)
      PROVE  Inductive'
  BY <1>1, <1>2, <1>3, GiveUp DEF fileVars
<1>4. ASSUME NEW i \in DOMAIN rows, rows[i].id = run[p].sup,
             rows[i].name = run[p].name,
             Set(p, [run[p] EXCEPT !.pc = "mode", !.at = 1, !.looked = TRUE])
      PROVE  Inductive'
  <2> DEFINE r == [run[p] EXCEPT !.pc = "mode", !.at = 1, !.looked = TRUE]
  <2>1. /\ r \in Runs /\ r.pc = "mode" /\ r.id = run[p].id /\ r.answer = run[p].answer
        /\ r.sup = run[p].sup /\ r.name = run[p].name
    <3>1. 1 \in 1..(Last + 1) /\ "mode" \in Pcs
      BY LastColumn DEF Pcs
    <3>2. QED BY <1>1, <3>1 DEF Runs
  <2>2. run' = [run EXCEPT ![p] = r]
    BY <1>4 DEF Set
  <2> HIDE DEF r
  <2>3. /\ r.id # NoId /\ r.answer = "none" /\ ~IsStored(r.id)
    BY <1>1, <1>2, <2>1 DEF OwnId
  <2>4. /\ index' => Columns[Last] \in columns' /\ ~Forked
        /\ index' /\ ~late' => columns' = ColumnSet
    BY <1>1, <1>2 DEF Schema
  <2>5. \E k \in DOMAIN rows : rows[k].id = r.sup /\ rows[k].name = r.name
    BY <1>4, <2>1
  <2>6. QED
    BY <1>1, <1>2, <2>1, <2>2, <2>3, <2>4, <2>5, Move
<1>5. QED BY <1>3, <1>4 DEF Lookup

LEMMA WaitStep ==
  ASSUME Inductive, NEW p \in Procs, WaitFails(p)
  PROVE  Inductive'
<1>1. late \in BOOLEAN /\ run[p].pc \notin {"idle", "converting"}
  BY Facts DEF WaitFails
<1>2. /\ Answer(p, "failed") /\ UNCHANGED <<fileVars, rows, crashes>>
      /\ late' = TRUE
  BY DEF WaitFails, LateFailure, TimesOut
<1>3. QED BY <1>1, <1>2, GiveUp

\* The insert: the one step that changes the history.
LEMMA Inserted ==
  ASSUME Inductive, NEW p \in Procs, run[p].pc = "insert",
         rows' = Append(rows, Row(run[p]))
  PROVE  /\ Row(run[p]) \in RowSet /\ rows \in Seq(RowSet)
         /\ rows' \in Seq(RowSet)
         /\ DOMAIN rows' = DOMAIN rows \cup {Len(rows) + 1}
         /\ DOMAIN rows = 1..Len(rows) /\ Len(rows) \in Nat
         /\ \A i \in DOMAIN rows : rows'[i] = rows[i]
         /\ rows'[Len(rows) + 1] = Row(run[p])
         /\ run[p].id # NoId /\ ~IsStored(run[p].id)
<1>1. run[p] \in Runs /\ rows \in Seq(RowSet) /\ OwnId(p)
  BY DEF Inductive, TypeOK
<1>2. run[p].id # NoId /\ ~IsStored(run[p].id)
  BY <1>1 DEF OwnId
<1>3. Row(run[p]) \in RowSet
  BY <1>1, <1>2 DEF Row, RowSet, Runs
<1>4. QED BY <1>1, <1>2, <1>3

LEMMA InsertStep ==
  ASSUME Inductive, NEW p \in Procs, Insert(p)
  PROVE  Inductive'
<1>1. /\ run[p] \in Runs /\ OwnId(p) /\ Place(p) /\ Timely(p) /\ Schema
      /\ late \in BOOLEAN
      /\ journal \in {"delete", "wal"} /\ converting \in Procs \cup {NoProc}
      /\ tables \in {"none", "old", "all"}
      /\ columns \subseteq ColumnSet /\ index \in BOOLEAN
      /\ crashes \in 0..MaxCrashes
  BY Facts
<1>2. /\ run[p].pc = "insert" /\ journal' = journal
      /\ converting' = converting /\ crashes' = crashes /\ late' = late
      /\ tables' = tables /\ columns' = columns /\ index' = index
  BY DEF Insert, Keep, fileVars
<1>3. CASE columns # ColumnSet /\ Answer(p, "failed") /\ rows' = rows
  <2>1. late
    BY <1>1, <1>2, <1>3 DEF Timely, Schema
  <2>2. QED BY <1>1, <1>2, <1>3, <2>1, GiveUp DEF fileVars
<1>4. CASE /\ index /\ IsSuperseded(run[p].sup)
           /\ Answer(p, "conflict") /\ rows' = rows
  BY <1>1, <1>2, <1>4, GiveUp DEF fileVars
<1>5. CASE /\ ~(index /\ run[p].sup # NoId /\ IsSuperseded(run[p].sup))
           /\ rows' = Append(rows, Row(run[p])) /\ Answer(p, "stored")
  <2> DEFINE r == [run[p] EXCEPT !.pc = "idle", !.answer = "stored"]
             n == Len(rows) + 1
  <2>1. /\ rows' \in Seq(RowSet) /\ n \in Nat /\ n \in DOMAIN rows'
        /\ DOMAIN rows' = DOMAIN rows \cup {n} /\ DOMAIN rows = 1..(n - 1)
        /\ \A i \in DOMAIN rows : rows'[i] = rows[i]
        /\ rows'[n] = Row(run[p]) /\ run[p].id # NoId /\ ~IsStored(run[p].id)
    BY <1>2, <1>5, Inserted
  <2>2. /\ r \in Runs /\ r.pc = "idle" /\ r.answer = "stored"
        /\ r.id = run[p].id /\ r.sup = run[p].sup /\ r.name = run[p].name
    BY <1>1 DEF Runs, Pcs, Answers
  <2>3. run' = [run EXCEPT ![p] = r]
    BY <1>5 DEF Answer, Set
  <2>4. Row(run[p]) = Row(r) /\ rows'[n].id = run[p].id
        /\ rows'[n].sup = run[p].sup /\ rows'[n].name = run[p].name
    BY <2>1, <2>2 DEF Row
  <2> HIDE DEF r, n
  <2>5. run'[p] = r /\ \A q \in Procs \ {p} : run'[q] = run[q]
    BY <2>3 DEF Inductive, TypeOK
  <2>6. TypeOK'
    BY <1>1, <1>2, <2>1, <2>2, <2>3 DEF Inductive, TypeOK
  <2>7. \A i \in DOMAIN rows : rows[i].id # run[p].id
    BY <2>1 DEF IsStored
  <2>8. \A q \in Procs \ {p} : run[q].id # run[p].id
    BY <1>1, <2>1 DEF OwnId
  <2>9. ASSUME NEW q \in Procs
        PROVE  OwnId(q)' /\ Place(q)' /\ Timely(q)' /\ AnswerIsTrue(q)'
    <3>1. OwnId(q) /\ Place(q) /\ Timely(q) /\ AnswerIsTrue(q)
      BY DEF Inductive
    <3>2. CASE q = p
      <4>1. OwnId(q)'
        BY <2>2, <2>5, <2>8, <3>2 DEF OwnId
      <4>2. Place(q)'
        BY <1>1, <1>2, <2>2, <2>5, <3>2 DEF Place
      <4>3. Timely(q)'
        BY <2>2, <2>5, <3>2 DEF Timely
      <4>4. AnswerIsTrue(q)'
        BY <2>1, <2>2, <2>4, <2>5, <3>2 DEF AnswerIsTrue, Row
      <4>5. QED BY <4>1, <4>2, <4>3, <4>4
    <3>3. CASE q # p
      <4>1. run'[q] = run[q] /\ run[q].id # run[p].id
        BY <2>5, <2>8, <3>3
      <4>2. OwnId(q)'
        <5>1. ~IsStored(run[q].id) => \A i \in DOMAIN rows' : rows'[i].id # run[q].id
          BY <2>1, <2>4, <4>1 DEF IsStored
        <5>2. \A u \in Procs : run'[u].id = run[u].id
          BY <2>2, <2>5
        <5>3. QED BY <3>1, <4>1, <5>1, <5>2 DEF OwnId, IsStored
      <4>3. Place(q)'
        BY <1>2, <2>1, <3>1, <4>1 DEF Place
      <4>4. Timely(q)'
        BY <1>2, <3>1, <4>1 DEF Timely
      <4>5. AnswerIsTrue(q)'
        BY <2>1, <2>4, <3>1, <4>1 DEF AnswerIsTrue, IsStored, Row
      <4>6. QED BY <4>2, <4>3, <4>4, <4>5
    <3>4. QED BY <3>2, <3>3
  <2>10. UniqueIds'
    BY <2>1, <2>4, <2>7 DEF Inductive, UniqueIds
  <2>11. Grounded'
    <3>1. run[p].sup # NoId =>
            \E j \in DOMAIN rows : rows[j].id = run[p].sup /\ rows[j].name = run[p].name
      BY <1>1, <1>2 DEF Place
    <3>2. ASSUME NEW i \in DOMAIN rows', rows'[i].sup # NoId
          PROVE  \E j \in 1..(i - 1) :
                   rows'[j].id = rows'[i].sup /\ rows'[j].name = rows'[i].name
      <4>1. CASE i = n
        BY <2>1, <2>4, <3>1, <3>2, <4>1
      <4>2. CASE i \in DOMAIN rows
        <5>1. PICK j \in 1..(i - 1) :
                rows[j].id = rows[i].sup /\ rows[j].name = rows[i].name
          BY <2>1, <3>2, <4>2 DEF Inductive, Grounded
        <5>2. j \in DOMAIN rows
          BY <2>1, <4>2, <5>1
        <5>3. QED BY <2>1, <4>2, <5>1, <5>2
      <4>3. QED BY <2>1, <4>1, <4>2
    <3>3. QED BY <3>2 DEF Grounded
  <2>12. Schema'
    <3>1. index => ~Forked'
      BY <1>1, <1>5, <2>1, <2>4 DEF Schema, Forked, IsSuperseded
    <3>2. ~index => late
      BY <1>1, <1>2 DEF Timely
    <3>3. QED BY <1>1, <1>2, <3>1, <3>2 DEF Schema
  <2>13. QED BY <2>6, <2>9, <2>10, <2>11, <2>12 DEF Inductive
<1>6. QED BY <1>3, <1>4, <1>5 DEF Insert

LEMMA InitInductive == Init => Inductive
<1> SUFFICES ASSUME Init PROVE Inductive
  OBVIOUS
<1>1. NoRun \in Runs /\ NoRun.pc = "idle" /\ NoRun.id = NoId
      /\ NoRun.answer = "none"
  BY LastColumn, RevisionAssumption DEF NoRun, Runs, Pcs, Answers
<1>2. /\ rows \in Seq(RowSet) /\ Len(rows) \in {0, 1}
      /\ \A i \in DOMAIN rows : i = 1 /\ rows[i].sup = NoId
  <2>1. CASE rows = <<>>
    BY <2>1
  <2>2. ASSUME NEW id \in Ids, NEW name \in Names,
               rows = <<[id |-> id, name |-> name, sup |-> NoId]>>
        PROVE  <1>2
    <3>1. [id |-> id, name |-> name, sup |-> NoId] \in RowSet
      BY DEF RowSet
    <3>2. QED BY <2>2, <3>1
  <2>3. QED BY <2>1, <2>2 DEF Init
<1>3. TypeOK
  <2>1. run \in [Procs -> Runs]
    BY <1>1 DEF Init
  <2>2. crashes \in 0..MaxCrashes
    BY RevisionAssumption DEF Init
  <2>3. /\ journal \in {"delete", "wal"} /\ converting \in Procs \cup {NoProc}
        /\ tables \in {"none", "old", "all"}
        /\ late \in BOOLEAN
    <3>1. /\ journal \in {"delete", "wal"} /\ converting = NoProc
          /\ tables \in {"none", "old", "all"}
      BY DEF Init
    <3>2. late = FALSE
      BY Zenon DEF Init
    <3>3. QED BY <3>1, <3>2
  <2>4. columns \subseteq ColumnSet /\ index \in BOOLEAN
    BY DEF Init
  <2>5. QED BY <1>2, <2>1, <2>2, <2>3, <2>4 DEF TypeOK
<1>4. ASSUME NEW p \in Procs
      PROVE  OwnId(p) /\ Place(p) /\ Timely(p) /\ AnswerIsTrue(p)
  <2>1. run[p] = NoRun /\ converting # p
    BY RevisionAssumption DEF Init
  <2>2. QED BY <1>1, <2>1 DEF OwnId, Place, Timely, AnswerIsTrue
<1>5. Schema /\ UniqueIds /\ Grounded
  BY <1>2, LastColumn DEF Init, Schema, UniqueIds, Grounded, Forked
<1>6. QED BY <1>3, <1>4, <1>5 DEF Inductive

LEMMA NextInductive == Inductive /\ [Next]_vars => Inductive'
<1> SUFFICES ASSUME Inductive, [Next]_vars PROVE Inductive'
  OBVIOUS
<1>1. ASSUME NEW p \in Procs, Step(p)
      PROVE  Inductive'
  BY <1>1, BeginStep, CrashStep, OpeningStep, TablesStep, ColumnStep, IndexStep,
     LookupStep, InsertStep, WaitStep DEF Step, Work
<1>2. CASE UNCHANGED vars
  BY <1>2 DEF vars, Inductive, TypeOK, OwnId, Place, Timely, AnswerIsTrue,
     Schema, UniqueIds, Grounded, Forked, IsStored, Row
<1>3. QED BY <1>1, <1>2 DEF Next

\* The invariant that ties the ids, the migration, the lookup and the
\* insert of runRevise and SqliteConfigRevisionWriter.create together.
THEOREM InductiveInvariance == Spec => []Inductive
BY InitInductive, NextInductive, PTL DEF Spec

\* No two revisions supersede the same one, unless a lock wait outlasted
\* busy_timeout: the unique index is there before anything is superseded.
THEOREM HistoryIsLinear == Spec => []LinearHistory
<1>1. Inductive => LinearHistory
  <2> SUFFICES ASSUME Inductive, ~late PROVE ~Forked
    BY DEF LinearHistory
  <2>1. Schema
    BY DEF Inductive
  <2>2. QED BY <2>1 DEF Schema, Forked
<1>2. QED BY <1>1, InductiveInvariance, PTL

\* What is superseded is there, older, and of the same configuration.
THEOREM HistoryIsGrounded == Spec => []Grounded
<1>1. Inductive => Grounded
  BY DEF Inductive
<1>2. QED BY <1>1, InductiveInvariance, PTL

\* What establish and revise print is true, and stays so.
THEOREM CommandsTellTheTruth == Spec => []AnswersAreTrue
<1>1. Inductive => AnswersAreTrue
  BY DEF Inductive, AnswersAreTrue
<1>2. QED BY <1>1, InductiveInvariance, PTL

\* Racing to open and to migrate the database makes no command fail.
THEOREM RacesAreTolerated == Spec => []RaceIsNoError
<1>1. Inductive => RaceIsNoError
  BY DEF Inductive, RaceIsNoError, Timely
<1>2. QED BY <1>1, InductiveInvariance, PTL

\* The store implements the history: a command is one step of it.
THEOREM StoreIsAHistory == Spec => ImplementsHistory
<1>1. Init => History!HistInit
  BY DEF Init, History!HistInit
<1>2. Inductive /\ [Next]_vars => [History!HistNext]_(History!histVars)
  <2> SUFFICES ASSUME Inductive, [Next]_vars
               PROVE  [History!HistNext]_(History!histVars)
    OBVIOUS
  <2>1. CASE UNCHANGED <<rows, late>>
    BY <2>1 DEF History!histVars
  <2>2. CASE rows' = rows /\ late' = TRUE
    BY <2>2 DEF History!HistNext, History!Delay
  <2>3. ASSUME NEW p \in Procs, Insert(p), rows' # rows
        PROVE  History!HistNext
    <3>1. /\ rows' = Append(rows, Row(run[p])) /\ late' = late
          /\ ~(index /\ run[p].sup # NoId /\ IsSuperseded(run[p].sup))
          /\ run[p].pc = "insert"
      BY <2>3 DEF Insert, Keep
    <3>2. /\ run[p] \in Runs /\ OwnId(p) /\ Place(p) /\ Timely(p)
      BY Facts
    <3>3. /\ run[p].id \in Ids /\ run[p].name \in Names
          /\ run[p].sup \in Ids \cup {NoId} /\ ~IsStored(run[p].id)
      BY <3>1, <3>2 DEF Runs, OwnId
    <3>4. run[p].sup # NoId =>
            /\ \E i \in DOMAIN rows : rows[i].id = run[p].sup
                                   /\ rows[i].name = run[p].name
            /\ late \/ ~IsSuperseded(run[p].sup)
      BY <3>1, <3>2 DEF Place, Timely
    <3>5. History!Publish(run[p].id, run[p].name, run[p].sup)
      BY <3>1, <3>3, <3>4
      DEF History!Publish, History!Stored, History!Superseded,
          History!Supersedable, IsStored, IsSuperseded, Row
    <3>6. QED BY <3>3, <3>5 DEF History!HistNext
  <2>4. ASSUME NEW p \in Procs, Step(p)
        PROVE  \/ UNCHANGED <<rows, late>>
               \/ rows' = rows /\ late' = TRUE
               \/ Insert(p) /\ rows' # rows
    BY <2>4 DEF Step, Work, Begin, ReadMode, Convert, Converted, Reread,
       CreateTables, CreateMore, CheckColumn, AddColumn, CreateIndex, Lookup, Insert, WaitFails,
       LateFailure, TimesOut, Crash, Keep
  <2>5. CASE UNCHANGED vars
    BY <2>1, <2>5 DEF vars
  <2>6. QED BY <2>1, <2>2, <2>3, <2>4, <2>5 DEF Next
<1>3. QED
  BY <1>1, <1>2, InductiveInvariance, PTL
  DEF Spec, ImplementsHistory, History!HistSpec

-----------------------------------------------------------------------------
(* What the commands that read make of the rows.                           *)

\* What can be compared is stored and can be read.
LEMMA ResolvedIs ==
  ASSUME NEW ids, NEW content
  PROVE  /\ Resolved(ids, content) =
              {id \in ids : id \in StoredIds /\ content[id] \notin Unreadable}
         /\ \A id \in ids \ Resolved(ids, content) :
              FindById(id, content) = "notFound" <=> id \notin StoredIds
<1>1. \A id : FindById(id, content) = "found" <=>
                id \in StoredIds /\ content[id] \notin Unreadable
  BY DEF FindById
<1>2. \A id : FindById(id, content) = "notFound" <=> id \notin StoredIds
  BY DEF FindById
<1> QED BY <1>1, <1>2 DEF Resolved

\* A row that is stored is found, and is of a known configuration.
LEMMA RowIsStored ==
  ASSUME Inductive, NEW id \in StoredIds PROVE RowOf(id) \in RowSet /\ RowOf(id).id = id
<1>1. rows \in Seq(RowSet)
  BY DEF Inductive, TypeOK
<1>2. PICK i \in DOMAIN rows : rows[i].id = id
  BY DEF StoredIds
<1>3. PICK j : j \in DOMAIN rows /\ rows[j].id = id /\ RowOf(id) = rows[j]
  BY <1>2 DEF RowOf
<1> QED BY <1>1, <1>3

\* What a readable content is normalized to tells what was stored.
LEMMA NormalizedIs ==
  ASSUME NEW c \in Contents \ Unreadable
  PROVE  /\ Normalized(c) = "absent" <=> c = "absent"
         /\ c # "absent" /\ Normalized(c) # Unknown => c \in Categories /\ Normalized(c) = c
BY QueryAssumption DEF Normalized, Contents

\* For any store, any number of revisions to compare and any damage to them.
THEOREM ComparisonHonest == Spec => []ComparisonIsHonest
<1>1. ASSUME Inductive, NEW ids \in SUBSET Ids, NEW content \in [Ids -> Contents]
      PROVE  HonestAbout(ids, content)
  <2> DEFINE good == Resolved(ids, content)
             ref  == CompareReference(good, content)
  <2>1. good = {id \in ids : id \in StoredIds /\ content[id] \notin Unreadable}
    BY <1>1, ResolvedIs
  <2>2. \A id \in good : /\ id \in StoredIds /\ content[id] \in Contents \ Unreadable
                         /\ RowOf(id).name \in Names
    BY <1>1, <2>1, RowIsStored DEF RowSet
  <2>3. {row.id : row \in ListAll(content)} = StoredIds
    <3>1. \A row \in ListAll(content) : row.id \in StoredIds
      BY DEF ListAll
    <3>2. ASSUME NEW id \in StoredIds PROVE \E row \in ListAll(content) : row.id = id
      <4>1. PICK row : row = [id |-> id, name |-> RowOf(id).name, sup |-> RowOf(id).sup,
                              reference |-> IF content[id] \in Unreadable THEN "absent"
                                            ELSE Normalized(content[id])]
        OBVIOUS
      <4>2. row \in ListAll(content)
        BY <4>1 DEF ListAll
      <4>3. row.id = id
        BY <4>1
      <4> QED BY <4>2, <4>3
    <3> QED BY <3>1, <3>2
  <2>4. DOMAIN Failed(ids, content) = ids \ good
        /\ \A id \in ids \ good : Failed(ids, content)[id] = FindById(id, content)
    BY <1>1 DEF Failed
  <2>5. /\ ref.present = {id \in good : content[id] # "absent"}
        /\ ref.missing = {id \in good : content[id] = "absent"}
        /\ ref.status = Agreement({Normalized(content[id]) : id \in ref.present})
    BY <1>1 DEF CompareReference, PresentIn
  <2>6. ASSUME NEW row \in ListAll(content), row.id \in good
        PROVE  row.reference = "absent" <=> row.id \in ref.missing
    <3>1. row.reference = Normalized(content[row.id])
      BY <2>1, <2>6 DEF ListAll
    <3> QED BY <2>2, <2>5, <2>6, <3>1, NormalizedIs
  <2>7. ref.status # "unknown" =>
          \A id \in ref.present : content[id] \in Categories /\ Normalized(content[id]) = content[id]
    BY <2>2, <2>5, NormalizedIs DEF Agreement
  <2>8. ref.status = "same" => \A id, other \in ref.present : content[id] = content[other]
    BY <2>5, <2>7 DEF Agreement
  <2>9. ref.status = "different" => \E id, other \in ref.present : content[id] # content[other]
    BY <2>5, <2>7 DEF Agreement
  <2>10. CompareRevisions(good, content).name = Agreement({RowOf(id).name : id \in good})
    BY DEF CompareRevisions
  <2>11. Unknown \notin {RowOf(id).name : id \in good}
    BY <2>2, QueryAssumption
  <2>12. CompareRevisions(good, content).name = "same" <=>
           \A id, other \in good : RowOf(id).name = RowOf(other).name
    BY <2>10, <2>11 DEF Agreement
  <2>13. \A id \in DOMAIN Failed(ids, content) :
           Failed(ids, content)[id] = "notFound" <=> id \notin StoredIds
    BY <1>1, <2>4, ResolvedIs
  <2>14. CompareRevisions(good, content).reference = ref
    BY DEF CompareRevisions
  <2>15. good \cup DOMAIN Failed(ids, content) = ids /\ ref.present \cup ref.missing = good
    BY <2>1, <2>4, <2>5
  <2> HIDE DEF good, ref
  <2> QED BY <2>3, <2>6, <2>7, <2>8, <2>9, <2>12, <2>13, <2>14, <2>15 DEF HonestAbout, good
<1>2. Inductive => ComparisonIsHonest
  BY <1>1 DEF ComparisonIsHonest
<1> QED BY <1>2, InductiveInvariance, PTL

-----------------------------------------------------------------------------
(* The history of a revision.  Both walks go through the rows one way, so   *)
(* they come to an end before they have taken as many steps as there are    *)
(* rows; what they have found by then is all there is.                      *)

LEMMA Smallest ==
  ASSUME NEW S \in SUBSET Nat, S # {} PROVE \E x \in S : \A y \in S : x <= y
<1> DEFINE R == {e \in Nat \X Nat : e[1] < e[2]}
<1>1. IsWellFoundedOn(R, Nat)
  BY NatLessThanWellFounded DEF OpToRel
<1>2. PICK x \in S : \A y \in S : ~(<<y, x>> \in R)
  BY <1>1, WFMin
<1>3. ASSUME NEW y \in S PROVE x <= y
  <2>1. ~(<<y, x>> \in R)
    BY <1>2
  <2>2. x \in Nat /\ y \in Nat /\ <<y, x>> \in Nat \X Nat
    OBVIOUS
  <2> QED BY <2>1, <2>2
<1> QED BY <1>3

\* A set that a walk enters at its start and never leaves holds its end.
LEMMA Reached ==
  ASSUME NEW n \in Nat, NEW T, 0 \in T, \A k \in 1..n : k - 1 \in T => k \in T
  PROVE  n \in T
<1> SUFFICES ASSUME n \notin T PROVE FALSE
  OBVIOUS
<1> DEFINE S == {k \in 0..n : k \notin T}
<1>1. S \in SUBSET Nat /\ n \in S
  OBVIOUS
<1>2. PICK m \in S : \A y \in S : m <= y
  BY <1>1, Smallest
<1>3. m \in 1..n /\ m - 1 \in 0..n /\ ~(m <= m - 1)
  BY <1>2
<1>4. m - 1 \in T
  BY <1>2, <1>3
<1> QED BY <1>2, <1>3, <1>4

\* Taking a step again and again is a function of the number of steps.
Walks(g, n, S, f, a) ==
  /\ g \in [0..n -> S]
  /\ g = [k \in 0..n |-> IF k = 0 THEN a ELSE f[g[k - 1]]]

LEMMA WalkExists ==
  ASSUME NEW n \in Nat, NEW S, NEW f \in [S -> S], NEW a \in S
  PROVE  \E g : Walks(g, n, S, f, a)
<1> DEFINE T == {m \in Nat : \E g : Walks(g, m, S, f, a)}
<1>1. 0 \in T
  <2>1. Walks([k \in 0..0 |-> a], 0, S, f, a)
    BY DEF Walks
  <2> QED BY <2>1
<1>2. ASSUME NEW m \in 1..n, m - 1 \in T PROVE m \in T
  <2>1. PICK g : Walks(g, m - 1, S, f, a)
    BY <1>2
  <2> DEFINE h == [k \in 0..m |-> IF k = 0 THEN a ELSE f[g[k - 1]]]
  <2>2. \A k \in 0..m : k # 0 => k - 1 \in 0..(m - 1) /\ f[g[k - 1]] \in S
    <3>1. ASSUME NEW k \in 0..m, k # 0 PROVE k - 1 \in 0..(m - 1)
      BY <3>1, <1>2
    <3>2. ASSUME NEW k \in 0..m, k # 0 PROVE f[g[k - 1]] \in S
      BY <2>1, <3>1, <3>2 DEF Walks
    <3> QED BY <3>1, <3>2
  <2>3. h \in [0..m -> S]
    BY <2>2
  <2>4. \A k \in 0..(m - 1) : h[k] = g[k]
    <3>1. ASSUME NEW k \in 0..(m - 1) PROVE k \in 0..m /\ g[k] = IF k = 0 THEN a ELSE f[g[k - 1]]
      BY <1>2, <2>1, <3>1 DEF Walks
    <3> QED BY <3>1
  <2>5. ASSUME NEW k \in 0..m
        PROVE  (IF k = 0 THEN a ELSE f[g[k - 1]]) = IF k = 0 THEN a ELSE f[h[k - 1]]
    BY <2>2, <2>4
  <2>6. h = [k \in 0..m |-> IF k = 0 THEN a ELSE f[h[k - 1]]]
    BY <2>5, Zenon
  <2>7. Walks(h, m, S, f, a)
    BY <2>3, <2>6, Zenon DEF Walks
  <2> HIDE DEF h
  <2>8. m \in Nat
    BY <1>2
  <2> QED BY <2>7, <2>8
<1>3. n \in T
  <2> HIDE DEF T
  <2> QED BY <1>1, <1>2, Reached
<1> QED BY <1>3

\* Where a stored revision is.
Nth(id) == CHOOSE i \in DOMAIN rows : rows[i].id = id

LEMMA StoredRow ==
  ASSUME Inductive, NEW id \in StoredIds
  PROVE  /\ Nth(id) \in 1..Len(rows) /\ RowOf(id) = rows[Nth(id)] /\ RowOf(id).id = id
         /\ id \in Ids /\ id # NoId /\ SupOf(id) \in Ids \cup {NoId}
         /\ \A i \in DOMAIN rows : rows[i].id = id => i = Nth(id)
<1>1. rows \in Seq(RowSet) /\ UniqueIds
  BY DEF Inductive, TypeOK
<1>2. PICK i \in DOMAIN rows : rows[i].id = id
  BY DEF StoredIds
<1>3. Nth(id) \in DOMAIN rows /\ rows[Nth(id)].id = id
  BY <1>2 DEF Nth
<1>4. RowOf(id) = rows[Nth(id)]
  BY DEF RowOf, Nth
<1>5. rows[Nth(id)] \in RowSet /\ DOMAIN rows = 1..Len(rows)
  BY <1>1, <1>3
<1>6. id \in Ids /\ rows[Nth(id)].sup \in Ids \cup {NoId}
  BY <1>3, <1>5 DEF RowSet
<1>7. \A j \in DOMAIN rows : rows[j].id = id => j = Nth(id)
  BY <1>1, <1>3 DEF UniqueIds
<1> QED BY <1>3, <1>4, <1>5, <1>6, <1>7, RevisionAssumption DEF SupOf

LEMMA OlderRow ==
  ASSUME Inductive, NEW id \in StoredIds, SupOf(id) # NoId
  PROVE  /\ SupOf(id) \in StoredIds /\ Nth(SupOf(id)) < Nth(id)
         /\ RowOf(SupOf(id)).name = RowOf(id).name
<1>1. Nth(id) \in DOMAIN rows /\ rows[Nth(id)].sup = SupOf(id) /\ RowOf(id) = rows[Nth(id)]
  BY StoredRow DEF SupOf, Inductive, TypeOK
<1>2. PICK j \in 1..(Nth(id) - 1) :
        rows[j].id = SupOf(id) /\ rows[j].name = rows[Nth(id)].name
  BY <1>1 DEF Inductive, Grounded
<1>3. j \in DOMAIN rows /\ j < Nth(id)
  BY <1>1, StoredRow DEF Inductive, TypeOK
<1>4. SupOf(id) \in StoredIds
  BY <1>2, <1>3 DEF StoredIds
<1>5. Nth(SupOf(id)) = j /\ RowOf(SupOf(id)) = rows[j]
  BY <1>2, <1>3, <1>4, StoredRow
<1> QED BY <1>1, <1>2, <1>3, <1>4, <1>5

LEMMA OneSuccessor ==
  ASSUME Inductive, ~late, NEW x \in StoredIds, NEW y \in StoredIds,
         SupOf(x) = SupOf(y), SupOf(x) # NoId
  PROVE  x = y
<1>1. ~Forked
  BY DEF Inductive, Schema, Forked
<1>2. /\ Nth(x) \in DOMAIN rows /\ rows[Nth(x)].sup = SupOf(x) /\ rows[Nth(x)].id = x
      /\ Nth(y) \in DOMAIN rows /\ rows[Nth(y)].sup = SupOf(y) /\ rows[Nth(y)].id = y
  BY StoredRow DEF SupOf, Inductive, TypeOK
<1>3. Nth(x) = Nth(y)
  BY <1>1, <1>2 DEF Forked
<1> QED BY <1>2, <1>3

\* Part of the history of id, in order.
Line(path, id) ==
  /\ path \in Seq(StoredIds) /\ Len(path) > 0
  /\ \A k \in 1..(Len(path) - 1) : SupOf(path[k + 1]) = path[k]
  /\ \A j, k \in 1..Len(path) : j < k => Nth(path[j]) < Nth(path[k])
  /\ \A k \in 1..Len(path) : RowOf(path[k]).name = RowOf(id).name

LEMMA OneLine == ASSUME NEW id \in StoredIds PROVE Line(<<id>>, id)
BY DEF Line

LEMMA LineIs ==
  ASSUME Inductive, NEW id, NEW path, Line(path, id)
  PROVE  /\ DOMAIN path = 1..Len(path) /\ Len(path) \in Nat \ {0}
         /\ \A k \in 1..Len(path) : path[k] \in StoredIds
         /\ NoId \notin StoredIds
<1>1. NoId \notin StoredIds
  BY StoredRow
<1> QED BY <1>1 DEF Line

LEMMA Backwards ==
  ASSUME Inductive, NEW id, NEW path, Line(path, id), SupOf(path[1]) # NoId
  PROVE  /\ Line(Precede(path), id) /\ Len(Precede(path)) = Len(path) + 1
         /\ Precede(path)[Len(path) + 1] = path[Len(path)]
         /\ Nth(Precede(path)[1]) < Nth(path[1])
<1> DEFINE next == SupOf(path[1])
           longer == <<next>> \o path
<1>1. /\ path \in Seq(StoredIds) /\ Len(path) \in Nat \ {0} /\ DOMAIN path = 1..Len(path)
      /\ \A k \in 1..Len(path) : path[k] \in StoredIds
  BY LineIs DEF Line
<1>2. next \in StoredIds /\ Nth(next) < Nth(path[1]) /\ RowOf(next).name = RowOf(path[1]).name
  BY <1>1, OlderRow
<1>3. \A k \in 1..Len(path) : Nth(next) < Nth(path[k])
  <2> TAKE k \in 1..Len(path)
  <2>1. k = 1 \/ Nth(path[1]) < Nth(path[k])
    BY <1>1 DEF Line
  <2>2. Nth(next) \in Nat /\ Nth(path[1]) \in Nat /\ Nth(path[k]) \in Nat
    BY <1>1, <1>2, StoredRow
  <2> QED BY <1>2, <2>1, <2>2
<1>4. next \notin Range(path)
  <2>1. \A k \in 1..Len(path) : next # path[k]
    <3> TAKE k \in 1..Len(path)
    <3>1. Nth(next) \in Nat /\ Nth(next) < Nth(path[k])
      BY <1>2, <1>3, StoredRow
    <3> QED BY <3>1
  <2> QED BY <1>1, <2>1 DEF Range
<1>5. Precede(path) = longer
  BY <1>2, <1>4 DEF Precede
<1>6. /\ longer \in Seq(StoredIds) /\ Len(longer) = Len(path) + 1 /\ longer[1] = next
      /\ \A k \in 1..Len(path) : longer[k + 1] = path[k]
  <2>1. <<next>> \in Seq(StoredIds) /\ Len(<<next>>) = 1 /\ <<next>>[1] = next
    BY <1>2
  <2> HIDE DEF longer
  <2> QED BY <1>1, <2>1, ConcatProperties DEF longer
<1> HIDE DEF longer, next
<1>7. \A k \in 1..Len(longer) : k = 1 \/ (k - 1 \in 1..Len(path) /\ longer[k] = path[k - 1])
  <2> TAKE k \in 1..Len(longer)
  <2>1. k = 1 \/ k - 1 \in 1..Len(path)
    BY <1>1, <1>6
  <2>2. k - 1 \in 1..Len(path) => longer[(k - 1) + 1] = path[k - 1]
    BY <1>6
  <2> QED BY <2>1, <2>2
<1>8. \A k \in 1..(Len(longer) - 1) : SupOf(longer[k + 1]) = longer[k]
  <2> TAKE k \in 1..(Len(longer) - 1)
  <2>1. k \in 1..Len(path) /\ longer[k + 1] = path[k]
    BY <1>1, <1>6
  <2>2. CASE k = 1
    BY <2>1, <2>2, <1>6 DEF next
  <2>3. CASE k # 1
    <3>1. k - 1 \in 1..(Len(path) - 1) /\ longer[k] = path[k - 1]
      BY <1>1, <1>6, <1>7, <2>1, <2>3
    <3>2. SupOf(path[(k - 1) + 1]) = path[k - 1]
      BY <3>1 DEF Line
    <3> QED BY <2>1, <3>1, <3>2
  <2> QED BY <2>2, <2>3
<1>9. \A j, k \in 1..Len(longer) : j < k => Nth(longer[j]) < Nth(longer[k])
  <2> TAKE j, k \in 1..Len(longer)
  <2> HAVE j < k
  <2>1. k # 1 /\ k - 1 \in 1..Len(path) /\ longer[k] = path[k - 1]
    BY <1>1, <1>6, <1>7
  <2>2. CASE j = 1
    BY <1>3, <1>6, <2>1, <2>2
  <2>3. CASE j # 1
    <3>1. j - 1 \in 1..Len(path) /\ longer[j] = path[j - 1] /\ j - 1 < k - 1
      BY <1>1, <1>6, <1>7, <2>3
    <3> QED BY <2>1, <3>1 DEF Line
  <2> QED BY <2>2, <2>3
<1>10. \A k \in 1..Len(longer) : RowOf(longer[k]).name = RowOf(id).name
  <2> TAKE k \in 1..Len(longer)
  <2>1. RowOf(path[1]).name = RowOf(id).name
    BY <1>1 DEF Line
  <2>2. CASE k = 1
    BY <1>2, <1>6, <2>1, <2>2
  <2>3. CASE k # 1
    BY <1>7, <2>3 DEF Line
  <2> QED BY <2>2, <2>3
<1>11. Line(longer, id)
  BY <1>1, <1>6, <1>8, <1>9, <1>10 DEF Line
<1>12. longer[Len(path) + 1] = path[Len(path)]
  BY <1>1, <1>6
<1> QED BY <1>2, <1>5, <1>6, <1>11, <1>12

LEMMA Forwards ==
  ASSUME Inductive, NEW id, NEW path, Line(path, id),
         NEW other \in StoredIds, SupOf(other) = path[Len(path)]
  PROVE  /\ Line(Follow(path), id) /\ Len(Follow(path)) = Len(path) + 1
         /\ Follow(path)[1] = path[1]
         /\ Nth(path[Len(path)]) < Nth(Follow(path)[Len(path) + 1])
<1> DEFINE n == Len(path)
           next == SuccessorOf(path[n])
           longer == Append(path, next)
<1>1. /\ path \in Seq(StoredIds) /\ n \in Nat \ {0} /\ DOMAIN path = 1..n
      /\ \A k \in 1..n : path[k] \in StoredIds
      /\ NoId \notin StoredIds /\ path[n] \in StoredIds
  BY LineIs DEF Line
<1>2. next \in StoredIds /\ SupOf(next) = path[n]
  BY DEF SuccessorOf
<1>3. Nth(path[n]) < Nth(next) /\ RowOf(next).name = RowOf(path[n]).name
  BY <1>1, <1>2, OlderRow
<1> HIDE DEF next
<1>4. \A k \in 1..n : Nth(path[k]) < Nth(next)
  <2> TAKE k \in 1..n
  <2>1. k = n \/ Nth(path[k]) < Nth(path[n])
    <3>1. n \in 1..n /\ (k = n \/ k < n)
      <4>1. n \in Nat /\ n # 0 /\ k \in 1..n
        BY <1>1
      <4> HIDE DEF n
      <4> QED BY <4>1
    <3> QED BY <3>1 DEF Line
  <2>2. Nth(next) \in Nat /\ Nth(path[n]) \in Nat /\ Nth(path[k]) \in Nat
    BY <1>1, <1>2, StoredRow
  <2> QED BY <1>3, <2>1, <2>2
<1>5. next \notin Range(path)
  <2>1. \A k \in 1..n : next # path[k]
    <3> TAKE k \in 1..n
    <3>1. Nth(next) \in Nat /\ Nth(path[k]) < Nth(next)
      BY <1>2, <1>4, StoredRow
    <3> QED BY <3>1
  <2> QED BY <1>1, <2>1 DEF Range
<1>6. Follow(path) = longer
  BY <1>2, <1>5 DEF Follow, next
<1>7. /\ longer \in Seq(StoredIds) /\ Len(longer) = n + 1 /\ longer[n + 1] = next
      /\ \A k \in 1..n : longer[k] = path[k]
  <2> HIDE DEF longer
  <2> QED BY <1>1, <1>2, AppendProperties DEF longer
<1> HIDE DEF longer
<1>8. \A k \in 1..(Len(longer) - 1) : SupOf(longer[k + 1]) = longer[k]
  <2> TAKE k \in 1..(Len(longer) - 1)
  <2>1. k \in 1..n /\ longer[k] = path[k]
    BY <1>1, <1>7
  <2>2. CASE k = n
    BY <1>2, <1>7, <2>1, <2>2
  <2>3. CASE k # n
    <3>1. k + 1 \in 1..n /\ k \in 1..(n - 1) /\ longer[k + 1] = path[k + 1]
      BY <1>1, <1>7, <2>1, <2>3
    <3> QED BY <2>1, <3>1 DEF Line
  <2> QED BY <2>2, <2>3
<1>9. \A j, k \in 1..Len(longer) : j < k => Nth(longer[j]) < Nth(longer[k])
  <2> TAKE j, k \in 1..Len(longer)
  <2> HAVE j < k
  <2>1. j \in 1..n /\ longer[j] = path[j]
    BY <1>1, <1>7
  <2>2. CASE k = n + 1
    BY <1>4, <1>7, <2>1, <2>2
  <2>3. CASE k # n + 1
    <3>1. k \in 1..n /\ longer[k] = path[k]
      BY <1>1, <1>7, <2>3
    <3> QED BY <2>1, <3>1 DEF Line
  <2> QED BY <2>2, <2>3
<1>10. \A k \in 1..Len(longer) : RowOf(longer[k]).name = RowOf(id).name
  <2> TAKE k \in 1..Len(longer)
  <2>1. RowOf(path[n]).name = RowOf(id).name
    BY <1>1 DEF Line
  <2>2. CASE k = n + 1
    BY <1>3, <1>7, <2>1, <2>2
  <2>3. CASE k # n + 1
    <3>1. k \in 1..n /\ longer[k] = path[k]
      BY <1>1, <1>7, <2>3
    <3> QED BY <3>1 DEF Line
  <2> QED BY <2>2, <2>3
<1>11. Line(longer, id)
  BY <1>1, <1>7, <1>8, <1>9, <1>10 DEF Line
<1> QED BY <1>1, <1>3, <1>6, <1>7, <1>11

\* Backwards, as far as it goes: to a revision that supersedes nothing.
LEMMA WholeWayBack ==
  ASSUME Inductive, NEW id \in StoredIds
  PROVE  LET path == WalkBack(id) IN
         Line(path, id) /\ path[Len(path)] = id /\ SupOf(path[1]) = NoId
<1> DEFINE n == Len(rows)
           S == {path \in Seq(StoredIds) : Line(path, id)}
           f == [path \in S |-> Precede(path)]
           walk == CHOOSE g : g = [k \in 0..n |-> IF k = 0 THEN <<id>> ELSE Precede(g[k - 1])]
<1>1. n \in Nat /\ <<id>> \in S
  BY OneLine DEF Inductive, TypeOK, Line
<1>2. \A path \in S : Precede(path) = path \/ SupOf(path[1]) # NoId
  <2> TAKE path \in S
  <2>1. NoId \notin StoredIds
    BY StoredRow
  <2> QED BY <2>1 DEF Precede
<1>3. f \in [S -> S]
  <2>1. \A path \in S : Precede(path) \in S
    BY <1>2, Backwards DEF Line
  <2> QED BY <2>1
<1>4. /\ \A k \in 0..n : walk[k] \in S
      /\ walk[0] = <<id>> /\ \A k \in 1..n : walk[k] = Precede(walk[k - 1])
  <2>1. PICK g : Walks(g, n, S, f, <<id>>)
    <3> HIDE DEF f, S, n, walk
    <3> QED BY <1>1, <1>3, WalkExists
  <2>2. \A k \in 0..n : k # 0 => k - 1 \in 0..n /\ f[g[k - 1]] = Precede(g[k - 1])
    <3>1. ASSUME NEW k \in 0..n, k # 0 PROVE k - 1 \in 0..n
      BY <1>1, <3>1
    <3>2. \A k \in 0..n : g[k] \in S
      <4> HIDE DEF S
      <4> QED BY <2>1 DEF Walks
    <3> HIDE DEF S
    <3> QED BY <3>1, <3>2
  <2>3. g = [k \in 0..n |-> IF k = 0 THEN <<id>> ELSE Precede(g[k - 1])]
    <3>1. \A k \in 0..n : (IF k = 0 THEN <<id>> ELSE f[g[k - 1]]) =
                          IF k = 0 THEN <<id>> ELSE Precede(g[k - 1])
      BY <2>2
    <3> HIDE DEF f, S, n
    <3> QED BY <2>1, <3>1, Zenon DEF Walks
  <2>4. walk = [k \in 0..n |-> IF k = 0 THEN <<id>> ELSE Precede(walk[k - 1])]
    <3> HIDE DEF f, S, n
    <3> QED BY <2>3, Zenon
  <2> DEFINE T == {k \in 0..n : walk[k] \in S}
  <2> HIDE DEF walk
  <2>5. walk[0] = <<id>> /\ \A k \in 1..n : walk[k] = Precede(walk[k - 1])
    BY <1>1, <2>4
  <2>6. \A k \in 0..n : walk[k] \in S
    <3> SUFFICES ASSUME NEW m \in 0..n PROVE m \in T
      OBVIOUS
    <3>1. 0 \in T
      <4>1. 0 \in 0..n
        BY <1>1
      <4> HIDE DEF n, S
      <4> QED BY <1>1, <2>5, <4>1
    <3>2. \A k \in 1..m : k - 1 \in T => k \in T
      <4> TAKE k \in 1..m
      <4> HAVE k - 1 \in T
      <4>1. walk[k - 1] \in S /\ k \in 0..n /\ k \in 1..n
        BY <1>1
      <4>2. Precede(walk[k - 1]) \in S
        BY <1>3, <4>1
      <4> QED BY <2>5, <4>1, <4>2
    <3>3. m \in Nat
      BY <1>1
    <3> HIDE DEF T
    <3> QED BY <3>1, <3>2, <3>3, Reached
  <2> QED BY <2>5, <2>6
<1> HIDE DEF walk, f
<1> DEFINE T == {k \in 0..n : /\ walk[k][Len(walk[k])] = id
                              /\ SupOf(walk[k][1]) = NoId \/ Nth(walk[k][1]) + k <= n}
<1>5. \A path \in S : Line(path, id) /\ Len(path) \in Nat \ {0} /\ path[1] \in StoredIds
  BY LineIs
<1>6. 0 \in T
  <2>1. 0 \in 0..n /\ Nth(id) + 0 <= n
    BY <1>1, StoredRow
  <2>2. walk[0][Len(walk[0])] = id /\ walk[0][1] = id
    BY <1>4
  <2> HIDE DEF n, S
  <2> QED BY <2>1, <2>2
<1>7. \A k \in 1..n : k - 1 \in T => k \in T
  <2> TAKE k \in 1..n
  <2> HAVE k - 1 \in T
  <2> DEFINE path == walk[k - 1]
  <2>1. /\ k - 1 \in 0..n /\ path \in S /\ path[Len(path)] = id
        /\ SupOf(path[1]) = NoId \/ Nth(path[1]) + (k - 1) <= n
        /\ walk[k] = Precede(path) /\ k \in 0..n
    BY <1>1, <1>4
  <2> HIDE DEF path
  <2>2. CASE SupOf(path[1]) = NoId
    BY <1>2, <2>1, <2>2
  <2>3. CASE SupOf(path[1]) # NoId
    <3>1. /\ Line(Precede(path), id) /\ Len(Precede(path)) = Len(path) + 1
          /\ Precede(path)[Len(path) + 1] = path[Len(path)]
          /\ Nth(Precede(path)[1]) < Nth(path[1])
      BY <1>5, <2>1, <2>3, Backwards
    <3>2. Precede(path)[1] \in StoredIds /\ path[1] \in StoredIds
      BY <1>5, <2>1, <3>1, LineIs
    <3>3. Nth(Precede(path)[1]) \in Nat /\ Nth(path[1]) \in Nat
      BY <3>2, StoredRow
    <3>4. Nth(Precede(path)[1]) + k <= n
      BY <1>1, <2>1, <2>3, <3>1, <3>3
    <3> QED BY <2>1, <3>1, <3>4
  <2> QED BY <2>2, <2>3
<1>8. n \in T
  <2> HIDE DEF T, n
  <2> QED BY <1>1, <1>6, <1>7, Reached
<1>9. walk[n] \in S
  BY <1>1, <1>4
<1>10. SupOf(walk[n][1]) = NoId
  <2>1. Nth(walk[n][1]) \in 1..n
    BY <1>5, <1>9, StoredRow
  <2> QED BY <1>1, <1>8, <2>1
<1>11. WalkBack(id) = walk[n]
  BY DEF WalkBack, walk
<1> QED BY <1>5, <1>8, <1>9, <1>10, <1>11

\* Forwards, as far as it goes: to a revision that nothing supersedes.
LEMMA WholeWayOn ==
  ASSUME Inductive, NEW id \in StoredIds
  PROVE  LET path == WalkOn(id) IN
         /\ Line(path, id) /\ path[1] = id
         /\ \A other \in StoredIds : SupOf(other) # path[Len(path)]
<1> DEFINE n == Len(rows)
           S == {path \in Seq(StoredIds) : Line(path, id)}
           f == [path \in S |-> Follow(path)]
           walk == CHOOSE g : g = [k \in 0..n |-> IF k = 0 THEN <<id>> ELSE Follow(g[k - 1])]
<1>1. n \in Nat /\ <<id>> \in S
  BY OneLine DEF Inductive, TypeOK, Line
<1>2. \A path \in S : \/ Follow(path) = path /\ \A other \in StoredIds : SupOf(other) # path[Len(path)]
                      \/ \E other \in StoredIds : SupOf(other) = path[Len(path)]
  <2> TAKE path \in S
  <2>1. NoId \notin StoredIds
    BY StoredRow
  <2> QED BY <2>1 DEF Follow, SuccessorOf
<1>3. f \in [S -> S]
  <2>1. \A path \in S : Follow(path) \in S
    BY <1>2, Forwards DEF Line
  <2> QED BY <2>1
<1>4. /\ \A k \in 0..n : walk[k] \in S
      /\ walk[0] = <<id>> /\ \A k \in 1..n : walk[k] = Follow(walk[k - 1])
  <2>1. PICK g : Walks(g, n, S, f, <<id>>)
    <3> HIDE DEF f, S, n, walk
    <3> QED BY <1>1, <1>3, WalkExists
  <2>2. \A k \in 0..n : k # 0 => k - 1 \in 0..n /\ f[g[k - 1]] = Follow(g[k - 1])
    <3>1. ASSUME NEW k \in 0..n, k # 0 PROVE k - 1 \in 0..n
      BY <1>1, <3>1
    <3>2. \A k \in 0..n : g[k] \in S
      <4> HIDE DEF S
      <4> QED BY <2>1 DEF Walks
    <3> HIDE DEF S
    <3> QED BY <3>1, <3>2
  <2>3. g = [k \in 0..n |-> IF k = 0 THEN <<id>> ELSE Follow(g[k - 1])]
    <3>1. \A k \in 0..n : (IF k = 0 THEN <<id>> ELSE f[g[k - 1]]) =
                          IF k = 0 THEN <<id>> ELSE Follow(g[k - 1])
      BY <2>2
    <3> HIDE DEF f, S, n
    <3> QED BY <2>1, <3>1, Zenon DEF Walks
  <2>4. walk = [k \in 0..n |-> IF k = 0 THEN <<id>> ELSE Follow(walk[k - 1])]
    <3> HIDE DEF f, S, n
    <3> QED BY <2>3, Zenon
  <2> DEFINE T == {k \in 0..n : walk[k] \in S}
  <2> HIDE DEF walk
  <2>5. walk[0] = <<id>> /\ \A k \in 1..n : walk[k] = Follow(walk[k - 1])
    BY <1>1, <2>4
  <2>6. \A k \in 0..n : walk[k] \in S
    <3> SUFFICES ASSUME NEW m \in 0..n PROVE m \in T
      OBVIOUS
    <3>1. 0 \in T
      <4>1. 0 \in 0..n
        BY <1>1
      <4> HIDE DEF n, S
      <4> QED BY <1>1, <2>5, <4>1
    <3>2. \A k \in 1..m : k - 1 \in T => k \in T
      <4> TAKE k \in 1..m
      <4> HAVE k - 1 \in T
      <4>1. walk[k - 1] \in S /\ k \in 0..n /\ k \in 1..n
        BY <1>1
      <4>2. Follow(walk[k - 1]) \in S
        BY <1>3, <4>1
      <4> QED BY <2>5, <4>1, <4>2
    <3>3. m \in Nat
      BY <1>1
    <3> HIDE DEF T
    <3> QED BY <3>1, <3>2, <3>3, Reached
  <2> QED BY <2>5, <2>6
<1> HIDE DEF walk, f
<1> DEFINE Over(path) == \A other \in StoredIds : SupOf(other) # path[Len(path)]
           T == {k \in 0..n : /\ walk[k][1] = id
                              /\ Over(walk[k]) \/ Nth(walk[k][Len(walk[k])]) > k}
<1>5. \A path \in S : Line(path, id) /\ Len(path) \in Nat \ {0} /\ path[Len(path)] \in StoredIds
  BY LineIs
<1>6. 0 \in T
  <2>1. 0 \in 0..n /\ Nth(id) > 0
    BY <1>1, StoredRow
  <2>2. walk[0][Len(walk[0])] = id /\ walk[0][1] = id
    BY <1>4
  <2> HIDE DEF n, S
  <2> QED BY <2>1, <2>2
<1>7. \A k \in 1..n : k - 1 \in T => k \in T
  <2> TAKE k \in 1..n
  <2> HAVE k - 1 \in T
  <2> DEFINE path == walk[k - 1]
  <2>1. /\ k - 1 \in 0..n /\ path \in S /\ path[1] = id
        /\ Over(path) \/ Nth(path[Len(path)]) > k - 1
        /\ walk[k] = Follow(path) /\ k \in 0..n
    BY <1>1, <1>4
  <2> HIDE DEF path
  <2>2. CASE Over(path)
    <3>1. Follow(path) = path
      BY <1>2, <2>1, <2>2
    <3> HIDE DEF Over
    <3> QED BY <2>1, <2>2, <3>1
  <2>3. CASE ~Over(path)
    <3>1. /\ Line(Follow(path), id) /\ Len(Follow(path)) = Len(path) + 1
          /\ Follow(path)[1] = path[1]
          /\ Nth(path[Len(path)]) < Nth(Follow(path)[Len(path) + 1])
      BY <1>5, <2>1, <2>3, Forwards
    <3>2. Follow(path)[Len(path) + 1] \in StoredIds /\ path[Len(path)] \in StoredIds
      <4>1. Len(path) + 1 \in 1..Len(Follow(path))
        BY <1>5, <2>1, <3>1
      <4> QED BY <1>5, <2>1, <3>1, <4>1, LineIs
    <3>3. Nth(Follow(path)[Len(path) + 1]) \in Nat /\ Nth(path[Len(path)]) \in Nat
      BY <3>2, StoredRow
    <3>4. Nth(walk[k][Len(walk[k])]) > k
      <4>1. Nth(path[Len(path)]) > k - 1
        BY <2>1, <2>3
      <4> QED BY <1>1, <2>1, <3>1, <3>3, <4>1
    <3> HIDE DEF Over
    <3> QED BY <2>1, <3>1, <3>4
  <2> QED BY <2>2, <2>3
<1>8. n \in T
  <2> HIDE DEF T, n
  <2> QED BY <1>1, <1>6, <1>7, Reached
<1>9. walk[n] \in S
  BY <1>1, <1>4
<1>10. Over(walk[n])
  <2>1. Nth(walk[n][Len(walk[n])]) \in 1..n
    BY <1>5, <1>9, StoredRow
  <2> HIDE DEF Over
  <2> QED BY <1>1, <1>8, <2>1
<1>11. WalkOn(id) = walk[n]
  BY DEF WalkOn, walk
<1> QED BY <1>5, <1>8, <1>9, <1>10, <1>11

\* The two walks meet in the revision that was asked for.
LEMMA ChainIs ==
  ASSUME Inductive, NEW id \in StoredIds
  PROVE  LET back  == WalkBack(id)
             ahead == WalkOn(id)
             chain == Chain(id)
         IN
         /\ Predecessors(id) \o <<id>> = back
         /\ chain \in Seq(StoredIds) /\ Len(chain) = Len(back) + Len(ahead) - 1
         /\ \A k \in 1..Len(back) : chain[k] = back[k]
         /\ \A k \in 1..Len(ahead) : chain[Len(back) + k - 1] = ahead[k]
<1> DEFINE back  == WalkBack(id)
           ahead == WalkOn(id)
           m == Len(back)
           n == Len(ahead)
<1>1. /\ back \in Seq(StoredIds) /\ m \in Nat \ {0} /\ back[m] = id
      /\ ahead \in Seq(StoredIds) /\ n \in Nat \ {0} /\ ahead[1] = id
  BY WholeWayBack, WholeWayOn, LineIs DEF Line
<1> HIDE DEF back, ahead
<1>2. /\ Predecessors(id) \in Seq(StoredIds) /\ Len(Predecessors(id)) = m - 1
      /\ \A k \in 1..(m - 1) : Predecessors(id)[k] = back[k]
  <2>1. Predecessors(id) = SubSeq(back, 1, m - 1)
    BY DEF Predecessors, back
  <2>2. \A k \in 1..(m - 1) : back[k] \in StoredIds
    BY <1>1
  <2>3. m - 1 \in Int /\ 1 \in Int
    BY <1>1
  <2>4. /\ SubSeq(back, 1, m - 1) \in Seq(StoredIds)
        /\ Len(SubSeq(back, 1, m - 1)) = IF 1 <= m - 1 THEN m - 1 - 1 + 1 ELSE 0
        /\ \A i \in 1..(m - 1 - 1 + 1) : SubSeq(back, 1, m - 1)[i] = back[1 + i - 1]
    BY <2>2, <2>3, SubSeqProperties
  <2>5. Len(SubSeq(back, 1, m - 1)) = m - 1
    <3>1. m \in Nat /\ m # 0
      BY <1>1
    <3> HIDE DEF m
    <3> QED BY <2>4, <3>1
  <2>6. ASSUME NEW k \in 1..(m - 1) PROVE SubSeq(back, 1, m - 1)[k] = back[k]
    <3>1. m \in Nat /\ m # 0
      BY <1>1
    <3> HIDE DEF m
    <3>2. k \in 1..(m - 1 - 1 + 1) /\ 1 + k - 1 = k
      BY <3>1
    <3> QED BY <2>4, <3>2
  <2> QED BY <2>1, <2>4, <2>5, <2>6
<1>3. <<id>> \in Seq(StoredIds) /\ Len(<<id>>) = 1 /\ <<id>>[1] = id
  OBVIOUS
<1> DEFINE left == Predecessors(id) \o <<id>>
<1>4. /\ left \in Seq(StoredIds) /\ Len(left) = m
      /\ \A k \in 1..m : left[k] = back[k]
  <2>1. /\ left \in Seq(StoredIds) /\ Len(left) = Len(Predecessors(id)) + Len(<<id>>)
        /\ \A i \in 1..(Len(Predecessors(id)) + Len(<<id>>)) :
             left[i] = IF i <= Len(Predecessors(id)) THEN Predecessors(id)[i]
                       ELSE <<id>>[i - Len(Predecessors(id))]
    BY <1>2, <1>3, ConcatProperties
  <2> HIDE DEF left
  <2>2. Len(left) = m
    BY <1>1, <1>2, <1>3, <2>1
  <2>3. ASSUME NEW k \in 1..m PROVE left[k] = back[k]
    <3>1. CASE k = m
      BY <1>1, <1>2, <1>3, <2>1, <3>1
    <3>2. CASE k # m
      <4>1. k \in 1..(m - 1)
        BY <1>1, <3>2
      <4> QED BY <1>1, <1>2, <1>3, <2>1, <4>1
    <3> QED BY <3>1, <3>2
  <2> QED BY <2>1, <2>2, <2>3
<1>5. left = back
  <2> HIDE DEF left
  <2> QED BY <1>1, <1>4, SeqEqual
<1> HIDE DEF left
<1>6. /\ Successors(id) \in Seq(StoredIds) /\ Len(Successors(id)) = n - 1
      /\ \A k \in 1..(n - 1) : Successors(id)[k] = ahead[k + 1]
  <2>1. Successors(id) = Tail(ahead) /\ ahead # <<>>
    BY <1>1 DEF Successors, ahead
  <2> QED BY <1>1, <2>1, HeadTailProperties
<1>7. Chain(id) = left \o Successors(id)
  BY DEF Chain, left
<1>8. /\ Chain(id) \in Seq(StoredIds) /\ Len(Chain(id)) = m + (n - 1)
      /\ \A i \in 1..(m + (n - 1)) : Chain(id)[i] = IF i <= m THEN left[i] ELSE Successors(id)[i - m]
  <2>1. /\ left \o Successors(id) \in Seq(StoredIds)
        /\ Len(left \o Successors(id)) = Len(left) + Len(Successors(id))
        /\ \A i \in 1..(Len(left) + Len(Successors(id))) :
             (left \o Successors(id))[i] = IF i <= Len(left) THEN left[i]
                                           ELSE Successors(id)[i - Len(left)]
    <3>1. left \in Seq(StoredIds) /\ Successors(id) \in Seq(StoredIds)
      BY <1>4, <1>6
    <3> QED BY <3>1, ConcatProperties
  <2>2. Len(left) = m /\ Len(Successors(id)) = n - 1
    BY <1>4, <1>6
  <2> HIDE DEF m, n
  <2> QED BY <1>7, <2>1, <2>2
<1>9. \A k \in 1..m : Chain(id)[k] = back[k]
  <2> TAKE k \in 1..m
  <2>1. k \in 1..(m + (n - 1)) /\ k <= m
    BY <1>1
  <2> QED BY <1>4, <1>8, <2>1
<1>10. \A k \in 1..n : Chain(id)[m + k - 1] = ahead[k]
  <2> TAKE k \in 1..n
  <2>1. CASE k = 1
    <3>1. m \in 1..m /\ m + k - 1 = m
      BY <1>1, <2>1
    <3> QED BY <1>1, <1>9, <2>1, <3>1
  <2>2. CASE k # 1
    <3>1. /\ k - 1 \in 1..(n - 1) /\ m + k - 1 \in 1..(m + (n - 1)) /\ ~(m + k - 1 <= m)
          /\ (m + k - 1) - m = k - 1 /\ (k - 1) + 1 = k
      BY <1>1, <2>2
    <3>2. Successors(id)[k - 1] = ahead[k]
      BY <1>6, <3>1
    <3>3. Chain(id)[m + k - 1] = Successors(id)[(m + k - 1) - m]
      BY <1>8, <3>1
    <3> QED BY <3>1, <3>2, <3>3
  <2> QED BY <2>1, <2>2
<1>11. m + (n - 1) = m + n - 1
  BY <1>1
<1> QED BY <1>5, <1>8, <1>9, <1>10, <1>11 DEF left, back, ahead

\* Whoever looks at any revision of a configuration sees its whole history.
THEOREM HistoryIsShown == Spec => []ChainIsWhole
<1>1. ASSUME Inductive, ~late, NEW id \in StoredIds
      PROVE  LET chain == Chain(id) IN
             /\ DanglingPredecessor(id) = NoId /\ SupOf(chain[1]) = NoId
             /\ IsInjective(chain)
             /\ \A k \in 1..(Len(chain) - 1) : SupOf(chain[k + 1]) = chain[k]
             /\ \A other \in StoredIds : SupOf(other) \in Range(chain) => other \in Range(chain)
             /\ \A other \in Range(chain) : RowOf(other).name = RowOf(id).name
  <2> DEFINE back  == WalkBack(id)
             ahead == WalkOn(id)
             chain == Chain(id)
             m == Len(back)
             n == Len(ahead)
  <2>1. /\ Line(back, id) /\ back[m] = id /\ SupOf(back[1]) = NoId
        /\ Line(ahead, id) /\ ahead[1] = id
        /\ \A other \in StoredIds : SupOf(other) # ahead[n]
    BY <1>1, WholeWayBack, WholeWayOn
  <2>2. /\ m \in Nat /\ m # 0 /\ n \in Nat /\ n # 0
        /\ \A k \in 1..m : back[k] \in StoredIds /\ Nth(back[k]) \in Nat
        /\ \A k \in 1..n : ahead[k] \in StoredIds /\ Nth(ahead[k]) \in Nat
        /\ NoId \notin StoredIds
    BY <1>1, <2>1, LineIs, StoredRow
  <2>3. /\ Predecessors(id) \o <<id>> = back
        /\ DOMAIN chain = 1..Len(chain) /\ Len(chain) = m + n - 1
        /\ \A k \in 1..m : chain[k] = back[k]
        /\ \A k \in 1..n : chain[m + k - 1] = ahead[k]
    <3>1. chain \in Seq(StoredIds)
      BY <1>1, ChainIs
    <3>2. DOMAIN chain = 1..Len(chain)
      BY <3>1
    <3> QED BY <1>1, <3>2, ChainIs, Zenon
  <2>4. /\ \A k \in 1..(m - 1) : SupOf(back[k + 1]) = back[k]
        /\ \A j, k \in 1..m : j < k => Nth(back[j]) < Nth(back[k])
        /\ \A k \in 1..m : RowOf(back[k]).name = RowOf(id).name
        /\ \A k \in 1..(n - 1) : SupOf(ahead[k + 1]) = ahead[k]
        /\ \A j, k \in 1..n : j < k => Nth(ahead[j]) < Nth(ahead[k])
        /\ \A k \in 1..n : RowOf(ahead[k]).name = RowOf(id).name
    BY <2>1 DEF Line
  <2>5. DanglingPredecessor(id) = NoId
    BY <2>1, <2>2, <2>3 DEF DanglingPredecessor
  <2> HIDE DEF back, ahead, chain, m, n
  <2>6. \A i \in 1..Len(chain) :
          \/ i \in 1..m /\ chain[i] = back[i]
          \/ i - m + 1 \in 2..n /\ chain[i] = ahead[i - m + 1]
    <3> TAKE i \in 1..Len(chain)
    <3>1. i \in 1..m \/ i - m + 1 \in 2..n
      BY <2>2, <2>3
    <3>2. i - m + 1 \in 2..n => i - m + 1 \in 1..n /\ m + (i - m + 1) - 1 = i
      BY <2>2, <2>3
    <3>3. i - m + 1 \in 2..n => chain[i] = ahead[i - m + 1]
      BY <2>3, <3>2
    <3> QED BY <2>3, <3>1, <3>3
  <2>7. SupOf(chain[1]) = NoId
    <3>1. 1 \in 1..m
      BY <2>2
    <3> QED BY <2>1, <2>3, <3>1
  <2>8. /\ \A k \in 1..Len(chain) : /\ chain[k] \in StoredIds /\ Nth(chain[k]) \in Nat
                                    /\ RowOf(chain[k]).name = RowOf(id).name
        /\ \A k \in 1..(Len(chain) - 1) : SupOf(chain[k + 1]) = chain[k]
    <3>1. ASSUME NEW k \in 1..Len(chain)
          PROVE  /\ chain[k] \in StoredIds /\ Nth(chain[k]) \in Nat
                 /\ RowOf(chain[k]).name = RowOf(id).name
      <4>1. CASE k \in 1..m /\ chain[k] = back[k]
        BY <2>2, <2>4, <4>1
      <4>2. CASE k - m + 1 \in 2..n /\ chain[k] = ahead[k - m + 1]
        <5>1. k - m + 1 \in 1..n
          BY <2>2, <4>2
        <5> QED BY <2>2, <2>4, <4>2, <5>1
      <4> QED BY <2>6, <4>1, <4>2
    <3>2. ASSUME NEW k \in 1..(Len(chain) - 1) PROVE SupOf(chain[k + 1]) = chain[k]
      <4>1. CASE k \in 1..(m - 1)
        <5>1. k \in 1..m /\ k + 1 \in 1..m
          BY <2>2, <4>1
        <5> QED BY <2>3, <2>4, <4>1, <5>1
      <4>2. CASE k \notin 1..(m - 1)
        <5>1. /\ k - m + 1 \in 1..(n - 1) /\ (k - m + 1) \in 1..n /\ (k - m + 1) + 1 \in 1..n
              /\ m + (k - m + 1) - 1 = k /\ m + ((k - m + 1) + 1) - 1 = k + 1
          <6>1. m \in Nat /\ m # 0 /\ n \in Nat /\ k \in Nat /\ m <= k /\ k + 1 <= m + n - 1
            BY <2>2, <2>3, <4>2
          <6> QED BY <6>1
        <5>2. chain[k] = ahead[k - m + 1] /\ chain[k + 1] = ahead[(k - m + 1) + 1]
          BY <2>3, <5>1
        <5> QED BY <2>4, <5>1, <5>2
      <4> QED BY <4>1, <4>2
    <3> QED BY <3>1, <3>2
  <2>9. ASSUME NEW i \in 1..Len(chain), NEW j \in 1..Len(chain), i < j
        PROVE  Nth(chain[i]) < Nth(chain[j])
    <3>1. 1 \in 1..n /\ m \in 1..m
      BY <2>2
    <3>2. CASE j \in 1..m
      <4>1. i \in 1..m
        BY <2>2, <2>9, <3>2
      <4> QED BY <2>3, <2>4, <2>9, <3>2, <4>1
    <3>3. CASE i \notin 1..m
      <4>1. /\ i - m + 1 \in 1..n /\ j - m + 1 \in 1..n /\ i - m + 1 < j - m + 1
            /\ m + (i - m + 1) - 1 = i /\ m + (j - m + 1) - 1 = j
        <5>1. m \in Nat /\ n \in Nat /\ i \in Nat /\ j \in Nat /\ m < i /\ i < j /\ j <= m + n - 1
          BY <2>2, <2>3, <2>9, <3>3
        <5> QED BY <5>1
      <4>2. chain[i] = ahead[i - m + 1] /\ chain[j] = ahead[j - m + 1]
        BY <2>3, <4>1
      <4> QED BY <2>4, <4>1, <4>2
    <3>4. CASE i \in 1..m /\ j \notin 1..m
      <4>1. j - m + 1 \in 1..n /\ 1 < j - m + 1 /\ m + (j - m + 1) - 1 = j /\ (i = m \/ i < m)
        BY <2>2, <2>3, <2>9, <3>4
      <4>2. chain[i] = back[i] /\ chain[j] = ahead[j - m + 1]
        BY <2>3, <3>4, <4>1
      <4>3. Nth(ahead[1]) < Nth(ahead[j - m + 1])
        BY <2>4, <3>1, <4>1
      <4>4. i = m \/ Nth(back[i]) < Nth(back[m])
        BY <2>4, <3>1, <3>4, <4>1
      <4>5. Nth(back[i]) \in Nat /\ Nth(back[m]) \in Nat /\ Nth(ahead[j - m + 1]) \in Nat
        BY <2>2, <3>1, <3>4, <4>1
      <4> QED BY <2>1, <4>2, <4>3, <4>4, <4>5
    <3> QED BY <3>2, <3>3, <3>4
  <2>10. IsInjective(chain)
    <3>1. ASSUME NEW i \in 1..Len(chain), NEW j \in 1..Len(chain), chain[i] = chain[j]
          PROVE  i = j
      <4>1. Nth(chain[i]) \in Nat /\ (i < j \/ i = j \/ j < i)
        BY <2>2, <2>3, <2>8
      <4> QED BY <2>9, <3>1, <4>1
    <3> QED BY <2>3, <3>1 DEF IsInjective
  <2>11. ASSUME NEW other \in StoredIds, SupOf(other) \in Range(chain)
         PROVE  other \in Range(chain)
    <3>1. PICK k \in 1..Len(chain) : SupOf(other) = chain[k]
      BY <2>3, <2>11 DEF Range
    <3>2. CASE k = Len(chain)
      <4>1. n \in 1..n /\ m + n - 1 = k
        BY <2>2, <2>3, <3>2
      <4> QED BY <2>1, <2>3, <3>1, <4>1
    <3>3. CASE k # Len(chain)
      <4>1. k \in 1..(Len(chain) - 1) /\ k + 1 \in 1..Len(chain)
        BY <2>2, <2>3, <3>3
      <4>2. SupOf(chain[k + 1]) = SupOf(other) /\ SupOf(other) # NoId /\ chain[k + 1] \in StoredIds
        BY <2>2, <2>8, <3>1, <4>1
      <4>3. other = chain[k + 1]
        BY <1>1, <4>2, OneSuccessor
      <4> QED BY <2>3, <4>1, <4>3 DEF Range
    <3> QED BY <3>2, <3>3
  <2>12. \A other \in Range(chain) : RowOf(other).name = RowOf(id).name
    BY <2>3, <2>8 DEF Range
  <2> QED BY <2>5, <2>7, <2>8, <2>10, <2>11, <2>12 DEF chain
<1>2. Inductive => ChainIsWhole
  BY <1>1 DEF ChainIsWhole
<1> QED BY <1>2, InductiveInvariance, PTL
=============================================================================
