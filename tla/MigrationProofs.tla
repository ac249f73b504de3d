---------------------------- MODULE MigrationProofs ----------------------------
(***************************************************************************)
(* Proofs about Migration, for any runs, files and bounds.                 *)
(***************************************************************************)
EXTENDS Migration, TLAPS

-----------------------------------------------------------------------------
(* Why a checkpoint is honest.  The installer never places a version again *)
(* that it has replaced.  Once a run has seen the receipt of version v,    *)
(* version v has been on disk as a whole, or a file that the run has still *)
(* to look at has left version v for good, and the run will refuse it.     *)

Noted(p) ==
  proc[p].pc \in Reading => \A v \in Versions : Own(v) => v \in whole.own[p]

Honest(p) ==
  LET r == proc[p] IN
  \/ r.v \in whole.own[p]
  \/ \E f \in r.left \ Shared : file[f].v # r.v

Reads(p) ==
  LET r == proc[p] IN
  \/ r.at = Receipt /\ r.left = Files
  \/ r.at \in r.left /\ r.v \in Versions /\ r.v <= current /\ Honest(p)

InImport(p) ==
  LET r == proc[p] IN
  /\ Noted(p)
  /\ r.pc = "idle" => r.at = Receipt /\ r.left = Files
  /\ r.pc \in Reading => Reads(p)
  /\ r.pc \in {"idle", "imported"} \cup Reading => r.asked = 0
  /\ r.pc \in {"imported"} \cup Applying => r.v \in whole.own[p]
  /\ answer[p] # "none" => r.pc = "done"
  /\ answer[p] = "imported" => r.v \in Versions

OnDisk ==
  /\ file[Receipt].v <= current
  /\ legacy # "idle" => current < MaxVersion

-----------------------------------------------------------------------------
(* Why the journal is right.  Start lets one run of a migration through,   *)
(* and nothing makes the operation startable again: that run alone records *)
(* it, and alone writes its version to the row.                            *)

Recording == {"lookup", "upsert", "readback", "cleanup", "written", "finish"}

\* What the only run that records knows.
InRecord(p) ==
  LET r == proc[p] IN
  /\ r.pc \in Applying => r.asked = r.v
  /\ r.pc \in Recording =>
       /\ opPhase[r.v] = "applying"
       /\ step[r.v] = IF r.pc = "finish" THEN "succeeded" ELSE "pending"
       /\ \A q \in Runs \ {p} : proc[q].pc \in Recording => proc[q].v # r.v
  /\ r.pc \in {"lookup", "upsert"} => row # r.v
  /\ r.pc = "upsert" => row # OldRow
  /\ r.pc \in {"readback", "written", "finish"} => row = r.v
  /\ r.pc = "cleanup" =>
       /\ r.why \in {"invalid", "io-failure", "already-present"}
       /\ r.why = "already-present" => row \in Versions \ {r.v}
       /\ row = r.v => budget.faults < MaxFaults

\* Until it is started, a migration is nowhere.
Unstarted(v) ==
  opPhase[v] \in {"none", "prepared"} => row # v /\ step[v] = "pending"

OwnAtOnce ==
  \A p \in Runs : proc[p].asked # 0 \/ answer[p] = "planned" =>
    proc[p].v \in whole.own[p]

ImportInv == OnDisk /\ (\A p \in Runs : InImport(p)) /\ OwnAtOnce

RecordInv ==
  /\ \A p \in Runs : InRecord(p)
  /\ \A v \in Versions : Unstarted(v)
  /\ OutcomesAreTrue

Inductive == TypeOK /\ ImportInv /\ RecordInv

-----------------------------------------------------------------------------
(* What a step of one run leaves of the others.                            *)

LEMMA Labelled ==
  /\ Reading \subseteq Labels /\ Applying \subseteq Labels
  /\ Recording \subseteq Applying /\ Reading \cap Applying = {}
BY DEF Reading, Applying, Recording, Labels

\* The import part of the invariant, for a run that is past its import.
LEMMA Onward ==
  ASSUME TypeOK, ImportInv, NEW p \in Runs, NEW r \in RunState,
         proc[p].v \in whole.own[p], r.v = proc[p].v,
         r.pc \in Applying \cup {"done"},
         proc' = [proc EXCEPT ![p] = r],
         \/ answer' = answer /\ answer[p] = "none"
         \/ r.pc = "done" /\ \E a \in Answers : answer' = [answer EXCEPT ![p] = a],
         UNCHANGED <<disk, whole>>
  PROVE  ImportInv'
<1> USE DEF ImportInv, disk
<1>1. /\ proc \in [Runs -> RunState] /\ answer \in [Runs -> Answers]
      /\ whole.own \in [Runs -> SUBSET Versions]
  BY DEF TypeOK, RunState
<1>2. /\ proc'[p] = r
      /\ \A q \in Runs \ {p} : proc'[q] = proc[q] /\ answer'[q] = answer[q]
      /\ answer'[p] # "none" => r.pc = "done"
  BY <1>1
<1>3. OnDisk'
  BY DEF OnDisk
<1>4. ASSUME NEW q \in Runs PROVE InImport(q)'
  <2>1. CASE q = p
    BY <1>1, <1>2, <2>1 DEF InImport, Noted, Applying, Reading
  <2>2. CASE q # p
    BY <1>2, <2>2 DEF InImport, Noted, Reads, Honest, Own
  <2> QED BY <2>1, <2>2
<1>5. OwnAtOnce'
  BY <1>1, <1>2 DEF OwnAtOnce
<1> QED BY <1>3, <1>4, <1>5

\* The recording part, for a run that stays outside of the recording.
LEMMA Aside ==
  ASSUME TypeOK, RecordInv, NEW p \in Runs, NEW r \in RunState,
         r.pc \notin Recording, r.pc \in Applying => r.asked = r.v,
         proc' = [proc EXCEPT ![p] = r],
         \/ answer' = answer /\ answer[p] # "imported"
         \/ \E a \in Answers \ {"imported"} : answer' = [answer EXCEPT ![p] = a],
         UNCHANGED <<row, opPhase, step>>, budget'.faults = budget.faults
  PROVE  RecordInv'
<1> USE DEF RecordInv
<1>1. proc \in [Runs -> RunState] /\ answer \in [Runs -> Answers]
  BY DEF TypeOK, RunState
<1>2. /\ proc'[p] = r
      /\ \A q \in Runs \ {p} : proc'[q] = proc[q] /\ answer'[q] = answer[q]
      /\ answer'[p] # "imported"
  BY <1>1
<1>3. ASSUME NEW q \in Runs PROVE InRecord(q)'
  <2>1. CASE q = p
    BY <1>2, <2>1 DEF InRecord, Recording
  <2>2. CASE q # p
    BY <1>2, <2>2 DEF InRecord
  <2> QED BY <2>1, <2>2
<1>4. ASSUME NEW v \in Versions PROVE Unstarted(v)'
  BY DEF Unstarted
<1>5. OutcomesAreTrue'
  BY <1>2 DEF OutcomesAreTrue
<1> QED BY <1>3, <1>4, <1>5

\* The recording part does not look at the disk.
LEMMA RecordStable ==
  ASSUME RecordInv, UNCHANGED <<database, proc, answer>>, budget'.faults = budget.faults
  PROVE  RecordInv'
BY DEF RecordInv, InRecord, Unstarted, OutcomesAreTrue, database

-----------------------------------------------------------------------------
(* The old installation changes under the runs.                            *)

\* What the runs that read note of the disk.
LEMMA Noting ==
  ASSUME TypeOK, Note
  PROVE  /\ whole' \in [all : [Runs -> SUBSET Versions], own : [Runs -> SUBSET Versions]]
         /\ \A q \in Runs :
              /\ whole.own[q] \subseteq whole'.own[q] /\ whole.all[q] \subseteq whole'.all[q]
              /\ proc'[q].pc \in Reading => \A v \in Versions :
                   /\ Own(v)' => v \in whole'.own[q]
                   /\ Whole(v)' => v \in whole'.all[q]
<1> DEFINE a == [q \in Runs |-> IF proc'[q].pc \in Reading
                   THEN whole.all[q] \cup {v \in Versions : Whole(v)'} ELSE whole.all[q]]
           o == [q \in Runs |-> IF proc'[q].pc \in Reading
                   THEN whole.own[q] \cup {v \in Versions : Own(v)'} ELSE whole.own[q]]
<1>1. whole' = [all |-> a, own |-> o]
  BY DEF Note
<1>2. whole.all \in [Runs -> SUBSET Versions] /\ whole.own \in [Runs -> SUBSET Versions]
  BY DEF TypeOK
<1>3. a \in [Runs -> SUBSET Versions] /\ o \in [Runs -> SUBSET Versions]
  BY <1>2
<1>4. \A q \in Runs :
        /\ whole.own[q] \subseteq o[q] /\ whole.all[q] \subseteq a[q]
        /\ proc'[q].pc \in Reading => \A v \in Versions :
             (Own(v)' => v \in o[q]) /\ (Whole(v)' => v \in a[q])
  OBVIOUS
<1> HIDE DEF a, o
<1> QED BY <1>1, <1>3, <1>4

\* No file becomes what a receipt that has been placed before lists.
LEMMA PutStep ==
  ASSUME TypeOK, ImportInv, NEW t \in Targets,
         NEW c \in {Gone, ByHand} \cup Versions,
         c \in Versions => c > current,
         NEW id \in Nat, Put(t, id, c),
         t = Receipt => c <= current',
         current' \in Versions, current' >= current,
         legacy' \in {"idle", "removing", "placing"},
         legacy' # "idle" => current' < MaxVersion,
         UNCHANGED <<database, proc, answer>>, Note,
         budget' \in [edits : 0..MaxEdits, deaths : 0..MaxDeaths, faults : 0..MaxFaults]
  PROVE  TypeOK' /\ ImportInv'
<1> USE MigrationAssumption DEF ImportInv, database
<1>1. file \in [Targets -> [id : Nat, v : {Gone, ByHand} \cup Versions]]
  BY DEF TypeOK
<1>2. /\ file' \in [Targets -> [id : Nat, v : {Gone, ByHand} \cup Versions]]
      /\ file'[t].v = c
      /\ \A u \in Targets \ {t} : file'[u] = file[u]
  BY <1>1 DEF Put
<1>3. /\ whole' \in [all : [Runs -> SUBSET Versions], own : [Runs -> SUBSET Versions]]
      /\ \A q \in Runs :
           /\ whole.own[q] \subseteq whole'.own[q]
           /\ proc[q].pc \in Reading => \A v \in Versions : Own(v)' => v \in whole'.own[q]
  BY Noting
<1>4. TypeOK'
  BY <1>2, <1>3 DEF TypeOK
<1>5. OnDisk'
  <2>1. file[Receipt].v <= current /\ current \in Nat /\ current > 0
    BY DEF OnDisk, TypeOK, Versions
  <2>2. /\ Receipt \in Targets /\ current' \in Nat
        /\ file[Receipt].v \in {Gone, ByHand} \cup Versions
    BY <1>1 DEF Targets, Versions
  <2>3. file'[Receipt].v <= current'
    <3>1. CASE t = Receipt
      BY <1>2, <3>1
    <3>2. CASE t # Receipt
      BY <1>2, <2>1, <2>2, <3>2 DEF Gone, ByHand, Versions
    <3> QED BY <3>1, <3>2
  <2> QED BY <2>3 DEF OnDisk
<1>6. ASSUME NEW q \in Runs PROVE InImport(q)'
  <2>1. Noted(q)'
    BY <1>3 DEF Noted, Own
  <2>2. ASSUME proc[q].pc \in Reading, proc[q].v \in Versions, proc[q].v <= current,
               proc[q].left \subseteq Files, Honest(q)
        PROVE  Honest(q)'
    <3>1. CASE proc[q].v \in whole.own[q]
      BY <1>3, <3>1 DEF Honest
    <3>2. ASSUME NEW f \in proc[q].left \ Shared, file[f].v # proc[q].v
          PROVE  file'[f].v # proc[q].v
      <4>1. c # proc[q].v
        BY <2>2 DEF Gone, ByHand, Versions, TypeOK
      <4> QED BY <1>2, <2>2, <3>2, <4>1 DEF Targets
    <3> QED BY <2>2, <3>1, <3>2 DEF Honest
  <2>3. proc[q].pc \in Reading => Reads(q)'
    BY <2>2 DEF RunState, InImport, Reads, TypeOK, Versions
  <2> QED BY <1>3, <2>1, <2>3 DEF InImport
<1>7. OwnAtOnce'
  BY <1>3 DEF OwnAtOnce
<1> QED BY <1>4, <1>5, <1>6, <1>7

LEMMA InstallerStep ==
  ASSUME Inductive, Installer
  PROVE  Inductive'
<1> USE MigrationAssumption DEF Inductive, Installer
<1>1. /\ budget' = budget /\ RecordInv'
      /\ budget \in [edits : 0..MaxEdits, deaths : 0..MaxDeaths, faults : 0..MaxFaults]
  BY RecordStable DEF TypeOK
<1>2. current \in Nat /\ current > 0 /\ current <= MaxVersion
      /\ (legacy # "idle" => current < MaxVersion)
  BY DEF TypeOK, Versions, ImportInv, OnDisk
<1>3. UNCHANGED <<database, proc, answer>> /\ Note
  OBVIOUS
<1>4. ASSUME NEW t \in Targets, RemoveOld(t) PROVE Inductive'
  <2>1. /\ legacy' \in {"removing", "placing"} /\ current' = current
        /\ current < MaxVersion /\ Gone <= current /\ Gone \notin Versions
        /\ current \in Versions /\ Put(t, 0, Gone)
    BY <1>2, <1>4 DEF RemoveOld, Gone, Versions
  <2>2. TypeOK' /\ ImportInv'
    BY <1>1, <1>2, <1>3, <2>1, PutStep
  <2> QED BY <1>1, <2>2
<1>5. ASSUME NEW t \in Targets, PlaceNew(t) PROVE Inductive'
  <2>1. /\ current + 1 \in Versions /\ current + 1 > current /\ current + 1 \in Nat
        /\ current' \in Versions /\ current' >= current
        /\ t = Receipt => current + 1 <= current'
        /\ legacy' \in {"idle", "placing"}
        /\ legacy' # "idle" => current' < MaxVersion
        /\ Put(t, current + 1, current + 1)
    BY <1>2, <1>5 DEF PlaceNew, Versions
  <2>2. TypeOK' /\ ImportInv'
    BY <1>1, <1>3, <2>1, PutStep
  <2> QED BY <1>1, <2>2
<1> QED BY <1>4, <1>5

LEMMA EditStep ==
  ASSUME Inductive, NEW t \in Targets, Edit(t)
  PROVE  Inductive'
<1> USE MigrationAssumption DEF Inductive, Edit
<1>1. /\ budget' \in [edits : 0..MaxEdits, deaths : 0..MaxDeaths, faults : 0..MaxFaults]
      /\ budget'.faults = budget.faults
  BY DEF TypeOK
<1>2. RecordInv'
  BY <1>1, RecordStable
<1>3. /\ current \in Versions /\ current <= current
      /\ legacy # "idle" => current < MaxVersion
      /\ legacy \in {"idle", "removing", "placing"}
      /\ ByHand \notin Versions /\ ByHand <= current
  BY DEF TypeOK, ImportInv, OnDisk, Versions, ByHand
<1>4. UNCHANGED <<database, proc, answer>> /\ current' = current /\ legacy' = legacy
  OBVIOUS
<1>5. file[t].id + MaxVersion \in Nat
  BY DEF TypeOK
<1>6. TypeOK' /\ ImportInv'
  BY <1>1, <1>3, <1>4, <1>5, PutStep
<1> QED BY <1>2, <1>6

-----------------------------------------------------------------------------
(* The import.                                                             *)

LEMMA BeginStep ==
  ASSUME Inductive, NEW p \in Runs, Begin(p)
  PROVE  Inductive'
<1> USE DEF Inductive, Begin
<1> DEFINE r == [proc[p] EXCEPT !.pc = "stat"]
<1>1. /\ proc \in [Runs -> RunState] /\ whole.own \in [Runs -> SUBSET Versions]
      /\ answer \in [Runs -> Answers] /\ proc[p] \in RunState
  BY DEF TypeOK, RunState
<1>2. /\ r \in RunState /\ r.pc = "stat" /\ r.asked = proc[p].asked
      /\ r.at = proc[p].at /\ r.left = proc[p].left /\ r.v = proc[p].v
      /\ proc[p].pc = "idle" /\ proc' = [proc EXCEPT ![p] = r]
      /\ UNCHANGED <<disk, database, answer, budget>> /\ Note
  BY <1>1 DEF RunState, Labels, At, Goto
<1> HIDE DEF r
<1>3. /\ proc' \in [Runs -> RunState] /\ proc'[p] = r
      /\ \A q \in Runs \ {p} : proc'[q] = proc[q]
  BY <1>1, <1>2
<1>4. /\ whole' \in [all : [Runs -> SUBSET Versions], own : [Runs -> SUBSET Versions]]
      /\ \A q \in Runs :
           /\ whole.own[q] \subseteq whole'.own[q]
           /\ proc'[q].pc \in Reading => \A v \in Versions : Own(v)' => v \in whole'.own[q]
  BY <1>2, Noting
<1>5. TypeOK'
  BY <1>2, <1>3, <1>4 DEF TypeOK, RunState, disk, database
<1>6. ASSUME NEW q \in Runs PROVE InImport(q)'
  <2>1. Noted(q)'
    BY <1>4 DEF Noted, Own
  <2>2. CASE q = p
    <3>1. InImport(p)
      BY DEF ImportInv
    <3> QED BY <1>2, <1>3, <2>1, <2>2, <3>1 DEF InImport, Reads, Reading, Applying
  <2>3. CASE q # p
    <3>1. InImport(q)
      BY DEF ImportInv
    <3>2. Reads(q) => Reads(q)'
      BY <1>2, <1>3, <1>4, <2>3 DEF Reads, Honest, disk
    <3> QED BY <1>2, <1>3, <1>4, <2>1, <2>3, <3>1, <3>2 DEF InImport
  <2> QED BY <2>2, <2>3
<1>7. OwnAtOnce' /\ OnDisk'
  BY <1>2, <1>3, <1>4 DEF OwnAtOnce, OnDisk, ImportInv, disk
<1>8. answer[p] # "imported"
  BY <1>2 DEF ImportInv, InImport
<1>9. RecordInv'
  BY <1>2, <1>8, Aside DEF Recording, Applying, database
<1> QED BY <1>5, <1>6, <1>7, <1>9 DEF ImportInv

\* A step of the import: what p has found out, and nothing else.
LEMMA ImportMove ==
  ASSUME Inductive, NEW p \in Runs, NEW r \in RunState,
         answer[p] = "none", proc[p].asked = 0,
         r.pc \in {"imported", "done"} \cup Reading, r.asked = 0,
         proc' = [proc EXCEPT ![p] = r],
         \/ answer' = answer
         \/ r.pc = "done" /\ answer' = [answer EXCEPT ![p] = "not-importable"]
         \/ /\ r.pc = "done" /\ answer' = [answer EXCEPT ![p] = "planned"]
            /\ r.v \in whole.own[p],
         r.pc \in Reading => proc[p].pc \in Reading /\ Reads(p)',
         r.pc = "imported" => r.v \in whole.own[p],
         budget' \in [edits : 0..MaxEdits, deaths : 0..MaxDeaths, faults : 0..MaxFaults],
         budget'.faults = budget.faults,
         UNCHANGED <<disk, database, whole>>
  PROVE  Inductive'
<1> USE DEF Inductive, disk, database
<1>1. /\ proc \in [Runs -> RunState] /\ whole.own \in [Runs -> SUBSET Versions]
      /\ answer \in [Runs -> Answers]
  BY DEF TypeOK, RunState
<1>2. /\ proc' \in [Runs -> RunState] /\ proc'[p] = r
      /\ \A q \in Runs \ {p} : proc'[q] = proc[q] /\ answer'[q] = answer[q]
      /\ answer'[p] \in {"none", "not-importable", "planned"}
      /\ answer'[p] # "none" => r.pc = "done"
      /\ answer'[p] = "planned" => r.v \in whole.own[p]
      /\ answer' \in [Runs -> Answers]
  BY <1>1 DEF Answers
<1>3. TypeOK'
  BY <1>2 DEF TypeOK, RunState
<1>4. ASSUME NEW q \in Runs PROVE InImport(q)'
  <2>1. InImport(q)
    BY DEF ImportInv
  <2>2. Noted(q)'
    BY <1>2, <2>1 DEF InImport, Noted, Own
  <2>3. CASE q = p
    BY <1>2, <2>2, <2>3 DEF InImport, Reading, Applying
  <2>4. CASE q # p
    BY <1>2, <2>1, <2>2, <2>4 DEF InImport, Reads, Honest
  <2> QED BY <2>3, <2>4
<1>5. OwnAtOnce' /\ OnDisk'
  BY <1>2 DEF OwnAtOnce, OnDisk, ImportInv
<1>6. RecordInv'
  <2>1. r.pc \notin Recording /\ r.pc \notin Applying
    BY DEF Reading, Applying, Recording
  <2> QED BY <2>1, Aside DEF Answers
<1> QED BY <1>3, <1>4, <1>5, <1>6 DEF ImportInv

LEMMA Unspent ==
  ASSUME TypeOK, UNCHANGED budget
  PROVE  /\ budget' \in [edits : 0..MaxEdits, deaths : 0..MaxDeaths, faults : 0..MaxFaults]
         /\ budget'.faults = budget.faults
BY DEF TypeOK

\* Something has changed, or is not what the receipt says.
LEMMA RefuseStep ==
  ASSUME Inductive, NEW p \in Runs, proc[p].pc \in Reading, Refuse(p)
  PROVE  Inductive'
<1> DEFINE r == [proc[p] EXCEPT !.pc = "done"]
<1>1. proc[p] \in RunState /\ InImport(p)
  BY DEF Inductive, ImportInv, TypeOK, RunState
<1>2. /\ r \in RunState /\ r.pc = "done" /\ r.asked = 0
      /\ proc' = [proc EXCEPT ![p] = r]
      /\ answer' = [answer EXCEPT ![p] = "not-importable"]
      /\ UNCHANGED <<disk, database, whole, budget>>
  BY <1>1 DEF RunState, Labels, InImport, Refuse, Tell, Goto
<1>3. answer[p] = "none" /\ proc[p].asked = 0 /\ r.pc \notin Reading
  BY <1>1, <1>2 DEF InImport, Reading
<1> HIDE DEF r
<1> QED BY <1>2, <1>3, ImportMove, Unspent DEF Inductive

LEMMA StatStep ==
  ASSUME Inductive, NEW p \in Runs, Stat(p)
  PROVE  Inductive'
<1> DEFINE now == file[proc[p].at]
           r == [proc[p] EXCEPT !.pc = "read", !.id = now.id]
<1>1. proc[p] \in RunState /\ InImport(p) /\ now.id \in Nat
  BY DEF Inductive, ImportInv, TypeOK, RunState
<1>2. proc[p].pc \in Reading
  BY DEF Stat, At, Reading
<1>3. CASE Refuse(p)
  BY <1>2, <1>3, RefuseStep
<1>4. CASE /\ proc' = [proc EXCEPT ![p] = r]
           /\ UNCHANGED <<disk, database, answer, whole, budget>>
  <2>1. /\ r \in RunState /\ r.pc = "read" /\ r.asked = 0
        /\ r.at = proc[p].at /\ r.left = proc[p].left /\ r.v = proc[p].v
        /\ answer[p] = "none" /\ proc[p].asked = 0 /\ "read" \in Reading
        /\ proc'[p] = r
    BY <1>1, <1>2, <1>4 DEF RunState, Labels, InImport, Reading, Inductive, TypeOK
  <2> HIDE DEF r
  <2>2. Reads(p)'
    BY <1>1, <1>2, <1>4, <2>1 DEF InImport, Reads, Honest, disk
  <2> QED BY <1>2, <1>4, <2>1, <2>2, ImportMove, Unspent DEF Inductive
<1> QED BY <1>3, <1>4 DEF Stat, Silent

LEMMA ReadStep ==
  ASSUME Inductive, NEW p \in Runs, Read(p)
  PROVE  Inductive'
<1> DEFINE r == [proc[p] EXCEPT !.pc = "verify"]
<1>1. proc[p] \in RunState /\ InImport(p)
  BY DEF Inductive, ImportInv, TypeOK, RunState
<1>2. proc[p].pc \in Reading
  BY DEF Read, At, Reading
<1>3. CASE Refuse(p)
  BY <1>2, <1>3, RefuseStep
<1>4. CASE /\ proc' = [proc EXCEPT ![p] = r]
           /\ UNCHANGED <<disk, database, answer, whole, budget>>
  <2>1. /\ r \in RunState /\ r.pc = "verify" /\ r.asked = 0
        /\ r.at = proc[p].at /\ r.left = proc[p].left /\ r.v = proc[p].v
        /\ answer[p] = "none" /\ proc[p].asked = 0 /\ "verify" \in Reading
        /\ proc'[p] = r
    BY <1>1, <1>2, <1>4 DEF RunState, Labels, InImport, Reading, Inductive, TypeOK
  <2> HIDE DEF r
  <2>2. Reads(p)'
    BY <1>1, <1>2, <1>4, <2>1 DEF InImport, Reads, Honest, disk
  <2> QED BY <1>2, <1>4, <2>1, <2>2, ImportMove, Unspent DEF Inductive
<1> QED BY <1>3, <1>4 DEF Read, Silent, Goto

\* The content that was read counts: if the last file fits, some version has
\* been on disk as a whole.
LEMMA VerifyStep ==
  ASSUME Inductive, NEW p \in Runs, Verify(p)
  PROVE  Inductive'
<1> USE MigrationAssumption
<1> DEFINE t    == proc[p].at
           now  == file[t]
           left == IF t = Receipt THEN Files ELSE proc[p].left \ {t}
           v    == IF t = Receipt THEN now.v ELSE proc[p].v
           late == IF t = Receipt THEN legacy = "removing" ELSE proc[p].late
           me   == [proc[p] EXCEPT !.left = left, !.v = v, !.late = late]
           next == [me EXCEPT !.pc = "stat", !.at = CHOOSE f \in left : TRUE]
           end  == [me EXCEPT !.pc = "imported"]
<1>1. /\ proc[p] \in RunState /\ InImport(p) /\ now.id \in Nat
      /\ t \in Targets /\ whole.own[p] \subseteq Versions
  BY DEF Inductive, ImportInv, TypeOK, RunState
<1>2. proc[p].pc \in Reading /\ Reads(p) /\ Noted(p)
  BY <1>1 DEF Verify, At, Reading, InImport
<1>3. CASE Refuse(p)
  BY <1>2, <1>3, RefuseStep
<1>4. CASE /\ Fits(p, now.v)
           /\ IF left = {} THEN proc' = [proc EXCEPT ![p] = end]
                          ELSE proc' = [proc EXCEPT ![p] = next]
           /\ UNCHANGED <<disk, database, answer, whole, budget>>
  <2>1. answer[p] = "none" /\ proc[p].asked = 0 /\ left \subseteq Files
    BY <1>1, <1>2 DEF InImport, Reading, RunState
  <2>2. v \in Versions /\ v <= current
    BY <1>1, <1>2, <1>4 DEF Fits, Reads, Inductive, ImportInv, OnDisk, RunState
  <2>3. v \in whole.own[p] \/ \E f \in left \ Shared : file[f].v # v
    <3>1. CASE t = Receipt
      BY <1>2, <2>2, <3>1 DEF Noted, Own, Targets
    <3>2. CASE t # Receipt
      <4>1. t \notin Shared => now.v = v
        BY <1>4, <3>2 DEF Fits, Same
      <4>2. Honest(p) /\ v = proc[p].v /\ left = proc[p].left \ {t}
        BY <1>2, <3>2 DEF Reads
      <4> QED BY <4>1, <4>2 DEF Honest
    <3> QED BY <3>1, <3>2
  <2>4. late \in BOOLEAN
    BY <1>1 DEF RunState
  <2>5. me \in RunState /\ me.v = v /\ me.left = left /\ me.asked = 0
    BY <1>1, <2>1, <2>2, <2>4 DEF RunState
  <2> HIDE DEF me, left, v, late
  <2>6. CASE left = {}
    <3>1. /\ end \in RunState /\ end.pc = "imported" /\ end.v = v /\ end.asked = 0
          /\ proc' = [proc EXCEPT ![p] = end]
      BY <1>4, <2>5, <2>6 DEF RunState, Labels
    <3>2. end.v \in whole.own[p] /\ end.pc \notin Reading
      BY <2>3, <2>6, <3>1 DEF Reading
    <3> HIDE DEF end
    <3> QED BY <1>4, <2>1, <3>1, <3>2, ImportMove, Unspent DEF Inductive
  <2>7. CASE left # {}
    <3>1. (CHOOSE f \in left : TRUE) \in left
      BY <2>7
    <3>2. /\ next \in RunState /\ next.pc = "stat" /\ next.at \in left
          /\ next.left = left /\ next.v = v /\ next.asked = 0
          /\ proc' = [proc EXCEPT ![p] = next]
      BY <1>4, <2>1, <2>5, <2>7, <3>1 DEF RunState, Labels, Targets
    <3>3. next.pc \in Reading
      BY <3>2 DEF Reading
    <3> HIDE DEF next
    <3>4. proc'[p] = next
      BY <3>2 DEF Inductive, TypeOK
    <3>5. Reads(p)'
      BY <1>4, <2>2, <2>3, <3>2, <3>4 DEF Reads, Honest, disk
    <3> QED BY <1>2, <1>4, <2>1, <3>2, <3>3, <3>5, ImportMove, Unspent DEF Inductive
  <2> QED BY <2>6, <2>7
<1>5. now.id # proc[p].id \/ ~Fits(p, now.v) => Refuse(p)
  BY DEF Verify
<1>6. ~(now.id # proc[p].id \/ ~Fits(p, now.v)) =>
        /\ Fits(p, now.v)
        /\ IF left = {} THEN proc' = [proc EXCEPT ![p] = end]
                       ELSE proc' = [proc EXCEPT ![p] = next]
        /\ UNCHANGED <<disk, database, answer, whole, budget>>
  BY DEF Verify, Silent
<1> QED BY <1>3, <1>4, <1>5, <1>6

LEMMA PlanStep ==
  ASSUME Inductive, NEW p \in Runs, Plan(p)
  PROVE  Inductive'
<1> DEFINE r == [proc[p] EXCEPT !.pc = "done"]
<1>1. proc[p] \in RunState /\ InImport(p)
  BY DEF Inductive, ImportInv, TypeOK, RunState
<1>2. /\ r \in RunState /\ r.pc = "done" /\ r.asked = 0 /\ r.v \in whole.own[p]
      /\ proc' = [proc EXCEPT ![p] = r]
      /\ answer' = [answer EXCEPT ![p] = "planned"]
      /\ UNCHANGED <<disk, database, whole, budget>>
      /\ answer[p] = "none" /\ proc[p].asked = 0 /\ r.pc \notin Reading
  BY <1>1 DEF RunState, Labels, InImport, Plan, At, Tell, Goto, Reading
<1> HIDE DEF r
<1> QED BY <1>2, ImportMove, Unspent DEF Inductive

-----------------------------------------------------------------------------
(* The record.                                                             *)

\* What holds of a run that is past its import.
LEMMA Past ==
  ASSUME Inductive, NEW p \in Runs, proc[p].pc \in {"imported"} \cup Applying
  PROVE  /\ proc[p] \in RunState /\ answer[p] = "none"
         /\ proc[p].v \in whole.own[p] /\ proc[p].v \in Versions
         /\ InRecord(p)
<1>1. proc[p] \in RunState /\ InImport(p) /\ InRecord(p) /\ whole.own[p] \subseteq Versions
  BY DEF Inductive, TypeOK, ImportInv, RecordInv, RunState
<1> QED BY <1>1 DEF InImport, Applying

\* A step before the operation is this run's, or of one that gives up.
LEMMA AsideMove ==
  ASSUME Inductive, NEW p \in Runs, NEW r \in RunState,
         proc[p].pc \in {"imported"} \cup Applying,
         r.v = proc[p].v, r.pc \in (Applying \ Recording) \cup {"done"},
         r.pc \in Applying => r.asked = r.v,
         proc' = [proc EXCEPT ![p] = r],
         \/ answer' = answer
         \/ r.pc = "done" /\ answer' = [answer EXCEPT ![p] = "error"],
         planned' \subseteq Versions,
         budget' \in [edits : 0..MaxEdits, deaths : 0..MaxDeaths, faults : 0..MaxFaults],
         budget'.faults = budget.faults,
         UNCHANGED <<row, opPhase, step, disk, whole>>
  PROVE  Inductive'
<1> USE DEF Inductive
<1>1. /\ answer[p] = "none" /\ proc[p].v \in whole.own[p]
      /\ \/ answer' = answer /\ answer[p] = "none"
         \/ r.pc = "done" /\ \E a \in Answers : answer' = [answer EXCEPT ![p] = a]
  BY Past DEF Answers
<1>2. ImportInv'
  BY <1>1, Onward
<1>3. RecordInv'
  <2>1. r.pc \notin Recording /\ "error" \in Answers \ {"imported"}
    BY DEF Recording, Answers
  <2> QED BY <1>1, <2>1, Aside
<1>4. TypeOK'
  BY DEF TypeOK, RunState, disk, Answers
<1> QED BY <1>2, <1>3, <1>4

LEMMA SaveDeploymentStep ==
  ASSUME Inductive, NEW p \in Runs, SaveDeployment(p)
  PROVE  Inductive'
<1> USE DEF Inductive
<1> DEFINE r == [proc[p] EXCEPT !.pc = "prepare", !.asked = proc[p].v]
<1>1. proc[p].pc \in {"imported"} \cup Applying
  BY DEF SaveDeployment, At
<1>2. proc[p] \in RunState /\ proc[p].v \in Versions
  BY <1>1, Past
<1>3. /\ r \in RunState /\ r.v = proc[p].v /\ r.pc = "prepare" /\ r.asked = r.v
      /\ proc' = [proc EXCEPT ![p] = r]
      /\ "prepare" \in Applying \ Recording
      /\ planned' \subseteq Versions
      /\ UNCHANGED <<row, opPhase, step, answer, budget, disk, whole>>
  BY <1>2 DEF SaveDeployment, RunState, Labels, Applying, Recording, TypeOK, Keep
<1> HIDE DEF r
<1> QED BY <1>1, <1>3, Unspent, AsideMove

\* p goes on to label l with its operation as it is, or gives up with an error.
LEMMA GoAside ==
  ASSUME Inductive, NEW p \in Runs, proc[p].pc \in Applying,
         NEW l \in (Applying \ Recording) \cup {"done"}, Goto(p, l),
         \/ answer' = answer
         \/ l = "done" /\ answer' = [answer EXCEPT ![p] = "error"],
         UNCHANGED <<database, disk, whole, budget>>
  PROVE  Inductive'
<1> DEFINE r == [proc[p] EXCEPT !.pc = l]
<1>1. proc[p] \in RunState /\ InRecord(p) /\ planned \subseteq Versions
  BY Past DEF Inductive, TypeOK
<1>2. /\ r \in RunState /\ r.v = proc[p].v /\ r.pc = l
      /\ r.asked = r.v
      /\ proc' = [proc EXCEPT ![p] = r]
      /\ planned' \subseteq Versions
      /\ UNCHANGED <<row, opPhase, step, disk, whole, budget>>
  BY <1>1 DEF RunState, Labels, Applying, Goto, database, InRecord
<1> HIDE DEF r
<1> QED BY <1>2, Unspent, AsideMove DEF Inductive

LEMMA PrepareStep ==
  ASSUME Inductive, NEW p \in Runs, Prepare(p)
  PROVE  Inductive'
<1>1. /\ proc[p].pc \in Applying
      /\ UNCHANGED <<database, disk, whole, budget, answer>>
      /\ {"insert", "start"} \subseteq Applying \ Recording
  BY DEF Prepare, At, Applying, Recording, Keep
<1>2. \E l \in {"insert", "start"} : Goto(p, l)
  BY DEF Prepare
<1> QED BY <1>1, <1>2, GoAside

\* A step of a run on its operation while no other run records that one: its
\* locals become r, the phase o and the phase of the step s.
Records(p, r, o, s) ==
  /\ proc[p].pc \in Applying /\ opPhase[r.v] # "succeeded"
  /\ \A q \in Runs \ {p} : proc[q].pc \in Recording => proc[q].v # r.v
  /\ r \in RunState /\ r.v = proc[p].v /\ r.asked = r.v
  /\ r.pc \in Applying \cup {"done"}
  /\ proc' = [proc EXCEPT ![p] = r]
  /\ \/ answer' = answer
     \/ /\ r.pc = "done"
        /\ \E a \in Answers :
             /\ answer' = [answer EXCEPT ![p] = a]
             /\ a = "imported" => o = "succeeded"
  /\ row' = row \/ (row = NoRow /\ row' = r.v)
  /\ opPhase' = [opPhase EXCEPT ![r.v] = o] /\ o \in OpPhases
  /\ step' = [step EXCEPT ![r.v] = s] /\ s \in StepPhases
  /\ o \in {"none", "prepared"} => row' # r.v /\ s = "pending"
  /\ o = "succeeded" => row' = r.v /\ s = "succeeded"
  /\ o = "needs-manual-cleanup" /\ row' = r.v => budget'.faults < MaxFaults
  /\ budget' \in [edits : 0..MaxEdits, deaths : 0..MaxDeaths, faults : 0..MaxFaults]
  /\ budget'.faults <= budget.faults
  /\ UNCHANGED <<planned, disk, whole>>

LEMMA RecordMove ==
  ASSUME Inductive, NEW p \in Runs, NEW r, NEW o, NEW s, Records(p, r, o, s),
         InRecord(p)'
  PROVE  Inductive'
<1> USE DEF Records
<1> USE MigrationAssumption
<1>1. /\ answer[p] = "none" /\ r.v \in whole.own[p] /\ r.v \in Versions
      /\ InRecord(p)
  BY Past
<1>2. /\ TypeOK /\ ImportInv /\ RecordInv
      /\ proc \in [Runs -> RunState] /\ answer \in [Runs -> Answers]
      /\ opPhase \in [Versions -> OpPhases] /\ step \in [Versions -> StepPhases]
      /\ row \in {NoRow, OldRow} \cup Versions
      /\ budget.faults \in 0..MaxFaults
  BY DEF Inductive, TypeOK, RunState
<1>3. /\ proc' \in [Runs -> RunState] /\ proc'[p] = r
      /\ \A q \in Runs \ {p} : proc'[q] = proc[q] /\ answer'[q] = answer[q]
      /\ answer' \in [Runs -> Answers]
      /\ answer'[p] = "imported" => o = "succeeded"
      /\ opPhase' \in [Versions -> OpPhases] /\ step' \in [Versions -> StepPhases]
      /\ opPhase'[r.v] = o /\ step'[r.v] = s
      /\ \A u \in Versions \ {r.v} : opPhase'[u] = opPhase[u] /\ step'[u] = step[u]
  BY <1>1, <1>2 DEF Answers
<1>4. TypeOK'
  BY <1>1, <1>2, <1>3 DEF TypeOK, RunState, disk
<1>5. ImportInv'
  BY <1>1, <1>2, Onward
<1>6. ASSUME NEW q \in Runs \ {p} PROVE InRecord(q)'
  <2>1. InRecord(q) /\ proc'[q] = proc[q]
    BY <1>2, <1>3 DEF RecordInv
  <2>2. proc[q].pc \in Recording => proc[q].v # r.v /\ proc[q].v \in Versions
    BY <1>1, Past DEF Recording, Applying, InRecord
  <2>3. proc[q].pc \in Recording =>
          \A z \in Runs \ {q} : proc'[z].pc \in Recording => proc'[z].v # proc[q].v
    BY <1>3, <2>1, <2>2 DEF InRecord
  <2>4. proc[q].pc = "cleanup" =>
          /\ proc[q].why = "already-present" => row' \in Versions \ {proc[q].v}
          /\ row' = proc[q].v => budget'.faults < MaxFaults
    BY <1>1, <1>2, <2>1, <2>2 DEF InRecord, Recording, NoRow, Versions
  <2>5. r.v # OldRow /\ NoRow \notin Versions
    BY <1>1 DEF OldRow, NoRow, Versions
  <2> QED BY <1>1, <1>2, <1>3, <2>1, <2>2, <2>3, <2>4, <2>5 DEF InRecord, Recording
<1>7. ASSUME NEW u \in Versions PROVE Unstarted(u)'
  <2>1. Unstarted(u)
    BY <1>2 DEF RecordInv
  <2> QED BY <1>1, <1>3, <2>1 DEF Unstarted
<1>8. OutcomesAreTrue'
  <2>1. ASSUME NEW q \in Runs, answer'[q] = "imported"
        PROVE  opPhase'[proc'[q].v] = "succeeded"
    <3>1. CASE q = p
      BY <1>3, <2>1, <3>1
    <3>2. CASE q # p
      <4>1. answer[q] = "imported" /\ proc'[q] = proc[q] /\ proc[q].v \in Versions
        BY <1>2, <1>3, <2>1, <3>2 DEF ImportInv, InImport
      <4> QED BY <1>1, <1>2, <1>3, <4>1 DEF RecordInv, OutcomesAreTrue
    <3> QED BY <3>1, <3>2
  <2>2. ASSUME NEW u \in Versions
        PROVE  /\ opPhase'[u] = "succeeded" => row' = u /\ step'[u] = "succeeded"
               /\ opPhase'[u] = "needs-manual-cleanup" /\ row' = u =>
                    budget'.faults < MaxFaults
    <3>1. CASE u = r.v
      BY <1>3, <3>1
    <3>2. CASE u # r.v
      <4>1. u # NoRow
        BY DEF NoRow, Versions
      <4> QED BY <1>2, <1>3, <3>2, <4>1 DEF RecordInv, OutcomesAreTrue
    <3> QED BY <3>1, <3>2
  <2> QED BY <2>1, <2>2 DEF OutcomesAreTrue
<1> QED BY <1>4, <1>5, <1>6, <1>7, <1>8 DEF Inductive, RecordInv

LEMMA InsertPlanStep ==
  ASSUME Inductive, NEW p \in Runs, InsertPlan(p)
  PROVE  Inductive'
<1> DEFINE v == proc[p].v
<1>1. /\ proc[p].pc \in Applying /\ {"start", "done"} \subseteq (Applying \ Recording) \cup {"done"}
  BY DEF InsertPlan, At, Applying, Recording
<1>2. CASE opPhase[v] # "none"
  <2>1. /\ Goto(p, "done") /\ answer' = [answer EXCEPT ![p] = "error"]
        /\ UNCHANGED <<database, disk, whole, budget>>
    BY <1>2 DEF InsertPlan, Tell, Keep, database
  <2> QED BY <1>1, <2>1, GoAside
<1>3. CASE opPhase[v] = "none"
  <2> DEFINE r == [proc[p] EXCEPT !.pc = "start"]
  <2>1. /\ proc[p] \in RunState /\ InRecord(p) /\ v \in Versions
        /\ step \in [Versions -> StepPhases] /\ Unstarted(v)
        /\ \A q \in Runs : InRecord(q)
    BY <1>1, Past DEF Inductive, TypeOK, RecordInv
  <2>2. /\ r \in RunState /\ r.v = v /\ r.pc = "start" /\ r.asked = r.v
        /\ proc' = [proc EXCEPT ![p] = r] /\ answer' = answer /\ row' = row
        /\ opPhase' = [opPhase EXCEPT ![r.v] = "prepared"]
        /\ step' = [step EXCEPT ![r.v] = "pending"]
        /\ UNCHANGED <<planned, disk, whole, budget>>
    BY <1>1, <1>3, <2>1 DEF InsertPlan, RunState, Labels, Goto, Keep, InRecord, Unstarted
  <2>3. row' # r.v /\ opPhase[r.v] # "succeeded" /\ "start" \in Applying
    BY <1>3, <2>1, <2>2 DEF Unstarted, Applying
  <2>4. \A q \in Runs \ {p} : proc[q].pc \in Recording => proc[q].v # r.v
    BY <1>3, <2>1, <2>2 DEF InRecord
  <2> HIDE DEF r
  <2>5. /\ proc'[p] = r /\ budget'.faults <= budget.faults
        /\ "prepared" \in OpPhases /\ "pending" \in StepPhases
        /\ r.pc \in Applying
    BY <2>2, <2>3 DEF Inductive, TypeOK, OpPhases, StepPhases
  <2>6. InRecord(p)'
    BY <2>2, <2>5 DEF InRecord, Recording
  <2>7. Records(p, r, "prepared", "pending")
    BY <1>1, <2>2, <2>3, <2>4, <2>5, Unspent DEF Records, Inductive
  <2> QED BY <2>6, <2>7, RecordMove
<1> QED BY <1>2, <1>3

LEMMA StartStep ==
  ASSUME Inductive, NEW p \in Runs, Start(p)
  PROVE  Inductive'
<1> DEFINE v == proc[p].v
<1>1. proc[p].pc \in Applying /\ "done" \in (Applying \ Recording) \cup {"done"}
  BY DEF Start, At, Applying
<1>2. CASE ~Startable(v)
  <2>1. /\ Goto(p, "done") /\ answer' = [answer EXCEPT ![p] = "error"]
        /\ UNCHANGED <<database, disk, whole, budget>>
    BY <1>2 DEF Start, Tell, Keep, database
  <2> QED BY <1>1, <2>1, GoAside
<1>3. CASE Startable(v)
  <2> DEFINE r == [proc[p] EXCEPT !.pc = "lookup"]
  <2>1. /\ proc[p] \in RunState /\ InRecord(p) /\ v \in Versions
        /\ step \in [Versions -> StepPhases] /\ Unstarted(v)
        /\ opPhase \in [Versions -> OpPhases]
        /\ \A q \in Runs : InRecord(q)
    BY <1>1, Past DEF Inductive, TypeOK, RecordInv
  <2>2. /\ r \in RunState /\ r.v = v /\ r.pc = "lookup" /\ r.asked = r.v
        /\ proc' = [proc EXCEPT ![p] = r] /\ answer' = answer /\ row' = row
        /\ opPhase' = [opPhase EXCEPT ![r.v] = "applying"]
        /\ step[r.v] = "pending" /\ step' = [step EXCEPT ![r.v] = "pending"]
        /\ UNCHANGED <<planned, disk, whole, budget>>
    BY <1>1, <1>3, <2>1 DEF Start, Startable, RunState, Labels, Goto, Keep, InRecord, Unstarted
  <2>3. row' # r.v /\ opPhase[r.v] # "succeeded" /\ "lookup" \in Applying
    BY <1>3, <2>1, <2>2 DEF Unstarted, Applying, Startable
  <2>4. \A q \in Runs \ {p} : proc[q].pc \in Recording => proc[q].v # r.v
    BY <1>3, <2>1, <2>2 DEF InRecord, Startable
  <2> HIDE DEF r
  <2>5. /\ proc'[p] = r /\ \A q \in Runs \ {p} : proc'[q] = proc[q]
        /\ opPhase'[r.v] = "applying" /\ step'[r.v] = "pending"
        /\ budget'.faults <= budget.faults
        /\ "applying" \in OpPhases /\ "pending" \in StepPhases
        /\ r.pc \in Applying
    BY <2>1, <2>2, <2>3 DEF Inductive, TypeOK, OpPhases, StepPhases
  <2>6. InRecord(p)'
    BY <2>2, <2>3, <2>4, <2>5 DEF InRecord, Recording
  <2>7. Records(p, r, "applying", "pending")
    BY <1>1, <2>2, <2>3, <2>4, <2>5, Unspent DEF Records, Inductive
  <2> QED BY <2>6, <2>7, RecordMove
<1> QED BY <1>2, <1>3

\* What holds of the run that records.
LEMMA Owner ==
  ASSUME Inductive, NEW p \in Runs, proc[p].pc \in Recording
  PROVE  /\ proc[p] \in RunState /\ proc[p].v \in Versions /\ proc[p].asked = proc[p].v
         /\ InRecord(p) /\ proc[p].pc \in Applying
         /\ opPhase[proc[p].v] = "applying"
         /\ opPhase = [opPhase EXCEPT ![proc[p].v] = "applying"]
         /\ proc[p].pc # "finish" =>
              /\ step[proc[p].v] = "pending"
              /\ step = [step EXCEPT ![proc[p].v] = "pending"]
<1>1. proc[p].pc \in Applying
  BY DEF Recording, Applying
<1>2. /\ proc[p] \in RunState /\ proc[p].v \in Versions /\ InRecord(p)
      /\ opPhase \in [Versions -> OpPhases] /\ step \in [Versions -> StepPhases]
  BY <1>1, Past DEF Inductive, TypeOK
<1> QED BY <1>1, <1>2 DEF InRecord

\* A statement on the row: the journal waits.
LEMMA RowMove ==
  ASSUME Inductive, NEW p \in Runs, proc[p].pc \in {"lookup", "upsert", "readback"},
         NEW l \in {"upsert", "readback", "written", "cleanup"}, NEW y \in Answers,
         proc' = [proc EXCEPT ![p] = [proc[p] EXCEPT !.pc = l, !.why = y]],
         row' = row \/ (row = NoRow /\ row' = proc[p].v),
         l = "upsert" => row' = NoRow,
         l \in {"readback", "written"} => row' = proc[p].v,
         l = "cleanup" =>
           /\ y \in {"invalid", "io-failure", "already-present"}
           /\ y = "already-present" => row' \in Versions \ {proc[p].v}
           /\ row' = proc[p].v => budget'.faults < MaxFaults,
         budget' = budget \/ Fault,
         UNCHANGED <<opPhase, step, planned, answer, disk, whole>>
  PROVE  Inductive'
<1> USE MigrationAssumption
<1> DEFINE r == [proc[p] EXCEPT !.pc = l, !.why = y]
<1>1. /\ proc[p].pc \in Recording /\ l \in Recording /\ l # "finish" /\ l # "lookup"
      /\ l \in Applying
  BY DEF Recording, Applying
<1>2. /\ proc[p] \in RunState /\ proc[p].v \in Versions /\ proc[p].asked = proc[p].v
      /\ InRecord(p) /\ proc[p].pc \in Applying
      /\ opPhase[proc[p].v] = "applying" /\ step[proc[p].v] = "pending"
      /\ opPhase = [opPhase EXCEPT ![proc[p].v] = "applying"]
      /\ step = [step EXCEPT ![proc[p].v] = "pending"]
  BY <1>1, Owner
<1>3. /\ r \in RunState /\ r.v = proc[p].v /\ r.pc = l /\ r.why = y
      /\ r.asked = r.v /\ proc' = [proc EXCEPT ![p] = r]
  BY <1>1, <1>2 DEF RunState, Labels
<1> HIDE DEF r
<1>4. proc'[p] = r /\ \A q \in Runs \ {p} : proc'[q] = proc[q]
  BY <1>3 DEF Inductive, TypeOK
<1>5. /\ budget' \in [edits : 0..MaxEdits, deaths : 0..MaxDeaths, faults : 0..MaxFaults]
      /\ budget'.faults <= budget.faults
  BY DEF Fault, Inductive, TypeOK
<1>6. \A q \in Runs \ {p} : proc[q].pc \in Recording => proc[q].v # r.v
  BY <1>1, <1>2, <1>3 DEF InRecord
<1>7. r.v # NoRow /\ NoRow # OldRow
  BY <1>2, <1>3 DEF NoRow, OldRow, Versions
<1>8. InRecord(p)'
  BY <1>1, <1>2, <1>3, <1>4, <1>6, <1>7 DEF InRecord
<1>9. Records(p, r, "applying", "pending")
  BY <1>1, <1>2, <1>3, <1>5, <1>6 DEF Records, OpPhases, StepPhases
<1> QED BY <1>8, <1>9, RecordMove

\* The row is left as it is, and the rejection will be recorded.
LEMMA RejectMove ==
  ASSUME Inductive, NEW p \in Runs, proc[p].pc \in {"lookup", "upsert", "readback"},
         NEW y \in {"invalid", "io-failure", "already-present"}, Reject(p, y),
         y = "already-present" => row \in Versions,
         row = proc[p].v => y = "io-failure",
         IF y = "io-failure" THEN Fault ELSE UNCHANGED budget,
         UNCHANGED <<database, answer, disk, whole>>
  PROVE  Inductive'
<1>1. row = proc[p].v => budget'.faults < MaxFaults
  BY MigrationAssumption DEF Fault, Inductive, TypeOK
<1>2. y \in Answers /\ (budget' = budget \/ Fault)
  BY DEF Answers
<1>3. proc' = [proc EXCEPT ![p] = [proc[p] EXCEPT !.pc = "cleanup", !.why = y]]
  BY DEF Reject, Inductive, TypeOK
<1>4. row = proc[p].v => y # "already-present"
  OBVIOUS
<1>5. UNCHANGED <<row, opPhase, step, planned, answer, disk, whole>>
  BY DEF database
<1> QED BY <1>1, <1>2, <1>3, <1>4, <1>5, RowMove

\* The statement has succeeded.
LEMMA GoMove ==
  ASSUME Inductive, NEW p \in Runs, proc[p].pc \in {"lookup", "upsert", "readback"},
         NEW l \in {"upsert", "readback", "written"}, Goto(p, l),
         row' = row \/ (row = NoRow /\ row' = proc[p].v),
         l = "upsert" => row' = NoRow,
         l \in {"readback", "written"} => row' = proc[p].v,
         UNCHANGED <<opPhase, step, planned, answer, disk, whole, budget>>
  PROVE  Inductive'
<1> DEFINE r == [proc[p] EXCEPT !.pc = l, !.why = proc[p].why]
<1>1. proc[p] \in RunState
  BY DEF Inductive, TypeOK, RunState
<1>2. r = [proc[p] EXCEPT !.pc = l] /\ proc[p].why \in Answers
  BY <1>1 DEF RunState
<1>3. proc' = [proc EXCEPT ![p] = r]
  BY <1>2 DEF Goto
<1> QED BY <1>2, <1>3, RowMove

LEMMA LookupStep ==
  ASSUME Inductive, NEW p \in Runs, Lookup(p)
  PROVE  Inductive'
<1>1. /\ proc[p].pc = "lookup" /\ proc[p].pc \in Recording
      /\ UNCHANGED <<database, answer, disk, whole>>
  BY DEF Lookup, At, Keep, Recording
<1>2. row # proc[p].v /\ proc[p].v \in Versions
  BY <1>1, Owner DEF InRecord
<1>3. CASE row = NoRow /\ Goto(p, "upsert") /\ UNCHANGED budget
  BY <1>1, <1>3, GoMove DEF database
<1>4. CASE row = OldRow /\ Reject(p, "invalid") /\ UNCHANGED budget
  BY <1>1, <1>2, <1>4, RejectMove
<1>5. CASE row \in Versions /\ Reject(p, "already-present") /\ UNCHANGED budget
  BY <1>1, <1>2, <1>5, RejectMove
<1>6. CASE Fault /\ Reject(p, "io-failure")
  BY <1>1, <1>2, <1>6, RejectMove
<1> QED BY <1>3, <1>4, <1>5, <1>6 DEF Lookup

LEMMA UpsertStep ==
  ASSUME Inductive, NEW p \in Runs, Upsert(p)
  PROVE  Inductive'
<1>1. /\ proc[p].pc = "upsert" /\ proc[p].pc \in Recording
      /\ UNCHANGED <<opPhase, step, planned, answer, disk, whole>>
  BY DEF Upsert, At, Keep, Recording
<1>2. row # proc[p].v /\ row # OldRow /\ row \in {NoRow, OldRow} \cup Versions
  BY <1>1, Owner DEF InRecord, Inductive, TypeOK
<1>3. CASE MayWrite /\ row' = proc[p].v /\ Goto(p, "readback") /\ UNCHANGED budget
  BY <1>1, <1>3, GoMove DEF MayWrite
<1>4. CASE ~MayWrite /\ Reject(p, "already-present") /\ UNCHANGED <<row, budget>>
  BY <1>1, <1>2, <1>4, RejectMove DEF MayWrite, database
<1>5. CASE Fault /\ Reject(p, "io-failure") /\ UNCHANGED row
  BY <1>1, <1>5, RejectMove DEF database
<1> QED BY <1>3, <1>4, <1>5 DEF Upsert

LEMMA ReadbackStep ==
  ASSUME Inductive, NEW p \in Runs, Readback(p)
  PROVE  Inductive'
<1>1. /\ proc[p].pc = "readback" /\ proc[p].pc \in Recording
      /\ UNCHANGED <<database, answer, disk, whole>>
  BY DEF Readback, At, Keep, Recording
<1>2. row = proc[p].v
  BY <1>1, Owner DEF InRecord
<1>3. CASE Goto(p, "written") /\ UNCHANGED budget
  BY <1>1, <1>2, <1>3, GoMove DEF database
<1>4. CASE Fault /\ Reject(p, "io-failure")
  BY <1>1, <1>4, RejectMove
<1> QED BY <1>3, <1>4 DEF Readback

\* The journal gets the outcome, and the run may be over.
LEMMA JournalMove ==
  ASSUME Inductive, NEW p \in Runs, proc[p].pc \in {"cleanup", "written", "finish"},
         NEW l \in {"finish", "done"}, Goto(p, l),
         NEW o \in {"applying", "succeeded", "needs-manual-cleanup"},
         opPhase' = [opPhase EXCEPT ![proc[p].v] = o],
         NEW s \in StepPhases, step' = [step EXCEPT ![proc[p].v] = s],
         \/ l = "finish" /\ answer' = answer
         \/ /\ l = "done"
            /\ \E a \in Answers :
                 /\ answer' = [answer EXCEPT ![p] = a]
                 /\ a = "imported" => o = "succeeded",
         l = "finish" => o = "applying" /\ s = "succeeded" /\ row = proc[p].v,
         o = "succeeded" => row = proc[p].v /\ s = "succeeded",
         o = "needs-manual-cleanup" /\ row = proc[p].v => budget.faults < MaxFaults,
         UNCHANGED <<row, planned, disk, whole, budget>>
  PROVE  Inductive'
<1> DEFINE r == [proc[p] EXCEPT !.pc = l]
<1>1. proc[p].pc \in Recording
  BY DEF Recording
<1>2. /\ proc[p] \in RunState /\ proc[p].v \in Versions /\ proc[p].asked = proc[p].v
      /\ InRecord(p) /\ proc[p].pc \in Applying /\ opPhase[proc[p].v] = "applying"
  BY <1>1, Owner
<1>3. /\ r \in RunState /\ r.v = proc[p].v /\ r.pc = l /\ r.asked = r.v
      /\ proc' = [proc EXCEPT ![p] = r] /\ r.pc \in Applying \cup {"done"}
  BY <1>2 DEF RunState, Labels, Goto, Applying
<1> HIDE DEF r
<1>4. /\ proc'[p] = r /\ \A q \in Runs \ {p} : proc'[q] = proc[q]
      /\ opPhase'[r.v] = o /\ step'[r.v] = s
  BY <1>2, <1>3 DEF Inductive, TypeOK
<1>5. \A q \in Runs \ {p} : proc[q].pc \in Recording => proc[q].v # r.v
  BY <1>1, <1>2, <1>3 DEF InRecord
<1>6. InRecord(p)'
  BY <1>3, <1>4, <1>5 DEF InRecord, Recording, Applying
<1>7. /\ budget' \in [edits : 0..MaxEdits, deaths : 0..MaxDeaths, faults : 0..MaxFaults]
      /\ budget'.faults <= budget.faults
  BY DEF Inductive, TypeOK
<1>8. Records(p, r, o, s)
  BY <1>2, <1>3, <1>5, <1>7 DEF Records, OpPhases
<1> QED BY <1>6, <1>8, RecordMove

LEMMA RecordRejectionStep ==
  ASSUME Inductive, NEW p \in Runs, RecordRejection(p)
  PROVE  Inductive'
<1> DEFINE v == proc[p].v
<1>1. proc[p].pc = "cleanup" /\ proc[p].pc \in Recording
  BY DEF RecordRejection, At, Recording
<1>2. /\ proc[p] \in RunState /\ InRecord(p) /\ step[v] = "pending"
  BY <1>1, Owner
<1>3. /\ step' = [step EXCEPT ![v] = "needs-manual-cleanup"]
      /\ opPhase' = [opPhase EXCEPT ![v] = "needs-manual-cleanup"]
      /\ Tell(p, proc[p].why)
      /\ UNCHANGED <<row, planned, budget, disk, whole>>
  BY <1>2 DEF RecordRejection, Keep
<1>4. /\ proc[p].why \in Answers \ {"imported"} /\ Goto(p, "done")
      /\ answer' = [answer EXCEPT ![p] = proc[p].why]
      /\ row = v => budget.faults < MaxFaults
  BY <1>1, <1>2, <1>3 DEF Tell, InRecord, RunState
<1> QED BY <1>1, <1>3, <1>4, JournalMove DEF StepPhases

LEMMA RecordStepStep ==
  ASSUME Inductive, NEW p \in Runs, RecordStep(p)
  PROVE  Inductive'
<1> DEFINE v == proc[p].v
<1>1. proc[p].pc = "written" /\ proc[p].pc \in Recording
  BY DEF RecordStep, At, Recording
<1>2. /\ InRecord(p) /\ step[v] = "pending"
      /\ opPhase = [opPhase EXCEPT ![v] = "applying"]
  BY <1>1, Owner
<1>3. /\ step' = [step EXCEPT ![v] = "succeeded"]
      /\ opPhase' = [opPhase EXCEPT ![v] = "applying"]
      /\ Goto(p, "finish") /\ answer' = answer /\ row = v
      /\ UNCHANGED <<row, planned, budget, disk, whole>>
  BY <1>1, <1>2 DEF RecordStep, Keep, InRecord
<1> QED BY <1>1, <1>3, JournalMove DEF StepPhases

LEMMA FinishStep ==
  ASSUME Inductive, NEW p \in Runs, Finish(p)
  PROVE  Inductive'
<1> DEFINE v == proc[p].v
<1>1. proc[p].pc = "finish" /\ proc[p].pc \in Recording
  BY DEF Finish, At, Recording
<1>2. /\ InRecord(p) /\ opPhase[v] = "applying" /\ step \in [Versions -> StepPhases]
      /\ v \in Versions
  BY <1>1, Owner DEF Inductive, TypeOK
<1>3. /\ row = v /\ step[v] = "succeeded" /\ step = [step EXCEPT ![v] = "succeeded"]
  BY <1>1, <1>2 DEF InRecord
<1>4. /\ step' = [step EXCEPT ![v] = "succeeded"]
      /\ opPhase' = [opPhase EXCEPT ![v] = "succeeded"]
      /\ Goto(p, "done") /\ answer' = [answer EXCEPT ![p] = "imported"]
      /\ UNCHANGED <<row, planned, budget, disk, whole>>
  BY <1>2, <1>3 DEF Finish, Keep, Tell
<1> QED BY <1>1, <1>3, <1>4, JournalMove DEF StepPhases, Answers

LEMMA DieStep ==
  ASSUME Inductive, NEW p \in Runs, Die(p)
  PROVE  Inductive'
<1> DEFINE kept == IF proc[p].asked = 0 THEN Idle ELSE proc[p]
           r    == [kept EXCEPT !.pc = "done"]
<1>1. /\ proc[p] \in RunState /\ InImport(p) /\ InRecord(p) /\ planned \subseteq Versions
      /\ Idle \in RunState /\ Idle.asked = 0
  BY DEF Inductive, TypeOK, RunState, ImportInv, RecordInv, Idle, Labels, Targets, Answers
<1>2. /\ r \in RunState /\ r.pc = "done" /\ r.asked = proc[p].asked
      /\ proc[p].asked # 0 => r.v = proc[p].v
  BY <1>1 DEF RunState, Labels
<1>3. /\ proc' = [proc EXCEPT ![p] = r] /\ answer' = answer /\ planned' = planned
      /\ UNCHANGED <<row, opPhase, step, database, disk, whole>>
  BY DEF Die, database
<1>4. /\ budget' \in [edits : 0..MaxEdits, deaths : 0..MaxDeaths, faults : 0..MaxFaults]
      /\ budget'.faults = budget.faults
  BY MigrationAssumption DEF Die, Inductive, TypeOK
<1>5. proc[p].pc \in {"imported"} \cup Reading \cup Applying
  BY <1>1 DEF Die, At, RunState, Labels, Reading, Applying
<1>6. r.pc \notin Reading /\ r.pc \notin Applying
  BY <1>2 DEF Reading, Applying
<1> HIDE DEF r
<1>7. CASE proc[p].pc \in {"imported"} \cup Reading
  <2>1. answer[p] = "none" /\ proc[p].asked = 0
    BY <1>1, <1>7 DEF InImport, Reading
  <2> QED BY <1>2, <1>3, <1>4, <1>6, <2>1, ImportMove
<1>8. CASE proc[p].pc \in Applying
  <2>1. proc[p].asked = proc[p].v /\ proc[p].v \in Versions
    BY <1>1, <1>8, Past DEF InRecord
  <2>2. r.v = proc[p].v
    BY <1>2, <2>1 DEF Versions
  <2> QED BY <1>1, <1>2, <1>3, <1>4, <1>6, <1>8, <2>2, AsideMove
<1> QED BY <1>5, <1>7, <1>8

-----------------------------------------------------------------------------
(* The theorems.                                                           *)

LEMMA InductiveInit == Init => Inductive
<1> SUFFICES ASSUME Init PROVE Inductive
  OBVIOUS
<1> USE MigrationAssumption DEF Init
<1>1. /\ 1 \in Versions /\ OldRow \notin Versions /\ NoRow \notin Versions
      /\ 1 <= MaxVersion
  BY DEF Versions, OldRow, NoRow
<1>2. TypeOK
  BY <1>1 DEF RunState, TypeOK, Idle, Labels, Answers, OpPhases, StepPhases, Targets
<1>3. OnDisk
  BY DEF OnDisk, Targets
<1>4. \A p \in Runs : InImport(p) /\ InRecord(p)
  BY DEF InImport, InRecord, Noted, Reading, Applying, Recording, Idle
<1>5. \A v \in Versions : Unstarted(v)
  BY <1>1 DEF Unstarted
<1>6. OutcomesAreTrue /\ OwnAtOnce
  BY DEF OutcomesAreTrue, OwnAtOnce, Idle
<1> QED BY <1>2, <1>3, <1>4, <1>5, <1>6 DEF Inductive, ImportInv, RecordInv

LEMMA InductiveNext == Inductive /\ [Next]_vars => Inductive'
<1> SUFFICES ASSUME Inductive, [Next]_vars PROVE Inductive'
  OBVIOUS
<1>1. CASE Installer
  BY <1>1, InstallerStep
<1>2. CASE \E t \in Targets : Edit(t)
  BY <1>2, EditStep
<1>3. ASSUME NEW p \in Runs, Begin(p) \/ Run(p) \/ Die(p) PROVE Inductive'
  <2>1. CASE Begin(p)
    BY <2>1, BeginStep
  <2>2. CASE Import(p)
    BY <2>2, StatStep, ReadStep, VerifyStep DEF Import
  <2>3. CASE Plan(p)
    BY <2>3, PlanStep
  <2>4. CASE Write(p)
    BY <2>4, LookupStep, UpsertStep, ReadbackStep DEF Write
  <2>5. CASE Journal(p)
    BY <2>5, SaveDeploymentStep, PrepareStep, InsertPlanStep, StartStep,
       RecordRejectionStep, RecordStepStep, FinishStep DEF Journal
  <2>6. CASE Die(p)
    BY <2>6, DieStep
  <2> QED BY <1>3, <2>1, <2>2, <2>3, <2>4, <2>5, <2>6 DEF Run
<1>4. CASE UNCHANGED vars
  BY <1>4 DEF vars, disk, database, Inductive, TypeOK, ImportInv, OnDisk, InImport,
     Noted, Own, Reads, Honest, RecordInv, InRecord, Unstarted, OutcomesAreTrue,
     OwnAtOnce
<1> QED BY <1>1, <1>2, <1>3, <1>4 DEF Next

\* The invariant: types, what each run knows of the disk it has read, and of
\* the operation that it alone records.
THEOREM InductiveInvariant == Spec => []Inductive
BY InductiveInit, InductiveNext, PTL DEF Spec

\* Every variable keeps its type: no step of the installer goes beyond the
\* versions there are, and no row, plan or answer is made of a receipt that
\* was not read.
THEOREM TypeCorrect == Spec => []TypeOK
<1>1. Inductive => TypeOK
  BY DEF Inductive
<1> QED BY <1>1, InductiveInvariant, PTL

-----------------------------------------------------------------------------
(* Why the shared files, too, were on disk with the others, unless the     *)
(* receipt was read in the midst of a removal.  A receipt that is read at  *)
(* any other time is that of the version that is installed, and all of it  *)
(* is there, except for what the user has changed.  The installer removes  *)
(* nothing as long as something is changed, so the run will find it out.   *)

Placed ==
  /\ legacy = "idle" => \A t \in Targets : file[t].v \in {current, ByHand}
  /\ legacy = "placing" =>
       /\ file[Receipt].v = Gone
       /\ \A f \in Files : file[f].v \in {Gone, current + 1, ByHand}

Doubt(r) ==
  \/ \E f \in r.left \ Shared : file[f].v # r.v
  \/ legacy = "idle" /\ \E f \in r.left : file[f].v = ByHand

Sure(p) == proc[p].late \/ proc[p].v \in whole.all[p]

Entire(p) ==
  LET r == proc[p] IN
  /\ r.pc \in Reading => \A v \in Versions : Whole(v) => v \in whole.all[p]
  /\ r.pc \in Reading /\ r.at # Receipt => Sure(p) \/ Doubt(r)
  /\ r.pc \in {"imported"} \cup Applying => Sure(p)
  /\ r.asked # 0 \/ answer[p] = "planned" => Sure(p)

EntireInv == Placed /\ \A p \in Runs : Entire(p)

\* What the installer and the user do to the disk.
LEMMA PutEntire ==
  ASSUME Inductive, EntireInv, NEW t \in Targets,
         RemoveOld(t) \/ PlaceNew(t) \/ (Edit(t) /\ UNCHANGED <<legacy, current>>)
  PROVE  /\ Placed'
         /\ \A p \in Runs :
              proc[p].pc \in Reading /\ proc[p].at # Receipt /\ Doubt(proc[p]) =>
                \/ \E f \in proc[p].left \ Shared : file'[f].v # proc[p].v
                \/ legacy' = "idle" /\ \E f \in proc[p].left : file'[f].v = ByHand
<1> USE MigrationAssumption
<1>1. /\ file \in [Targets -> [id : Nat, v : {Gone, ByHand} \cup Versions]]
      /\ current \in Nat /\ current > 0 /\ Placed
      /\ Gone \notin Versions /\ ByHand \notin Versions /\ Gone # ByHand
      /\ \A f \in Files : f \in Targets /\ f # Receipt
  BY DEF Inductive, TypeOK, Versions, EntireInv, Gone, ByHand, Targets
<1>2. PICK c \in {Gone, ByHand, current + 1}, id \in Nat :
        /\ Put(t, id, c)
        /\ c = Gone => RemoveOld(t)
        /\ c = ByHand => Edit(t) /\ legacy' = legacy /\ current' = current
        /\ c = current + 1 => PlaceNew(t)
  BY <1>1 DEF RemoveOld, PlaceNew, Edit, Gone, ByHand, Inductive, TypeOK
<1>3. file'[t].v = c /\ \A u \in Targets \ {t} : file'[u] = file[u]
  BY <1>1, <1>2 DEF Put
<1>4. CASE c = Gone
  <2>1. /\ legacy = "idle" => Whole(current)
        /\ legacy' = IF t = Receipt THEN "placing" ELSE "removing"
        /\ t = Receipt => \A f \in Files : file[f].v = Gone
    BY <1>2, <1>4 DEF RemoveOld
  <2>2. Placed'
    BY <1>1, <1>3, <1>4, <2>1 DEF Placed
  <2>3. legacy = "idle" => \A f \in Files : file[f].v # ByHand
    BY <1>1, <2>1 DEF Whole, Same, ByHand
  <2>4. ASSUME NEW p \in Runs, proc[p].pc \in Reading, proc[p].at # Receipt, Doubt(proc[p])
        PROVE  \E f \in proc[p].left \ Shared : file'[f].v # proc[p].v
    <3>1. proc[p].left \subseteq Files /\ proc[p].v \in Versions
      BY <2>4 DEF Inductive, TypeOK, RunState, ImportInv, InImport, Reads
    <3>2. PICK f \in proc[p].left \ Shared : file[f].v # proc[p].v
      BY <2>3, <2>4, <3>1 DEF Doubt
    <3>3. file'[f].v # proc[p].v
      BY <1>1, <1>3, <1>4, <3>1, <3>2
    <3> QED BY <3>2, <3>3
  <2> QED BY <2>2, <2>4
<1>5. CASE c = current + 1
  <2>1. /\ legacy = "placing" /\ file[t].v = Gone
        /\ t = Receipt => \A f \in Files : file[f].v # Gone
        /\ t = Receipt => legacy' = "idle" /\ current' = current + 1
        /\ t # Receipt => legacy' = legacy /\ current' = current
    BY <1>1, <1>2, <1>5 DEF PlaceNew, Gone, ByHand
  <2>2. Placed'
    BY <1>1, <1>3, <1>5, <2>1 DEF Placed, Targets
  <2>4. ASSUME NEW p \in Runs, proc[p].pc \in Reading, proc[p].at # Receipt, Doubt(proc[p])
        PROVE  \E f \in proc[p].left \ Shared : file'[f].v # proc[p].v
    <3>1. proc[p].left \subseteq Files /\ proc[p].v \in Versions /\ proc[p].v <= current
      BY <2>4 DEF Inductive, TypeOK, RunState, ImportInv, InImport, Reads
    <3>2. PICK f \in proc[p].left \ Shared : file[f].v # proc[p].v
      BY <2>1, <2>4 DEF Doubt
    <3>3. file'[f].v # proc[p].v
      <4>1. current + 1 # proc[p].v
        BY <1>1, <3>1 DEF Versions
      <4> QED BY <1>1, <1>3, <1>5, <3>1, <3>2, <4>1
    <3> QED BY <3>2, <3>3
  <2> QED BY <2>2, <2>4
<1>6. CASE c = ByHand
  <2>1. legacy' = legacy /\ current' = current /\ file[t].v # Gone
    BY <1>2, <1>6 DEF Edit
  <2>2. Placed'
    <3>1. legacy = "placing" => t # Receipt
      BY <1>1, <2>1 DEF Placed
    <3>2. \A u \in Targets : file'[u].v = file[u].v \/ file'[u].v = ByHand
      BY <1>3, <1>6
    <3>3. legacy' = "idle" => \A u \in Targets : file'[u].v \in {current', ByHand}
      BY <1>1, <2>1, <3>2 DEF Placed
    <3>4. legacy' = "placing" => file'[Receipt].v = Gone
      BY <1>1, <1>3, <2>1, <3>1 DEF Placed, Targets
    <3>5. legacy' = "placing" =>
            \A f \in Files : file'[f].v \in {Gone, current' + 1, ByHand}
      BY <1>1, <2>1, <3>2 DEF Placed
    <3> QED BY <3>3, <3>4, <3>5 DEF Placed
  <2>4. ASSUME NEW p \in Runs, proc[p].pc \in Reading, proc[p].at # Receipt, Doubt(proc[p])
        PROVE  \/ \E f \in proc[p].left \ Shared : file'[f].v # proc[p].v
               \/ legacy' = "idle" /\ \E f \in proc[p].left : file'[f].v = ByHand
    <3>1. proc[p].left \subseteq Files /\ proc[p].v \in Versions
      BY <2>4 DEF Inductive, TypeOK, RunState, ImportInv, InImport, Reads
    <3>2. \A f \in proc[p].left : file'[f].v = file[f].v \/ file'[f].v = ByHand
      BY <1>1, <1>3, <1>6, <3>1
    <3>3. proc[p].v # ByHand
      BY <1>1, <3>1
    <3>4. CASE \E f \in proc[p].left \ Shared : file[f].v # proc[p].v
      BY <3>2, <3>3, <3>4
    <3>5. CASE legacy = "idle" /\ \E f \in proc[p].left : file[f].v = ByHand
      BY <2>1, <3>2, <3>5
    <3> QED BY <2>4, <3>4, <3>5 DEF Doubt
  <2> QED BY <2>2, <2>4
<1> QED BY <1>2, <1>4, <1>5, <1>6

LEMMA DiskEntire ==
  ASSUME Inductive, EntireInv, Installer \/ \E t \in Targets : Edit(t)
  PROVE  EntireInv'
<1>1. PICK t \in Targets :
        RemoveOld(t) \/ PlaceNew(t) \/ (Edit(t) /\ UNCHANGED <<legacy, current>>)
  BY DEF Installer, Edit
<1>2. Note /\ proc' = proc /\ answer' = answer
  BY DEF Installer, Edit
<1>3. \A q \in Runs :
        /\ whole.all[q] \subseteq whole'.all[q]
        /\ proc[q].pc \in Reading => \A v \in Versions : Whole(v)' => v \in whole'.all[q]
  BY <1>2, Noting DEF Inductive
<1>4. ASSUME NEW q \in Runs PROVE Entire(q)'
  <2>1. Sure(q) => Sure(q)'
    BY <1>2, <1>3 DEF Sure
  <2>2. Entire(q)
    BY DEF EntireInv
  <2>3. proc[q].pc \in Reading /\ proc[q].at # Receipt => Sure(q)' \/ Doubt(proc[q])'
    BY <1>1, <1>2, <2>1, <2>2, PutEntire DEF Entire, Doubt
  <2> QED BY <1>2, <1>3, <2>1, <2>2, <2>3 DEF Entire
<1> QED BY <1>1, <1>4, PutEntire DEF EntireInv

\* A step of one run, which leaves the disk alone.
LEMMA RunEntire ==
  ASSUME Inductive, EntireInv, NEW p \in Runs, Entire(p)', UNCHANGED <<disk, whole>>,
         \A q \in Runs \ {p} : proc'[q] = proc[q] /\ answer'[q] = answer[q]
  PROVE  EntireInv'
<1>1. Placed'
  BY DEF EntireInv, Placed, disk
<1>2. ASSUME NEW q \in Runs \ {p} PROVE Entire(q)'
  <2>1. Entire(q)
    BY DEF EntireInv
  <2> QED BY <2>1 DEF Entire, Sure, Doubt, Whole, Same, disk
<1> QED BY <1>1, <1>2 DEF EntireInv

\* Most steps leave what the run has found out as it is.
LEMMA SteadyEntire ==
  ASSUME Inductive, EntireInv, NEW p \in Runs, UNCHANGED <<disk, whole>>,
         NEW r, proc' = [proc EXCEPT ![p] = r],
         \/ answer' = answer \/ \E a \in Answers : answer' = [answer EXCEPT ![p] = a],
         r.v = proc[p].v, r.late = proc[p].late,
         r.pc \in Reading =>
           proc[p].pc \in Reading /\ r.left = proc[p].left /\ r.at = proc[p].at,
         r.pc \in {"imported"} \cup Applying => proc[p].pc \in {"imported"} \cup Applying,
         r.asked # 0 \/ answer'[p] = "planned" =>
           proc[p].asked # 0 \/ proc[p].pc = "imported"
  PROVE  EntireInv'
<1>1. /\ proc'[p] = r
      /\ \A q \in Runs \ {p} : proc'[q] = proc[q] /\ answer'[q] = answer[q]
  BY DEF Inductive, TypeOK
<1>2. Entire(p) /\ (Sure(p) => Sure(p)')
  BY <1>1 DEF EntireInv, Sure
<1>3. Doubt(proc[p]) /\ r.left = proc[p].left => Doubt(proc[p])'
  BY <1>1 DEF Doubt, disk
<1>4. \A v \in Versions : Whole(v)' => Whole(v)
  BY DEF Whole, Same, disk
<1>5. Entire(p)'
  BY <1>1, <1>2, <1>3, <1>4 DEF Entire
<1> QED BY <1>1, <1>5, RunEntire

LEMMA BeginEntire ==
  ASSUME Inductive, EntireInv, NEW p \in Runs, Begin(p)
  PROVE  EntireInv'
<1>1. /\ proc \in [Runs -> RunState] /\ proc[p].at = Receipt /\ proc[p].asked = 0
      /\ answer[p] # "planned" /\ Note /\ answer' = answer
      /\ UNCHANGED disk
  BY DEF Inductive, TypeOK, RunState, ImportInv, InImport, Begin, At
<1>2. /\ proc'[p].pc = "stat" /\ proc'[p].at = Receipt /\ proc'[p].asked = 0
      /\ \A q \in Runs \ {p} : proc'[q] = proc[q]
  BY <1>1 DEF Begin, Goto, RunState
<1>3. \A q \in Runs :
        /\ whole.all[q] \subseteq whole'.all[q]
        /\ proc'[q].pc \in Reading => \A v \in Versions : Whole(v)' => v \in whole'.all[q]
  BY <1>1, Noting DEF Inductive
<1>4. Placed'
  BY <1>1 DEF EntireInv, Placed, disk
<1>5. Entire(p)'
  BY <1>1, <1>2, <1>3 DEF Entire, Applying
<1>6. ASSUME NEW q \in Runs \ {p} PROVE Entire(q)'
  <2>1. Entire(q) /\ (Sure(q) => Sure(q)')
    BY <1>2, <1>3 DEF EntireInv, Sure
  <2>2. Doubt(proc[q]) => Doubt(proc[q])'
    BY <1>1, <1>2 DEF Doubt, disk
  <2> QED BY <1>1, <1>2, <1>3, <2>1, <2>2 DEF Entire
<1> QED BY <1>4, <1>5, <1>6 DEF EntireInv

\* The receipt is that of the version that is there, or the last file is read.
LEMMA VerifyEntire ==
  ASSUME Inductive, EntireInv, NEW p \in Runs, Verify(p)
  PROVE  EntireInv'
<1> USE MigrationAssumption
<1> DEFINE t    == proc[p].at
           now  == file[t]
           left == IF t = Receipt THEN Files ELSE proc[p].left \ {t}
           v    == IF t = Receipt THEN now.v ELSE proc[p].v
           late == IF t = Receipt THEN legacy = "removing" ELSE proc[p].late
           me   == [proc[p] EXCEPT !.left = left, !.v = v, !.late = late]
           next == [me EXCEPT !.pc = "stat", !.at = CHOOSE f \in left : TRUE]
           end  == [me EXCEPT !.pc = "imported"]
<1>1. /\ proc \in [Runs -> RunState] /\ proc[p] \in RunState /\ InImport(p) /\ Entire(p)
      /\ proc[p].pc \in Reading /\ Reads(p) /\ t \in Targets /\ Receipt \in Targets
      /\ Placed /\ answer[p] = "none" /\ proc[p].asked = 0
      /\ legacy \in {"idle", "removing", "placing"}
  BY DEF Inductive, ImportInv, TypeOK, RunState, EntireInv, Verify, At, Reading, InImport,
     Targets
<1>2. CASE Refuse(p)
  <2> DEFINE r == [proc[p] EXCEPT !.pc = "done"]
  <2>1. /\ proc' = [proc EXCEPT ![p] = r] /\ UNCHANGED <<disk, whole>>
        /\ answer' = [answer EXCEPT ![p] = "not-importable"]
        /\ "not-importable" \in Answers
    BY <1>2 DEF Refuse, Tell, Goto, Answers
  <2>2. r.pc = "done" /\ r.v = proc[p].v /\ r.late = proc[p].late /\ r.asked = 0
    BY <1>1 DEF RunState
  <2>3. answer'[p] # "planned"
    BY <2>1 DEF Inductive, TypeOK
  <2> HIDE DEF r
  <2> QED BY <2>1, <2>2, <2>3, SteadyEntire DEF Reading, Applying
<1>3. CASE /\ Fits(p, now.v)
           /\ IF left = {} THEN proc' = [proc EXCEPT ![p] = end]
                          ELSE proc' = [proc EXCEPT ![p] = next]
           /\ UNCHANGED <<disk, database, answer, whole, budget>>
  <2>1. late \/ v \in whole.all[p] \/ (\E f \in left \ Shared : file[f].v # v)
          \/ (legacy = "idle" /\ \E f \in left : file[f].v = ByHand)
    <3>1. CASE t = Receipt
      <4>1. now.v \in Versions /\ Gone \notin Versions /\ ByHand \notin Versions
        BY <1>3, <3>1 DEF Fits, Gone, ByHand, Versions
      <4>2. legacy # "placing"
        BY <1>1, <3>1, <4>1 DEF Placed
      <4>3. CASE legacy = "idle"
        <5>1. v = current /\ v \in Versions
          BY <1>1, <3>1, <4>1, <4>3 DEF Placed
        <5>2. CASE \E f \in Files : file[f].v = ByHand
          BY <3>1, <4>3, <5>2
        <5>3. CASE ~\E f \in Files : file[f].v = ByHand
          <6>1. Whole(v)
            BY <1>1, <3>1, <4>3, <5>1, <5>3 DEF Placed, Whole, Same, Targets
          <6> QED BY <1>1, <5>1, <6>1 DEF Entire
        <5> QED BY <5>2, <5>3
      <4> QED BY <1>1, <3>1, <4>2, <4>3
    <3>2. CASE t # Receipt
      <4>1. Sure(p) \/ Doubt(proc[p])
        BY <1>1, <3>2 DEF Entire
      <4>2. /\ t \notin Shared => now.v = v
            /\ now.v # ByHand /\ left = proc[p].left \ {t}
        BY <1>1, <1>3, <3>2 DEF Fits, Same, Reads, ByHand, Versions
      <4> QED BY <3>2, <4>1, <4>2 DEF Sure, Doubt
    <3> QED BY <3>1, <3>2
  <2>2. me.v = v /\ me.left = left /\ me.asked = 0 /\ me.late = late
    BY <1>1 DEF RunState
  <2>3. \A q \in Runs \ {p} : proc'[q] = proc[q] /\ answer'[q] = answer[q]
    BY <1>1, <1>3
  <2> HIDE DEF left, v, late
  <2>4. next.v = v /\ next.left = left /\ next.asked = 0 /\ next.late = late /\ next.pc = "stat"
    BY <1>1, <2>2 DEF RunState
  <2>5. end.v = v /\ end.asked = 0 /\ end.late = late /\ end.pc = "imported"
    BY <1>1, <2>2 DEF RunState
  <2> HIDE DEF me, next, end
  <2>6. CASE left = {}
    <3>1. proc'[p] = end /\ (late \/ v \in whole.all[p])
      BY <1>1, <1>3, <2>1, <2>6
    <3>2. Entire(p)'
      BY <1>1, <1>3, <2>5, <3>1 DEF Entire, Sure, Reading
    <3> QED BY <1>3, <2>3, <3>2, RunEntire
  <2>7. CASE left # {}
    <3>1. proc'[p] = next
      BY <1>1, <1>3, <2>7
    <3>2. Entire(p)'
      <4>1. \A u \in Versions : Whole(u)' => u \in whole'.all[p]
        BY <1>1, <1>3 DEF Entire, Whole, Same, disk
      <4>2. Sure(p)' \/ Doubt(proc[p])'
        BY <1>3, <2>1, <2>4, <3>1 DEF Sure, Doubt, disk
      <4> QED BY <1>1, <1>3, <2>4, <3>1, <4>1, <4>2 DEF Entire, Applying
    <3> QED BY <1>3, <2>3, <3>2, RunEntire
  <2> QED BY <2>6, <2>7
<1>4. now.id # proc[p].id \/ ~Fits(p, now.v) => Refuse(p)
  BY DEF Verify
<1>5. ~(now.id # proc[p].id \/ ~Fits(p, now.v)) =>
        /\ Fits(p, now.v)
        /\ IF left = {} THEN proc' = [proc EXCEPT ![p] = end]
                       ELSE proc' = [proc EXCEPT ![p] = next]
        /\ UNCHANGED <<disk, database, answer, whole, budget>>
  BY DEF Verify, Silent
<1> QED BY <1>2, <1>3, <1>4, <1>5

\* p goes on to label l, or gives the answer a, with what it knows.
LEMMA OtherEntire ==
  ASSUME Inductive, EntireInv, NEW p \in Runs,
         Stat(p) \/ Read(p) \/ Plan(p) \/ Write(p) \/ Journal(p)
  PROVE  EntireInv'
<1>1. /\ proc \in [Runs -> RunState] /\ proc[p] \in RunState /\ UNCHANGED <<disk, whole>>
      /\ answer \in [Runs -> Answers] /\ InImport(p) /\ InRecord(p)
  BY DEF Inductive, TypeOK, RunState, ImportInv, RecordInv, Stat, Read, Plan, Write, Lookup,
     Upsert, Readback, Journal, SaveDeployment, Prepare, InsertPlan, Start,
     RecordRejection, RecordStep, Finish, Keep, Silent, Refuse
<1>2. ASSUME NEW r, proc' = [proc EXCEPT ![p] = r],
             r.v = proc[p].v, r.late = proc[p].late,
             r.left = proc[p].left, r.at = proc[p].at,
             r.pc \in Reading => proc[p].pc \in Reading,
             r.pc \in {"imported"} \cup Applying => proc[p].pc \in {"imported"} \cup Applying,
             r.asked = proc[p].asked \/ proc[p].pc = "imported",
             \/ answer' = answer
             \/ \E a \in Answers : /\ answer' = [answer EXCEPT ![p] = a]
                                   /\ a = "planned" => proc[p].pc = "imported",
             answer[p] # "planned"
      PROVE  EntireInv'
  BY <1>1, <1>2, SteadyEntire
<1>3. proc[p].pc # "done" => answer[p] # "planned"
  BY <1>1 DEF InImport
<1>4. CASE Stat(p)
  <2>1. CASE Refuse(p)
    <3> DEFINE r == [proc[p] EXCEPT !.pc = "done"]
    <3>1. /\ r.pc = "done" /\ r.v = proc[p].v /\ r.late = proc[p].late
          /\ r.left = proc[p].left /\ r.at = proc[p].at /\ r.asked = proc[p].asked
          /\ proc[p].pc = "stat"
      BY <1>1, <1>4 DEF RunState, Stat, At
    <3>2. proc' = [proc EXCEPT ![p] = r] /\ answer' = [answer EXCEPT ![p] = "not-importable"]
      BY <2>1 DEF Refuse, Tell, Goto
    <3> HIDE DEF r
    <3> QED BY <1>2, <1>3, <3>1, <3>2 DEF Reading, Applying, Answers
  <2>2. CASE ~Refuse(p)
    <3> DEFINE r == [proc[p] EXCEPT !.pc = "read", !.id = file[proc[p].at].id]
    <3>1. /\ r.pc = "read" /\ r.v = proc[p].v /\ r.late = proc[p].late
          /\ r.left = proc[p].left /\ r.at = proc[p].at /\ r.asked = proc[p].asked
          /\ proc[p].pc = "stat"
      BY <1>1, <1>4 DEF RunState, Stat, At
    <3>2. proc' = [proc EXCEPT ![p] = r] /\ answer' = answer
      BY <1>4, <2>2 DEF Stat, Silent
    <3> HIDE DEF r
    <3> QED BY <1>2, <1>3, <3>1, <3>2 DEF Reading, Applying
  <2> QED BY <2>1, <2>2
<1>5. ASSUME NEW l \in Labels, Goto(p, l), proc[p].pc # "done",
             l \in Reading => proc[p].pc \in Reading,
             l \in {"imported"} \cup Applying => proc[p].pc \in {"imported"} \cup Applying,
             \/ answer' = answer
             \/ \E a \in Answers : /\ answer' = [answer EXCEPT ![p] = a]
                                   /\ a = "planned" => proc[p].pc = "imported"
      PROVE  EntireInv'
  <2> DEFINE r == [proc[p] EXCEPT !.pc = l]
  <2>1. /\ r.pc = l /\ r.v = proc[p].v /\ r.late = proc[p].late
        /\ r.left = proc[p].left /\ r.at = proc[p].at /\ r.asked = proc[p].asked
    BY <1>1 DEF RunState
  <2>2. proc' = [proc EXCEPT ![p] = r]
    BY <1>5 DEF Goto
  <2> HIDE DEF r
  <2> QED BY <1>2, <1>3, <1>5, <2>1, <2>2
<1>6. CASE Read(p)
  <2>1. proc[p].pc = "read" /\ (Goto(p, "done") \/ Goto(p, "verify"))
    BY <1>6 DEF Read, At, Refuse, Tell
  <2>2. answer' = answer \/ answer' = [answer EXCEPT ![p] = "not-importable"]
    BY <1>6 DEF Read, Refuse, Tell, Silent
  <2> QED BY <1>5, <2>1, <2>2 DEF Labels, Reading, Applying, Answers
<1>7. CASE Plan(p)
  BY <1>5, <1>7 DEF Plan, At, Tell, Labels, Reading, Applying, Answers
<1>8. CASE Write(p)
  <2>1. proc[p].pc \in Applying /\ answer' = answer
    BY <1>8 DEF Write, Lookup, Upsert, Readback, At, Applying
  <2>2. \/ \E l \in Applying : Goto(p, l)
        \/ \E y \in Answers : Reject(p, y)
    BY <1>8 DEF Write, Lookup, Upsert, Readback, Applying, Answers
  <2>3. ASSUME NEW l \in Applying, Goto(p, l) PROVE EntireInv'
    BY <1>5, <2>1, <2>3 DEF Labels, Reading, Applying
  <2>4. ASSUME NEW y \in Answers, Reject(p, y) PROVE EntireInv'
    <3> DEFINE r == [proc[p] EXCEPT !.pc = "cleanup", !.why = y]
    <3>1. /\ r.pc = "cleanup" /\ r.v = proc[p].v /\ r.late = proc[p].late
          /\ r.left = proc[p].left /\ r.at = proc[p].at /\ r.asked = proc[p].asked
      BY <1>1 DEF RunState
    <3>2. proc' = [proc EXCEPT ![p] = r]
      BY <1>1, <2>4 DEF Reject
    <3> HIDE DEF r
    <3> QED BY <1>2, <1>3, <2>1, <3>1, <3>2 DEF Reading, Applying
  <2> QED BY <2>2, <2>3, <2>4
<1>9. CASE SaveDeployment(p)
  <2> DEFINE r == [proc[p] EXCEPT !.pc = "prepare", !.asked = proc[p].v]
  <2>1. /\ r.pc = "prepare" /\ r.v = proc[p].v /\ r.late = proc[p].late
        /\ r.left = proc[p].left /\ r.at = proc[p].at /\ proc[p].pc = "imported"
    BY <1>1, <1>9 DEF RunState, SaveDeployment, At
  <2>2. proc' = [proc EXCEPT ![p] = r] /\ answer' = answer
    BY <1>1, <1>9 DEF SaveDeployment
  <2> HIDE DEF r
  <2> QED BY <1>2, <1>3, <2>1, <2>2 DEF Reading
<1>10. CASE Journal(p) /\ ~SaveDeployment(p)
  <2>1. proc[p].pc \in Applying
    BY <1>10 DEF Journal, Prepare, InsertPlan, Start, RecordRejection, RecordStep, Finish,
       At, Applying
  <2>2. \/ answer' = answer /\ \E l \in Applying : Goto(p, l)
        \/ \E a \in {"error", "imported"} : Tell(p, a)
        \/ proc[p].pc = "cleanup" /\ Tell(p, proc[p].why)
    BY <1>10 DEF Journal, Prepare, InsertPlan, Start, RecordRejection, RecordStep, Finish,
       Applying, At
  <2>3. CASE answer' = answer /\ \E l \in Applying : Goto(p, l)
    BY <1>5, <2>1, <2>3 DEF Labels, Reading, Applying
  <2>4. ASSUME NEW a \in Answers \ {"planned"}, Tell(p, a)
        PROVE  EntireInv'
    BY <1>5, <2>1, <2>4 DEF Labels, Reading, Applying, Tell
  <2>5. proc[p].pc = "cleanup" => proc[p].why \in Answers \ {"planned"}
    BY <1>1 DEF InRecord, RunState
  <2>6. {"error", "imported"} \subseteq Answers \ {"planned"}
    BY DEF Answers
  <2> QED BY <2>2, <2>3, <2>4, <2>5, <2>6
<1> QED BY <1>4, <1>6, <1>7, <1>8, <1>9, <1>10

LEMMA DieEntire ==
  ASSUME Inductive, EntireInv, NEW p \in Runs, Die(p)
  PROVE  EntireInv'
<1>1. /\ proc \in [Runs -> RunState] /\ proc[p].pc # "done" /\ InImport(p) /\ Entire(p)
      /\ answer' = answer /\ UNCHANGED <<disk, whole>> /\ answer[p] = "none"
  BY DEF Inductive, TypeOK, RunState, ImportInv, InImport, EntireInv, Die, At
<1>2. /\ proc'[p].pc = "done" /\ proc'[p].asked = proc[p].asked
      /\ proc[p].asked # 0 => proc'[p].v = proc[p].v /\ proc'[p].late = proc[p].late
      /\ \A q \in Runs \ {p} : proc'[q] = proc[q]
  BY <1>1 DEF Die, RunState, Idle
<1>3. Entire(p)'
  BY <1>1, <1>2 DEF Entire, Sure, Reading, Applying
<1> QED BY <1>1, <1>2, <1>3, RunEntire

LEMMA EntireNext ==
  Inductive /\ EntireInv /\ [Next]_vars => EntireInv'
<1> SUFFICES ASSUME Inductive, EntireInv, [Next]_vars PROVE EntireInv'
  OBVIOUS
<1>1. CASE Installer \/ \E t \in Targets : Edit(t)
  BY <1>1, DiskEntire
<1>2. ASSUME NEW p \in Runs, Begin(p) \/ Run(p) \/ Die(p) PROVE EntireInv'
  BY <1>2, BeginEntire, VerifyEntire, OtherEntire, DieEntire DEF Run, Import
<1>3. CASE UNCHANGED vars
  BY <1>3 DEF vars, disk, EntireInv, Placed, Entire, Sure, Doubt, Whole, Same
<1> QED BY <1>1, <1>2, <1>3 DEF Next

LEMMA EntireInit == Init => EntireInv
<1> SUFFICES ASSUME Init PROVE EntireInv
  OBVIOUS
<1> QED BY MigrationAssumption DEF Init, EntireInv, Placed, Entire, Idle, Reading, Applying

\* A checkpoint, printed or recorded, is of an installation that was on disk
\* as a whole at one moment of the run, however its files were replaced or
\* edited while the run read them one after another.  Of the shared files this
\* is only claimed if the receipt was not read in the midst of a removal.
THEOREM CheckpointIsWhole == Spec => []WholeAtOnce
<1>1. Inductive /\ EntireInv => WholeAtOnce
  BY DEF Inductive, ImportInv, OwnAtOnce, EntireInv, Entire, Sure, WholeAtOnce
<1>2. Spec => []EntireInv
  BY InductiveInvariant, EntireInit, EntireNext, PTL DEF Spec
<1> QED BY <1>1, <1>2, InductiveInvariant, PTL

\* What is printed and what the journal says agree with the lifecycle row:
\* an import that is reported done is the row, and a migration is marked for
\* manual cleanup while it is the row only after a statement has failed.
THEOREM OutcomesCorrect == Spec => []OutcomesAreTrue
<1>1. Inductive => OutcomesAreTrue
  BY DEF Inductive, RecordInv
<1> QED BY <1>1, InductiveInvariant, PTL

-----------------------------------------------------------------------------
(* The lifecycle row is a register that is written once (WriteOnce).  An   *)
(* upsert that writes is WriteValue, the end of a run is Tell, and what    *)
(* happens in between cannot be seen.                                      *)

\* A step that the register and its callers do not see.
LEMMA Unseen ==
  ASSUME Register' = Register,
         \A q \in Runs : /\ proc'[q].asked = proc[q].asked
                         /\ Stage(q)' = Stage(q) /\ Told(q)' = Told(q)
  PROVE  UNCHANGED Once!onceVars
BY DEF Once!onceVars

\* p goes from one label of apply to another, or stays outside of apply.
LEMMA UnseenMove ==
  ASSUME TypeOK, NEW p \in Runs, NEW r \in RunState,
         proc' = [proc EXCEPT ![p] = r], r.asked = proc[p].asked,
         r.pc \in Applying <=> proc[p].pc \in Applying,
         \/ answer' = answer
         \/ /\ answer[p] = "none"
            /\ \E a \in {"planned", "not-importable"} : answer' = [answer EXCEPT ![p] = a],
         row' = row
  PROVE  UNCHANGED Once!onceVars
<1>1. proc \in [Runs -> RunState] /\ answer \in [Runs -> Answers]
  BY DEF TypeOK, RunState
<1>2. Register' = Register
  BY DEF Register
<1>3. ASSUME NEW q \in Runs
      PROVE  /\ proc'[q].asked = proc[q].asked
             /\ Stage(q)' = Stage(q) /\ Told(q)' = Told(q)
  BY <1>1 DEF Stage, Told
<1> QED BY <1>2, <1>3, Unseen

\* The run of p is over, and the answer a is true of the row.
LEMMA TellMove ==
  ASSUME Inductive, NEW p \in Runs, proc[p].pc \in Applying, NEW a \in Answers,
         Goto(p, "done"), answer' = [answer EXCEPT ![p] = a], row' = row,
         a \in {"imported", "already-present", "invalid", "io-failure", "error"},
         a = "imported" => row = proc[p].v,
         a = "already-present" => row \in Versions \ {proc[p].v}
  PROVE  Once!OnceNext
<1>1. /\ proc \in [Runs -> RunState] /\ answer \in [Runs -> Answers]
      /\ proc[p].asked = proc[p].v /\ proc[p].v \in Versions
  BY Past DEF Inductive, TypeOK, RunState, InRecord
<1>2. /\ proc'[p].pc = "done" /\ proc'[p].asked = proc[p].asked /\ answer'[p] = a
      /\ \A q \in Runs \ {p} : proc'[q] = proc[q] /\ answer'[q] = answer[q]
  BY <1>1 DEF Goto, RunState
<1>3. /\ Stage(p) = "applying" /\ Stage(p)' = "idle"
      /\ \A q \in Runs \ {p} : Stage(q)' = Stage(q) /\ Told(q)' = Told(q)
      /\ \A q \in Runs : proc'[q].asked = proc[q].asked
      /\ Register' = Register
  BY <1>2 DEF Stage, Told, Register, Applying
<1> DEFINE t == Told(p)'
<1>4. /\ t \in {"ok", "drift", "error"}
      /\ t = "ok" => a = "imported"
      /\ t = "drift" => a = "already-present"
  BY <1>2 DEF Told
<1>5. Once!Allowed(p, t)
  <2>1. row \in Versions => Register = row
    BY DEF Register, OldRow, Versions
  <2> QED BY <1>1, <1>4, <2>1 DEF Once!Allowed
<1> HIDE DEF t
<1>6. [q \in Runs |-> Told(q)'] = [[q \in Runs |-> Told(q)] EXCEPT ![p] = t]
  BY <1>3 DEF t
<1>7. [q \in Runs |-> Stage(q)'] = [[q \in Runs |-> Stage(q)] EXCEPT ![p] = "idle"]
  BY <1>3
<1>8. Once!Tell(p)
  BY <1>3, <1>4, <1>5, <1>6, <1>7 DEF Once!Tell
<1> QED BY <1>8 DEF Once!OnceNext

LEMMA OnceInitial == Init => Once!OnceInit
BY DEF Init, Once!OnceInit, Register, Stage, Told, Applying, Idle, NoRow, OldRow

\* What the environment and the import do is not seen.
LEMMA ImportRefines ==
  ASSUME Inductive, NEW p \in Runs, Import(p) \/ Plan(p)
  PROVE  UNCHANGED Once!onceVars
<1>1. /\ proc[p] \in RunState /\ InImport(p) /\ file \in [Targets -> [id : Nat, v : {Gone, ByHand} \cup Versions]]
      /\ TypeOK
  BY DEF Inductive, ImportInv, TypeOK, RunState
<1>2. /\ proc[p].pc \in {"imported"} \cup Reading /\ answer[p] = "none"
      /\ proc[p].pc \notin Applying
  BY <1>1 DEF Import, Plan, Stat, Read, Verify, At, Reading, Applying, InImport
<1>3. ASSUME NEW a \in {"planned", "not-importable"}, Tell(p, a), row' = row
      PROVE  UNCHANGED Once!onceVars
  <2> DEFINE r == [proc[p] EXCEPT !.pc = "done"]
  <2>1. /\ r \in RunState /\ r.asked = proc[p].asked /\ r.pc \notin Applying
        /\ proc' = [proc EXCEPT ![p] = r]
    BY <1>1, <1>3 DEF RunState, Labels, Applying, Tell, Goto
  <2>2. answer' = [answer EXCEPT ![p] = a]
    BY <1>3 DEF Tell
  <2> HIDE DEF r
  <2> QED BY <1>1, <1>2, <1>3, <2>1, <2>2, UnseenMove
<1>4. CASE Plan(p)
  BY <1>3, <1>4 DEF Plan, database
<1>5. CASE Refuse(p)
  BY <1>3, <1>5 DEF Refuse, database
<1>6. CASE Import(p) /\ ~Refuse(p)
  <2>1. /\ UNCHANGED <<row, answer>>
        /\ \A q \in Runs :
             /\ proc'[q].asked = proc[q].asked
             /\ proc'[q].pc \in Applying <=> proc[q].pc \in Applying
    <3>1. CASE Stat(p)
      BY <1>1, <1>2, <1>6, <3>1 DEF RunState, Stat, database, Silent, Applying, TypeOK
    <3>2. CASE Read(p)
      <4> DEFINE r == [proc[p] EXCEPT !.pc = "verify"]
      <4>1. proc' = [proc EXCEPT ![p] = r] /\ UNCHANGED <<row, answer>>
        BY <1>6, <3>2 DEF Read, Goto, database, Silent
      <4>2. r.asked = proc[p].asked /\ r.pc = "verify"
        BY <1>1 DEF RunState
      <4>3. proc \in [Runs -> RunState] /\ "verify" \notin Applying
        BY <1>1 DEF TypeOK, Applying
      <4> HIDE DEF r
      <4> QED BY <1>2, <4>1, <4>2, <4>3
    <3>3. CASE Verify(p)
      <4> DEFINE t    == proc[p].at
                 left == IF t = Receipt THEN Files ELSE proc[p].left \ {t}
                 me   == [proc[p] EXCEPT !.left = left,
                                         !.v = IF t = Receipt THEN file[t].v ELSE @,
                                         !.late = IF t = Receipt
                                                    THEN legacy = "removing" ELSE @]
                 next == [me EXCEPT !.pc = "stat", !.at = CHOOSE f \in left : TRUE]
                 end  == [me EXCEPT !.pc = "imported"]
      <4>1. /\ IF left = {} THEN proc' = [proc EXCEPT ![p] = end]
                           ELSE proc' = [proc EXCEPT ![p] = next]
            /\ UNCHANGED <<row, answer>>
        BY <1>6, <3>3 DEF Verify, database, Silent
      <4>2. /\ me.asked = proc[p].asked
            /\ next.asked = me.asked /\ next.pc = "stat"
            /\ end.asked = me.asked /\ end.pc = "imported"
        BY <1>1 DEF RunState
      <4> HIDE DEF next, end, me
      <4>3. \E r : /\ proc' = [proc EXCEPT ![p] = r]
                   /\ r.asked = proc[p].asked /\ r.pc \in {"stat", "imported"}
        BY <4>1, <4>2
      <4> QED BY <1>1, <1>2, <4>1, <4>3 DEF TypeOK, Applying
    <3> QED BY <1>6, <3>1, <3>2, <3>3 DEF Import
  <2>2. /\ Register' = Register
        /\ \A q \in Runs : Stage(q)' = Stage(q) /\ Told(q)' = Told(q)
    BY <2>1 DEF Register, Stage, Told
  <2> QED BY <2>1, <2>2, Unseen
<1> QED BY <1>4, <1>5, <1>6

\* A step that stays within apply and leaves the row alone.
LEMMA WithinRefines ==
  ASSUME Inductive, NEW p \in Runs, proc[p].pc \in Applying,
         NEW l \in Applying, NEW y \in Answers,
         proc' = [proc EXCEPT ![p] = [proc[p] EXCEPT !.pc = l, !.why = y]],
         UNCHANGED <<row, answer>>
  PROVE  UNCHANGED Once!onceVars
<1> DEFINE r == [proc[p] EXCEPT !.pc = l, !.why = y]
<1>1. proc[p] \in RunState /\ TypeOK
  BY Past DEF Inductive
<1>2. r \in RunState /\ r.asked = proc[p].asked /\ r.pc \in Applying
  BY <1>1 DEF RunState, Labels, Applying
<1> HIDE DEF r
<1> QED BY <1>1, <1>2, UnseenMove DEF r

\* The same, for steps that only move on or reject.
LEMMA MoveRefines ==
  ASSUME Inductive, NEW p \in Runs, proc[p].pc \in Applying,
         \/ \E l \in Applying : Goto(p, l)
         \/ \E y \in Answers : Reject(p, y),
         UNCHANGED <<row, answer>>
  PROVE  UNCHANGED Once!onceVars
<1>1. proc[p] \in RunState /\ proc \in [Runs -> RunState]
  BY DEF Inductive, TypeOK, RunState
<1>2. ASSUME NEW l \in Applying, Goto(p, l) PROVE UNCHANGED Once!onceVars
  <2>1. proc[p].why \in Answers
    BY <1>1 DEF RunState
  <2>2. [proc[p] EXCEPT !.pc = l] = [proc[p] EXCEPT !.pc = l, !.why = proc[p].why]
    BY <1>1 DEF RunState
  <2> QED BY <1>2, <2>1, <2>2, WithinRefines DEF Goto
<1>3. ASSUME NEW y \in Answers, Reject(p, y) PROVE UNCHANGED Once!onceVars
  <2>1. proc' = [proc EXCEPT ![p] = [proc[p] EXCEPT !.pc = "cleanup", !.why = y]]
    BY <1>1, <1>3 DEF Reject
  <2> QED BY <1>3, <2>1, WithinRefines DEF Applying
<1> QED BY <1>2, <1>3

LEMMA WriteRefines ==
  ASSUME Inductive, NEW p \in Runs, Write(p)
  PROVE  Once!OnceNext \/ UNCHANGED Once!onceVars
<1>1. proc[p].pc \in Applying /\ {"upsert", "readback", "written"} \subseteq Applying
  BY DEF Write, Lookup, Upsert, Readback, At, Applying
<1>2. {"invalid", "io-failure", "already-present"} \subseteq Answers
  BY DEF Answers
<1>3. CASE Lookup(p)
  <2>1. \/ \E l \in Applying : Goto(p, l)
        \/ \E y \in Answers : Reject(p, y)
    BY <1>1, <1>2, <1>3 DEF Lookup
  <2>2. UNCHANGED <<row, answer>>
    BY <1>3 DEF Lookup, database
  <2> QED BY <1>1, <2>1, <2>2, MoveRefines
<1>4. CASE Readback(p)
  <2>1. \/ \E l \in Applying : Goto(p, l)
        \/ \E y \in Answers : Reject(p, y)
    BY <1>1, <1>2, <1>4 DEF Readback
  <2>2. UNCHANGED <<row, answer>>
    BY <1>4 DEF Readback, database
  <2> QED BY <1>1, <2>1, <2>2, MoveRefines
<1>5. CASE Upsert(p) /\ row' = row
  <2>1. \/ \E l \in Applying : Goto(p, l)
        \/ \E y \in Answers : Reject(p, y)
    BY <1>1, <1>2, <1>5 DEF Upsert
  <2> QED BY <1>1, <1>5, <2>1, MoveRefines DEF Upsert
<1>6. CASE Upsert(p) /\ row' # row
  <2>1. /\ row = NoRow /\ row' = proc[p].v /\ Goto(p, "readback") /\ answer' = answer
    BY <1>6 DEF Upsert, MayWrite
  <2>2. /\ proc \in [Runs -> RunState] /\ proc[p].v \in Versions
        /\ proc[p].asked = proc[p].v
    BY <1>1, Past DEF Inductive, TypeOK, RunState, InRecord
  <2>3. \A q \in Runs : /\ proc'[q].asked = proc[q].asked
                        /\ Stage(q)' = Stage(q) /\ Told(q)' = Told(q)
    BY <1>1, <2>1, <2>2 DEF Goto, Stage, Told, RunState
  <2>4. Register = NoRow /\ Register' = proc[p].asked /\ Stage(p) = "applying"
    BY <1>1, <2>1, <2>2 DEF Register, NoRow, OldRow, Versions, Stage
  <2>5. Once!WriteValue(p)
    BY <2>3, <2>4 DEF Once!WriteValue
  <2> QED BY <2>5 DEF Once!OnceNext
<1> QED BY <1>3, <1>4, <1>5, <1>6 DEF Write

LEMMA SaveRefines ==
  ASSUME Inductive, NEW p \in Runs, SaveDeployment(p)
  PROVE  Once!OnceNext
<1>1. /\ proc \in [Runs -> RunState] /\ proc[p].pc = "imported"
      /\ proc[p].v \in Versions /\ answer[p] = "none"
      /\ UNCHANGED <<row, answer>>
  BY Past DEF Inductive, TypeOK, RunState, SaveDeployment, At
<1>2. /\ proc'[p].pc = "prepare" /\ proc'[p].asked = proc[p].v
      /\ \A q \in Runs \ {p} : proc'[q] = proc[q]
  BY <1>1 DEF SaveDeployment, RunState
<1>3. /\ Stage(p) = "idle" /\ Stage(p)' = "applying" /\ Told(p)' = "none"
      /\ \A q \in Runs : Told(q)' = Told(q)
      /\ \A q \in Runs \ {p} : Stage(q)' = Stage(q)
      /\ Told(p) = "none" /\ Register' = Register
  BY <1>1, <1>2 DEF Stage, Told, Register, Applying
<1>4. Once!Ask(p)
  BY <1>1, <1>2, <1>3 DEF Once!Ask
<1> QED BY <1>4 DEF Once!OnceNext

LEMMA JournalRefines ==
  ASSUME Inductive, NEW p \in Runs, Journal(p)
  PROVE  Once!OnceNext \/ UNCHANGED Once!onceVars
<1>1. {"insert", "start", "lookup", "finish"} \subseteq Applying /\ "error" \in Answers
  BY DEF Applying, Answers
<1>2. CASE SaveDeployment(p)
  BY <1>2, SaveRefines
<1>3. ASSUME ~SaveDeployment(p) PROVE proc[p].pc \in Applying /\ row' = row
  BY <1>3 DEF Journal, Prepare, InsertPlan, Start, RecordRejection, RecordStep, Finish,
     At, Applying, database
<1>4. CASE Tell(p, "error") /\ ~SaveDeployment(p)
  BY <1>1, <1>3, <1>4, TellMove DEF Tell
<1>5. CASE /\ Prepare(p) \/ InsertPlan(p) \/ Start(p) \/ RecordStep(p)
           /\ ~Tell(p, "error") /\ ~SaveDeployment(p)
  <2>1. answer' = answer /\ \E l \in Applying : Goto(p, l)
    BY <1>1, <1>5 DEF Prepare, InsertPlan, Start, RecordStep
  <2> QED BY <1>3, <1>5, <2>1, MoveRefines
<1>6. CASE RecordRejection(p) /\ ~Tell(p, "error") /\ ~SaveDeployment(p)
  <2>1. /\ proc[p].pc = "cleanup" /\ Tell(p, proc[p].why)
    BY <1>6 DEF RecordRejection, At
  <2>2. InRecord(p) /\ proc[p].why \in Answers
    BY DEF RunState, Inductive, RecordInv, TypeOK
  <2> QED BY <1>3, <1>6, <2>1, <2>2, TellMove DEF InRecord, Tell
<1>7. CASE Finish(p) /\ ~Tell(p, "error") /\ ~SaveDeployment(p)
  <2>1. /\ proc[p].pc = "finish" /\ Tell(p, "imported") /\ "imported" \in Answers
    BY <1>7 DEF Finish, At, Answers
  <2>2. row = proc[p].v
    BY <2>1 DEF Inductive, RecordInv, InRecord
  <2> QED BY <1>3, <1>7, <2>1, <2>2, TellMove DEF Tell
<1> QED BY <1>2, <1>4, <1>5, <1>6, <1>7 DEF Journal

LEMMA DieRefines ==
  ASSUME Inductive, NEW p \in Runs, Die(p)
  PROVE  Once!OnceNext \/ UNCHANGED Once!onceVars
<1>1. /\ proc \in [Runs -> RunState] /\ UNCHANGED <<row, answer>>
  BY DEF Inductive, TypeOK, RunState, Die, database
<1>2. /\ proc'[p].pc = "done" /\ proc'[p].asked = proc[p].asked
      /\ \A q \in Runs \ {p} : proc'[q] = proc[q]
  BY <1>1 DEF Die, RunState, Idle
<1>3. /\ Register' = Register
      /\ \A q \in Runs : proc'[q].asked = proc[q].asked /\ Told(q)' = Told(q)
      /\ \A q \in Runs \ {p} : Stage(q)' = Stage(q)
      /\ Stage(p)' = "idle" /\ Stage(p) \in {"idle", "applying"}
  BY <1>1, <1>2 DEF Register, Told, Stage, Applying
<1>4. CASE Stage(p) = "idle"
  BY <1>3, <1>4, Unseen
<1>5. CASE Stage(p) = "applying"
  <2>1. Once!Proceed(p)
    BY <1>3, <1>5 DEF Once!Proceed
  <2> QED BY <2>1 DEF Once!OnceNext
<1> QED BY <1>3, <1>4, <1>5

LEMMA OnceStep == Inductive /\ [Next]_vars => [Once!OnceNext]_(Once!onceVars)
<1> SUFFICES ASSUME Inductive, [Next]_vars
             PROVE  Once!OnceNext \/ UNCHANGED Once!onceVars
  OBVIOUS
<1>1. CASE (\E t \in Targets : Edit(t)) \/ Installer \/ UNCHANGED vars
  <2>1. UNCHANGED <<row, proc, answer>>
    BY <1>1 DEF Edit, Installer, vars, database
  <2> QED BY <2>1, Unseen DEF Register, Stage, Told
<1>2. ASSUME NEW p \in Runs, Begin(p) \/ Run(p) \/ Die(p)
      PROVE  Once!OnceNext \/ UNCHANGED Once!onceVars
  <2>1. CASE Begin(p)
    <3> DEFINE r == [proc[p] EXCEPT !.pc = "stat"]
    <3>1. proc[p] \in RunState /\ TypeOK
      BY DEF Inductive, TypeOK, RunState
    <3>2. /\ r \in RunState /\ r.asked = proc[p].asked
          /\ r.pc \notin Applying /\ proc[p].pc \notin Applying
          /\ proc' = [proc EXCEPT ![p] = r] /\ answer' = answer /\ row' = row
      BY <2>1, <3>1 DEF Begin, At, Goto, RunState, Labels, Applying, database
    <3> HIDE DEF r
    <3> QED BY <3>1, <3>2, UnseenMove
  <2>2. CASE Import(p) \/ Plan(p)
    BY <2>2, ImportRefines
  <2>3. CASE Write(p)
    BY <2>3, WriteRefines
  <2>4. CASE Journal(p)
    BY <2>4, JournalRefines
  <2>5. CASE Die(p)
    BY <2>5, DieRefines
  <2> QED BY <1>2, <2>1, <2>2, <2>3, <2>4, <2>5 DEF Run
<1> QED BY <1>1, <1>2 DEF Next

\* The migrations implement a register that is written once: no run replaces
\* the row of another, and each is told whether the row is its own.
THEOREM RefinesWriteOnce == Spec => ImplementsOnce
BY InductiveInvariant, OnceInitial, OnceStep, PTL DEF Spec, ImplementsOnce, Once!OnceSpec
=============================================================================
