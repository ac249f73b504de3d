---------------------------- MODULE SelfUpdateProofs ----------------------------
(***************************************************************************)
(* Proofs about SelfUpdate, for any users, versions and mishaps.           *)
(***************************************************************************)
EXTENDS SelfUpdate, TLAPS

-----------------------------------------------------------------------------
(* What each process is about.                                             *)

Replacing == {"fetch", "create_temp", "write_temp", "backup", "replace", "restore", "clean"}
Critical  == Replacing \cup {"release", "read", "truncate", "write", "spawn"}

RoleOK(a, r) ==
  /\ r.goal = "none" <=> r.pc = "idle"
  /\ r.goal = "update" => a[2] = "checker"
  /\ r.goal \in {"notice", "check"} => a[2] = "foreground"
  /\ r.goal \in {"notice", "update"} /\ r.pc # "release" => r.version # None
  /\ r.pc \in Replacing => r.goal = "update"
  /\ r.pc = "spawn" => r.goal = "check"
  /\ r.got # None => /\ r.goal = "update"
                     /\ r.pc \in Critical \ {"release", "fetch", "restore"}
  /\ r.pc \in {"create_temp", "write_temp", "backup", "replace"} => r.got # None

RolesInv == \A a \in Agents : RoleOK(a, agent[a])

-----------------------------------------------------------------------------
(* Until a lock has been removed that was not stale any more, at most one  *)
(* process is past Open, and it has the lock.                              *)

ExclusionInv ==
  \A a \in Agents : agent[a].pc \in Critical =>
    /\ lock \in {"fresh", "future"}
    /\ \A b \in Agents \ {a} : agent[b].pc \notin Critical

\* At the path of the binary is never half a file, nothing only while it is
\* being replaced or after that has failed, and never less than in a backup.
BinaryInv ==
  /\ exec # Torn /\ \A v \in Versions : bak[v] # Torn
  /\ exec = None =>
       /\ \E v \in Versions : bak[v] # None
       /\ (\E a \in Agents : agent[a].pc \in {"replace", "restore"}) \/ crashes > 0 \/ faults > 1
  /\ exec # None => \A v \in Versions : bak[v] <= exec

\* What a checker knows of the files.  The binary may have been replaced since
\* it was started, but only with a release.
CheckerOK(r) ==
  /\ r.got <= latest
  /\ r.goal = "update" /\ r.pc # "release" =>
       /\ exec # None => exec = r.version \/ exec <= latest
       /\ \A b \in Agents : agent[b].pc \in {"replace", "restore"} =>
            bak[agent[b].version] = r.version \/ bak[agent[b].version] <= latest
  /\ r.pc = "write_temp" => temp = Torn
  /\ r.pc \in {"backup", "replace"} => temp = r.got
  /\ r.pc \in {"create_temp", "write_temp", "backup"} /\ exec # None => exec <= r.got
  /\ r.pc \in {"replace", "restore"} =>
       /\ exec = None /\ bak[r.version] # None
       /\ \A v \in Versions : bak[v] <= bak[r.version]
  /\ r.pc = "replace" => bak[r.version] <= r.got
  /\ r.pc = "restore" => faults > 0

FilesInv == ~stolen => ExclusionInv /\ BinaryInv /\ \A a \in Agents : CheckerOK(agent[a])

-----------------------------------------------------------------------------
(* Without mishaps no lock ever goes stale, one checker runs at a time, and *)
(* the notice of an update is in one place until it has been announced.    *)

LockInv ==
  /\ ~stolen /\ lock \in {"none", "fresh"}
  /\ lock = "fresh" => \E a \in Agents : agent[a].pc \in Critical
  /\ \A a \in Agents : agent[a].pc \notin {"unlink", "restore"}
  /\ exec = None => \E a \in Agents : agent[a].pc = "replace"
  /\ \A v \in Versions : bak[v] \in {None, v}

NoChecker == \A c \in Agents : agent[c].goal # "update"

ThrottleInv ==
  /\ \A c, d \in Agents : agent[c].goal = "update" /\ agent[d].goal = "update" => c = d
  /\ \/ NoChecker \/ state.checked = "recent"
     \/ \E h \in Agents : /\ agent[h].pc = "write"
                          /\ agent[h].seen.checked = "recent" \/ agent[h].goal = "update"
  /\ \A a \in Agents : agent[a].goal = "check" /\ agent[a].pc \in {"truncate", "write", "spawn"} =>
       NoChecker
  /\ \A a \in Agents : agent[a].pc = "spawn" => state.checked = "recent"

\* A version that has been replaced by v.
Replaced(v) == \E w \in Versions : bak[w] \in 1..(v - 1)

\* The version v has been at the path of the binary.
Reached(v) ==
  /\ exec # None => v <= exec
  /\ \A a \in Agents : agent[a].pc = "replace" => v <= agent[a].version

Pending(v) == v # None => announced[v] = 0 /\ Replaced(v) /\ Reached(v)

HandOK(r) ==
  /\ r.pc = "truncate" => r.seen = state
  /\ r.pc = "write" => state = Empty /\ Pending(r.seen.notice)
  /\ r.goal = "notice" /\ r.pc \in {"truncate", "write"} => r.seen.notice = r.version
  /\ r.goal = "update" /\ r.pc \in {"stat", "open", "fetch", "create_temp", "write_temp", "backup"} =>
       exec = r.version
  /\ r.pc = "replace" => bak[r.version] = r.version
  /\ r.got # None => r.version < r.got /\ announced[r.got] = 0
  /\ r.got # None /\ r.pc \in {"clean", "read", "truncate", "write"} =>
       exec = r.got /\ bak[r.version] = r.version

NoticeInv ==
  /\ \A v \in Versions : announced[v] # 0 => announced[v] = 1 /\ Replaced(v) /\ Reached(v)
  /\ Pending(state.notice)
  /\ \A a \in Agents : HandOK(agent[a])
  /\ exec # None /\ (\E w \in Versions : bak[w] # None) =>
       \/ announced[exec] = 1 \/ state.notice = exec
       \/ \E a \in Agents : \/ agent[a].got = exec
                            \/ agent[a].pc = "write" /\ agent[a].seen.notice = exec

CalmInv == Undisturbed => LockInv /\ ThrottleInv /\ NoticeInv

Inductive == TypeOK /\ RolesInv /\ FilesInv /\ CalmInv

-----------------------------------------------------------------------------
(* What a step of one process leaves of the others.                        *)

\* The process a becomes to, and nothing else of the processes changes.
Moves(a, to) == agent' = [agent EXCEPT ![a] = to] /\ RoleOK(a, to)

LEMMA Moved ==
  ASSUME TypeOK, NEW a \in Agents, NEW to \in Processes, agent' = [agent EXCEPT ![a] = to]
  PROVE  /\ agent' \in [Agents -> Processes] /\ agent'[a] = to
         /\ \A b \in Agents \ {a} : agent'[b] = agent[b]
BY DEF TypeOK

LEMMA RolesKept ==
  ASSUME TypeOK, RolesInv, NEW a \in Agents, NEW to \in Processes, Moves(a, to)
  PROVE  RolesInv'
BY Moved DEF RolesInv, RoleOK, Moves

LEMMA Exclusive ==
  ASSUME TypeOK, ExclusionInv, NEW a \in Agents, NEW to \in Processes, Moves(a, to),
         to.pc \in Critical => /\ lock' \in {"fresh", "future"}
                               /\ agent[a].pc \in Critical \/ lock \in {"none", "stale"},
         lock' = lock \/ \A b \in Agents \ {a} : agent[b].pc \notin Critical
  PROVE  ExclusionInv'
BY Moved DEF ExclusionInv, Moves

\* A step that leaves the binary and its backups.
LEMMA FilesKept ==
  ASSUME TypeOK, ExclusionInv, BinaryInv, \A b \in Agents : CheckerOK(agent[b]),
         NEW a \in Agents, NEW to \in Processes, Moves(a, to),
         UNCHANGED <<exec, bak, latest>>,
         crashes' \in Nat, crashes' >= crashes, faults' \in Nat, faults' >= faults,
         temp' = temp \/ agent[a].pc \in Critical,
         to.pc \in {"replace", "restore"} =>
           agent[a].pc \in {"replace", "restore"} /\ to.version = agent[a].version,
         agent[a].pc \in {"replace", "restore"} =>
           to.pc \in {"replace", "restore"} \/ crashes' > 0 \/ faults' > 1,
         CheckerOK(to)'
  PROVE  BinaryInv' /\ \A b \in Agents : CheckerOK(agent[b])'
<1>1. /\ agent' \in [Agents -> Processes] /\ agent'[a] = to
      /\ \A b \in Agents \ {a} : agent'[b] = agent[b]
  BY Moved DEF Moves
<1>2. crashes \in Nat /\ faults \in Nat
  BY DEF TypeOK
<1>3. BinaryInv'
  <2>1. (\E b \in Agents : agent[b].pc \in {"replace", "restore"}) \/ crashes > 0 \/ faults > 1 =>
        (\E b \in Agents : agent'[b].pc \in {"replace", "restore"}) \/ crashes' > 0 \/ faults' > 1
    BY <1>1, <1>2
  <2> QED BY <2>1 DEF BinaryInv
<1>4. ASSUME NEW b \in Agents PROVE CheckerOK(agent[b])'
  <2>1. CASE b = a
    BY <1>1, <2>1 DEF CheckerOK
  <2>2. CASE b # a
    <3>1. agent'[b] = agent[b] /\ CheckerOK(agent[b])
      BY <1>1, <2>2
    <3>2. agent[b].pc \in {"write_temp", "backup", "replace"} => temp' = temp
      BY <2>2 DEF ExclusionInv, Critical, Replacing
    <3>3. \A c \in Agents : agent'[c].pc \in {"replace", "restore"} =>
            agent[c].pc \in {"replace", "restore"} /\ agent'[c].version = agent[c].version
      BY <1>1
    <3>4. faults > 0 => faults' > 0
      BY <1>2
    <3> QED BY <3>1, <3>2, <3>3, <3>4 DEF CheckerOK
  <2> QED BY <2>1, <2>2
<1> QED BY <1>3, <1>4

\* The same, without mishaps, for the lock, the throttle and the notice.
LEMMA LockKept ==
  ASSUME TypeOK, LockInv, NEW a \in Agents, NEW to \in Processes, Moves(a, to),
         ~stolen', to.pc \notin {"unlink", "restore"},
         \/ /\ lock' = lock
            /\ agent[a].pc \in Critical => to.pc \in Critical
         \/ lock' = "none"
         \/ lock' = "fresh" /\ to.pc \in Critical,
         \A v \in Versions : bak'[v] \in {None, v},
         exec' = None => (to.pc = "replace" \/ (exec = None /\ agent[a].pc # "replace"))
  PROVE  LockInv'
<1>1. /\ agent' \in [Agents -> Processes] /\ agent'[a] = to
      /\ \A b \in Agents \ {a} : agent'[b] = agent[b]
  BY Moved DEF Moves
<1>2. lock' \in {"none", "fresh"} /\ (lock' = "fresh" => \E b \in Agents : agent'[b].pc \in Critical)
  BY <1>1 DEF LockInv
<1>3. \A b \in Agents : agent'[b].pc \notin {"unlink", "restore"}
  BY <1>1 DEF LockInv
<1>4. exec' = None => \E b \in Agents : agent'[b].pc = "replace"
  BY <1>1 DEF LockInv
<1> QED BY <1>2, <1>3, <1>4 DEF LockInv

LEMMA ThrottleKept ==
  ASSUME TypeOK, ThrottleInv, NEW a \in Agents, NEW to \in Processes, Moves(a, to),
         UNCHANGED state, agent[a].pc # "write",
         to.goal = "update" => agent[a].goal = "update",
         to.goal = "check" /\ to.pc \in {"truncate", "write", "spawn"} => NoChecker,
         to.pc # "spawn"
  PROVE  ThrottleInv'
<1>1. /\ agent' \in [Agents -> Processes] /\ agent'[a] = to
      /\ \A b \in Agents \ {a} : agent'[b] = agent[b]
  BY Moved DEF Moves
<1>2. \A c \in Agents : agent'[c].goal = "update" => agent[c].goal = "update"
  BY <1>1
<1>3. NoChecker => NoChecker'
  BY <1>2 DEF NoChecker
<1>4. \A h \in Agents : agent[h].pc = "write" => agent'[h] = agent[h]
  BY <1>1
<1>5. NoChecker' \/ state'.checked = "recent" \/
        \E h \in Agents : /\ agent'[h].pc = "write"
                          /\ agent'[h].seen.checked = "recent" \/ agent'[h].goal = "update"
  BY <1>3, <1>4 DEF ThrottleInv
<1>6. \A b \in Agents : agent'[b].goal = "check" /\ agent'[b].pc \in {"truncate", "write", "spawn"} =>
        NoChecker'
  BY <1>1, <1>3 DEF ThrottleInv
<1>7. \A b \in Agents : agent'[b].pc = "spawn" => state'.checked = "recent"
  BY <1>1 DEF ThrottleInv
<1> QED BY <1>2, <1>5, <1>6, <1>7 DEF ThrottleInv

LEMMA NoticeKept ==
  ASSUME TypeOK, NoticeInv, NEW a \in Agents, NEW to \in Processes, Moves(a, to),
         UNCHANGED <<state, exec, bak, announced>>,
         agent[a].pc \notin {"replace", "write"}, to.pc # "replace",
         agent[a].got # None => to.got = agent[a].got,
         HandOK(to)
  PROVE  NoticeInv'
<1>1. /\ agent' \in [Agents -> Processes] /\ agent'[a] = to
      /\ \A b \in Agents \ {a} : agent'[b] = agent[b]
  BY Moved DEF Moves
<1>2. \A v : Reached(v) => Reached(v)'
  BY <1>1 DEF Reached
<1>3. \A v : Replaced(v) <=> Replaced(v)'
  BY DEF Replaced
<1>4. \A v : Pending(v) => Pending(v)'
  BY <1>2, <1>3 DEF Pending
<1>5. \A v \in Versions : announced'[v] # 0 => announced'[v] = 1 /\ Replaced(v)' /\ Reached(v)'
  BY <1>2, <1>3 DEF NoticeInv
<1>6. Pending(state.notice)'
  <2>1. state' = state /\ Pending(state.notice)
    BY DEF NoticeInv
  <2> QED BY <1>4, <2>1
<1>7. ASSUME NEW b \in Agents PROVE HandOK(agent[b])'
  <2>1. HandOK(agent'[b])
    BY <1>1 DEF NoticeInv
  <2> QED BY <1>4, <2>1 DEF HandOK
<1>8. exec' # None /\ (\E w \in Versions : bak'[w] # None) =>
       \/ announced'[exec'] = 1 \/ state'.notice = exec'
       \/ \E b \in Agents : \/ agent'[b].got = exec'
                            \/ agent'[b].pc = "write" /\ agent'[b].seen.notice = exec'
  <2> SUFFICES ASSUME exec' # None, \E w \in Versions : bak'[w] # None,
                      announced'[exec'] # 1, state'.notice # exec'
               PROVE  \E b \in Agents : \/ agent'[b].got = exec'
                                        \/ agent'[b].pc = "write" /\ agent'[b].seen.notice = exec'
    OBVIOUS
  <2>1. PICK b \in Agents : \/ agent[b].got = exec
                            \/ agent[b].pc = "write" /\ agent[b].seen.notice = exec
    BY DEF NoticeInv
  <2>2. CASE b = a
    BY <1>1, <2>1, <2>2
  <2>3. CASE b # a
    BY <1>1, <2>1, <2>3
  <2> QED BY <2>2, <2>3
<1> QED BY <1>5, <1>6, <1>7, <1>8 DEF NoticeInv

\* What may go wrong, and for the bounds.
Counted ==
  /\ crashes' \in Nat /\ crashes' >= crashes /\ faults' \in Nat /\ faults' >= faults
  /\ clockBacks' = clockBacks /\ crashes' + faults' + clockBacks' <= MaxMishaps
  /\ UNCHANGED <<latest, published>>

\* The lock is taken when nobody has it, and given away by who has it.
LockStep(a, to) ==
  /\ to.pc \in Critical => /\ lock' \in {"fresh", "future"}
                           /\ agent[a].pc \in Critical \/ lock \in {"none", "stale"}
  /\ lock' = lock \/ \A b \in Agents \ {a} : agent[b].pc \notin Critical

\* A step of a on everything but the binary and its backups.
LEMMA AsideFromBinary ==
  ASSUME Inductive, NEW a \in Agents, NEW to \in Processes, Moves(a, to), Counted,
         lock' \in LockAges, temp' \in Files, state' \in States,
         announced' \in [Versions -> 0..2], UNCHANGED <<exec, bak, spawned>>,
         stolen' \in BOOLEAN, stolen => stolen',
         ~stolen' => LockStep(a, to),
         temp' = temp \/ agent[a].pc \in Critical,
         to.pc \in {"replace", "restore"} =>
           agent[a].pc = "replace" /\ to.version = agent[a].version,
         ~stolen /\ agent[a].pc \in {"replace", "restore"} =>
           to.pc = "restore" \/ crashes' > 0 \/ faults' > 1,
         ~stolen /\ ~stolen' => CheckerOK(to)'
  PROVE  TypeOK' /\ RolesInv' /\ FilesInv'
<1> USE DEF Inductive
<1>1. TypeOK'
  BY Moved DEF TypeOK, Moves, Counted
<1>2. RolesInv'
  BY RolesKept
<1>3. ASSUME ~stolen'
      PROVE  ExclusionInv' /\ BinaryInv' /\ \A b \in Agents : CheckerOK(agent[b])'
  <2>1. ExclusionInv /\ BinaryInv /\ \A b \in Agents : CheckerOK(agent[b])
    BY <1>3 DEF FilesInv
  <2>2. ExclusionInv'
    BY <1>3, <2>1, Exclusive DEF LockStep
  <2>3. /\ crashes' \in Nat /\ crashes' >= crashes /\ faults' \in Nat /\ faults' >= faults
        /\ UNCHANGED <<exec, bak, latest>> /\ CheckerOK(to)'
    BY <1>3 DEF Counted
  <2>4. agent[a].pc \in {"replace", "restore"} =>
          to.pc \in {"replace", "restore"} \/ crashes' > 0 \/ faults' > 1
    BY <1>3
  <2>5. to.pc \in {"replace", "restore"} =>
          agent[a].pc \in {"replace", "restore"} /\ to.version = agent[a].version
    OBVIOUS
  <2> QED BY <2>1, <2>2, <2>3, <2>4, <2>5, FilesKept
<1> QED BY <1>1, <1>2, <1>3 DEF FilesInv

\* And what such a step does for the lock, the throttle and the notice.
CalmStep(a, to) ==
  /\ ~stolen' /\ UNCHANGED <<state, announced>>
  /\ to.pc \notin {"unlink", "replace", "restore", "spawn"}
  /\ agent[a].pc \notin {"replace", "write"}
  /\ \/ lock' = lock /\ (agent[a].pc \in Critical => to.pc \in Critical)
     \/ lock' = "none"
     \/ lock' = "fresh" /\ to.pc \in Critical
  /\ to.goal = "update" => agent[a].goal = "update"
  /\ to.goal = "check" /\ to.pc \in {"truncate", "write", "spawn"} => NoChecker
  /\ agent[a].got # None => to.got = agent[a].got
  /\ HandOK(to)

LEMMA Calmly ==
  ASSUME TypeOK, LockInv, ThrottleInv, NoticeInv,
         NEW a \in Agents, NEW to \in Processes, Moves(a, to),
         UNCHANGED <<exec, bak>>, CalmStep(a, to)
  PROVE  LockInv' /\ ThrottleInv' /\ NoticeInv'
<1>1. LockInv'
  <2>1. /\ \A v \in Versions : bak'[v] \in {None, v}
        /\ exec' = None => (to.pc = "replace" \/ (exec = None /\ agent[a].pc # "replace"))
    BY DEF LockInv, CalmStep
  <2> QED BY <2>1, LockKept DEF CalmStep
<1>2. ThrottleInv'
  BY ThrottleKept DEF CalmStep
<1>3. NoticeInv'
  BY NoticeKept DEF CalmStep
<1> QED BY <1>1, <1>2, <1>3

\* Without mishaps so far there were none before.
LEMMA StillCalm ==
  ASSUME Inductive, Counted, Undisturbed'
  PROVE  /\ Undisturbed /\ LockInv /\ ThrottleInv /\ NoticeInv
         /\ ExclusionInv /\ BinaryInv /\ \A b \in Agents : CheckerOK(agent[b])
<1>1. Undisturbed
  BY DEF Inductive, TypeOK, Counted, Undisturbed
<1>2. LockInv /\ ThrottleInv /\ NoticeInv
  BY <1>1 DEF Inductive, CalmInv
<1>3. ExclusionInv /\ BinaryInv /\ \A b \in Agents : CheckerOK(agent[b])
  BY <1>2 DEF Inductive, FilesInv, LockInv
<1> QED BY <1>1, <1>2, <1>3

LEMMA Light ==
  ASSUME Inductive, NEW a \in Agents, NEW to \in Processes, Moves(a, to), Counted,
         lock' \in LockAges, temp' \in Files, state' \in States,
         announced' \in [Versions -> 0..2], UNCHANGED <<exec, bak, spawned>>,
         stolen' \in BOOLEAN, stolen => stolen',
         ~stolen' => LockStep(a, to),
         temp' = temp \/ agent[a].pc \in Critical,
         to.pc \in {"replace", "restore"} =>
           agent[a].pc = "replace" /\ to.version = agent[a].version,
         ~stolen /\ agent[a].pc \in {"replace", "restore"} =>
           to.pc = "restore" \/ crashes' > 0 \/ faults' > 1,
         ~stolen /\ ~stolen' => CheckerOK(to)',
         Undisturbed' => CalmStep(a, to)
  PROVE  Inductive'
<1>1. TypeOK' /\ RolesInv' /\ FilesInv'
  BY AsideFromBinary
<1>2. CalmInv'
  <2>1. SUFFICES ASSUME Undisturbed' PROVE LockInv' /\ ThrottleInv' /\ NoticeInv'
    BY DEF CalmInv
  <2>2. TypeOK /\ LockInv /\ ThrottleInv /\ NoticeInv
    BY <2>1, StillCalm DEF Inductive
  <2> QED BY <2>1, <2>2, Calmly
<1> QED BY <1>1, <1>2 DEF Inductive

-----------------------------------------------------------------------------
(* Steps that leave the binary and its backups, one lemma for each.        *)

LEMMA Knows ==
  ASSUME Inductive, NEW a \in Agents
  PROVE  /\ agent[a] \in Processes /\ RoleOK(a, agent[a])
         /\ Idle \in Processes /\ latest \in Nat /\ None < latest /\ None <= latest
         /\ lock \in LockAges /\ temp \in Files /\ state \in States
         /\ announced \in [Versions -> 0..2] /\ stolen \in BOOLEAN
BY SelfUpdateAssumption DEF Inductive, TypeOK, RolesInv, Idle, Processes, Pcs, Empty,
   States, CheckAges, Versions, None

\* A call of the file system may fail.
LEMMA FaultIsCounted ==
  ASSUME Inductive, UNCHANGED <<latest, published, crashes, clockBacks>>, Fault \/ Fine
  PROVE  Counted /\ (Fault => faults' > faults /\ faults' > 0)
<1>1. /\ crashes \in Nat /\ faults \in Nat /\ clockBacks \in Nat
      /\ crashes + faults + clockBacks <= MaxMishaps /\ MaxMishaps \in Nat
  BY SelfUpdateAssumption DEF Inductive, TypeOK
<1>2. CASE Fault
  <2>1. faults' = faults + 1 /\ crashes + faults + clockBacks < MaxMishaps
    BY <1>2 DEF Fault, Mishap
  <2>2. faults' \in Nat /\ faults' > faults /\ crashes + faults' + clockBacks <= MaxMishaps
    BY <1>1, <2>1
  <2>3. faults' > 0 /\ faults' >= faults
    BY <1>1, <2>1
  <2>4. crashes' = crashes /\ clockBacks' = clockBacks /\ UNCHANGED <<latest, published>>
    OBVIOUS
  <2>5. crashes' \in Nat /\ crashes' >= crashes
    BY <1>1, <2>4
  <2>6. crashes' + faults' + clockBacks' <= MaxMishaps
    BY <2>2, <2>4
  <2> QED BY <2>2, <2>3, <2>4, <2>5, <2>6 DEF Counted
<1>3. CASE Fine
  <2>1. ~Fault
    BY <1>1, <1>3 DEF Fine, Fault
  <2> QED BY <1>1, <1>3, <2>1 DEF Counted, Fine
<1> QED BY <1>2, <1>3

\* A process that has nothing in hand.
LEMMA EmptyHanded ==
  ASSUME Inductive, NEW to \in Processes, to.got = None, latest' = latest,
         to.pc \in {"idle", "stat", "open", "unlink", "release", "read", "spawn"},
         to.goal # "update" \/ to.pc = "release"
  PROVE  HandOK(to) /\ CheckerOK(to)'
<1>1. None <= latest
  BY SelfUpdateAssumption DEF Inductive, TypeOK, Versions, None
<1> QED BY <1>1 DEF HandOK, CheckerOK

\* A process that moves on with what it has in hand.
LEMMA SameHands ==
  ASSUME TypeOK, NEW a \in Agents, NEW to \in Processes, Moves(a, to),
         CheckerOK(agent[a]), UNCHANGED <<exec, bak, latest>>,
         agent[a].pc # "release", to.goal = agent[a].goal, to.version = agent[a].version,
         to.got <= latest,
         to.pc \notin {"create_temp", "write_temp", "backup", "replace", "restore"}
  PROVE  CheckerOK(to)'
<1>1. /\ agent'[a] = to /\ \A b \in Agents \ {a} : agent'[b] = agent[b]
  BY Moved DEF Moves
<1> QED BY <1>1 DEF CheckerOK

LEMMA LeaveTo ==
  ASSUME Inductive, NEW a \in Agents, Leave(a)
  PROVE  \E to \in Processes :
           /\ Moves(a, to) /\ to.got = None
           /\ \/ to.pc = "idle" /\ to.goal = "none"
              \/ to.pc = "stat" /\ to.goal = "check"
<1>1. RoleOK(a, agent[a]) /\ Idle \in Processes
  BY Knows
<1> DEFINE to == [Idle EXCEPT !.pc = "stat", !.goal = "check"]
<1>2. CASE Goal(a) = "notice"
  <2>1. agent' = [agent EXCEPT ![a] = to]
    BY <1>2 DEF Leave, Becomes
  <2>2. to \in Processes /\ to.pc = "stat" /\ to.goal = "check" /\ to.got = None
    BY <1>1 DEF Idle, Processes, Pcs
  <2>3. RoleOK(a, to)
    BY <1>1, <1>2, <2>2 DEF RoleOK, Goal, Replacing
  <2> QED BY <2>1, <2>2, <2>3 DEF Moves
<1>3. CASE Goal(a) # "notice"
  <2>1. agent' = [agent EXCEPT ![a] = Idle]
    BY <1>3 DEF Leave, Becomes
  <2>2. RoleOK(a, Idle) /\ Idle.pc = "idle" /\ Idle.goal = "none" /\ Idle.got = None
    BY DEF RoleOK, Idle, Replacing
  <2> QED BY <1>1, <2>1, <2>2 DEF Moves
<1> QED BY <1>2, <1>3

LEMMA EndTo ==
  ASSUME Inductive, NEW a \in Agents, End(a), agent[a].pc # "idle"
  PROVE  \E to \in Processes :
           Moves(a, to) /\ to.got = None /\ to.pc = "release" /\ to.goal = agent[a].goal
<1>1. RoleOK(a, agent[a]) /\ agent[a] \in Processes /\ Idle \in Processes
  BY Knows
<1> DEFINE to == [Idle EXCEPT !.pc = "release", !.goal = Goal(a)]
<1>2. agent' = [agent EXCEPT ![a] = to]
  BY DEF End, Becomes
<1>3. to \in Processes /\ to.pc = "release" /\ to.goal = agent[a].goal /\ to.got = None
  BY <1>1 DEF Idle, Processes, Pcs, Goal
<1>4. RoleOK(a, to)
  BY <1>1, <1>3 DEF RoleOK, Replacing
<1> QED BY <1>2, <1>3, <1>4 DEF Moves

\* A process goes on, and everything else about it stays the same.
LEMMA GotoTo ==
  ASSUME Inductive, NEW a \in Agents, NEW pc \in Pcs, Goto(a, pc)
  PROVE  \E to \in Processes :
           /\ agent' = [agent EXCEPT ![a] = to] /\ to.pc = pc /\ to.goal = agent[a].goal
           /\ to.version = agent[a].version /\ to.got = agent[a].got /\ to.seen = agent[a].seen
<1> DEFINE to == [agent[a] EXCEPT !.pc = pc]
<1>1. to \in Processes
  BY Knows DEF Processes
<1>2. /\ to.pc = pc /\ to.goal = agent[a].goal /\ to.version = agent[a].version
      /\ to.got = agent[a].got /\ to.seen = agent[a].seen
  BY Knows DEF Processes
<1> QED BY <1>1, <1>2 DEF Goto, Becomes

LEMMA StatKeeps == ASSUME Inductive, NEW a \in Agents, Stat(a) PROVE Inductive'
<1>1. /\ agent[a].pc = "stat" /\ agent[a] \in Processes /\ RoleOK(a, agent[a])
      /\ UNCHANGED <<lock, state, exec, bak, temp, latest, spawned, announced, stolen,
                     published, crashes, faults, clockBacks>>
  BY Knows DEF Stat, At, binary, story, Rest
<1>2. agent[a].got = None
  BY <1>1 DEF RoleOK, Critical, Replacing
<1>3. Counted
  BY <1>1 DEF Counted, Inductive, TypeOK
<1>4. PICK to \in Processes :
        /\ Moves(a, to) /\ to.got = None
        /\ \/ /\ to.pc \in {"open", "unlink"} /\ (to.pc = "unlink" => lock = "stale")
              /\ to.goal = agent[a].goal /\ to.version = agent[a].version
           \/ to.pc = "idle" /\ to.goal = "none"
           \/ to.pc = "stat" /\ to.goal = "check"
  <2>1. ASSUME NEW pc \in {"open", "unlink"}, Goto(a, pc), pc = "unlink" => lock = "stale"
        PROVE  \E to \in Processes :
                 /\ Moves(a, to) /\ to.got = None /\ to.pc = pc
                 /\ to.goal = agent[a].goal /\ to.version = agent[a].version
    <3>1. PICK to \in Processes :
           /\ agent' = [agent EXCEPT ![a] = to] /\ to.pc = pc /\ to.goal = agent[a].goal
           /\ to.version = agent[a].version /\ to.got = agent[a].got
      BY <2>1, GotoTo DEF Pcs
    <3>2. RoleOK(a, to)
      BY <1>1, <1>2, <2>1, <3>1 DEF RoleOK, Replacing
    <3> QED BY <1>2, <3>1, <3>2 DEF Moves
  <2>2. CASE Leave(a)
    BY <2>2, LeaveTo
  <2>3. CASE lock = "none" /\ Goto(a, "open")
    BY <2>1, <2>3
  <2>4. CASE lock = "stale" /\ Goto(a, "unlink")
    BY <2>1, <2>4
  <2> QED BY <1>1, <2>2, <2>3, <2>4 DEF Stat
<1>5. to.pc \notin Critical /\ to.pc \notin {"replace", "restore"}
  BY <1>4 DEF Critical, Replacing
<1>6. ~stolen => CheckerOK(to)'
  <2>1. CASE to.goal = agent[a].goal /\ to.version = agent[a].version
    BY <1>1, <1>3, <1>4, <2>1, Knows, SameHands DEF Inductive, FilesInv
  <2>2. CASE to.goal # "update"
    BY <1>1, <1>4, <2>2, EmptyHanded
  <2> QED BY <1>4, <2>1, <2>2
<1>7. ASSUME Undisturbed' PROVE CalmStep(a, to)
  <2>1. LockInv /\ HandOK(agent[a])
    BY <1>3, <1>7, StillCalm DEF NoticeInv
  <2>2. to.pc # "unlink"
    BY <1>4, <2>1 DEF LockInv
  <2>3. HandOK(to)
    BY <1>1, <1>4, <2>1 DEF HandOK
  <2> QED BY <1>1, <1>2, <1>4, <1>5, <2>1, <2>2, <2>3 DEF CalmStep, LockInv, Critical, Replacing
<1>8. LockStep(a, to)
  BY <1>1, <1>5 DEF LockStep
<1> QED BY <1>1, <1>3, <1>4, <1>5, <1>6, <1>7, <1>8, Knows, Light

LEMMA UnlinkKeeps == ASSUME Inductive, NEW a \in Agents, UnlinkStale(a) PROVE Inductive'
<1>1. /\ agent[a].pc = "unlink" /\ agent[a] \in Processes /\ RoleOK(a, agent[a])
      /\ lock' = "none" /\ stolen' = (stolen \/ lock \in {"fresh", "future"})
      /\ UNCHANGED <<state, exec, bak, temp, latest, spawned, announced,
                     published, crashes, faults, clockBacks>>
  BY Knows DEF UnlinkStale, At, binary, Rest
<1>2. agent[a].got = None
  BY <1>1 DEF RoleOK, Critical, Replacing
<1>3. Counted
  BY <1>1 DEF Counted, Inductive, TypeOK
<1>4. PICK to \in Processes :
        /\ Moves(a, to) /\ to.got = None /\ to.pc = "open"
        /\ to.goal = agent[a].goal /\ to.version = agent[a].version
  <2>1. PICK to \in Processes :
         /\ agent' = [agent EXCEPT ![a] = to] /\ to.pc = "open" /\ to.goal = agent[a].goal
         /\ to.version = agent[a].version /\ to.got = agent[a].got
    BY GotoTo DEF UnlinkStale, Pcs
  <2>2. RoleOK(a, to)
    BY <1>1, <1>2, <2>1 DEF RoleOK, Replacing
  <2> QED BY <1>2, <2>1, <2>2 DEF Moves
<1>5. to.pc \notin Critical
  BY <1>4 DEF Critical, Replacing
<1>6. stolen' \in BOOLEAN /\ (stolen => stolen')
  BY <1>1, Knows
<1>7. ~stolen' => LockStep(a, to)
  <2>1. ~stolen' => ~stolen /\ lock \notin {"fresh", "future"}
    BY <1>1
  <2> QED BY <1>5, <2>1 DEF LockStep, Inductive, FilesInv, ExclusionInv
<1>8. ~stolen => CheckerOK(to)'
  BY <1>1, <1>3, <1>4, Knows, SameHands DEF Inductive, FilesInv
<1>9. ~Undisturbed'
  BY <1>1, <1>3, StillCalm DEF LockInv
<1> QED BY <1>1, <1>3, <1>4, <1>5, <1>6, <1>7, <1>8, <1>9, Knows, Light DEF LockAges

LEMMA OpenKeeps == ASSUME Inductive, NEW a \in Agents, Open(a) PROVE Inductive'
<1>1. /\ agent[a].pc = "open" /\ agent[a] \in Processes /\ RoleOK(a, agent[a])
      /\ UNCHANGED <<state, exec, bak, temp, latest, spawned, announced, stolen,
                     published, crashes, clockBacks>>
  BY Knows DEF Open, At, binary, story, Rest
<1>2. agent[a].got = None
  BY <1>1 DEF RoleOK, Critical, Replacing
<1>3. Counted
  BY <1>1, FaultIsCounted DEF Open
<1>4. CASE /\ lock = "none" /\ lock' = "fresh"
           /\ Goto(a, IF Goal(a) = "update" THEN "fetch" ELSE "read")
  <2>1. PICK to \in Processes :
         /\ agent' = [agent EXCEPT ![a] = to]
         /\ to.pc = (IF Goal(a) = "update" THEN "fetch" ELSE "read") /\ to.goal = agent[a].goal
         /\ to.version = agent[a].version /\ to.got = agent[a].got
    BY <1>4, GotoTo DEF Pcs
  <2>2. to.pc \in {"fetch", "read"} /\ (to.pc = "fetch" <=> to.goal = "update") /\ to.got = None
    BY <1>2, <2>1 DEF Goal
  <2>3. RoleOK(a, to)
    BY <1>1, <2>1, <2>2 DEF RoleOK, Replacing
  <2>4. Moves(a, to)
    BY <2>1, <2>3 DEF Moves
  <2>5. ~stolen' => LockStep(a, to)
    <3>1. ~stolen => \A b \in Agents \ {a} : agent[b].pc \notin Critical
      BY <1>4 DEF Inductive, FilesInv, ExclusionInv
    <3> QED BY <1>1, <1>4, <3>1 DEF LockStep
  <2>6. ~stolen => CheckerOK(to)'
    BY <1>1, <1>3, <2>1, <2>2, <2>4, Knows, SameHands DEF Inductive, FilesInv
  <2>7. ASSUME Undisturbed' PROVE CalmStep(a, to)
    <3>1. LockInv /\ HandOK(agent[a])
      BY <1>3, <2>7, StillCalm DEF NoticeInv
    <3>2. HandOK(to)
      BY <1>1, <2>1, <2>2, <3>1 DEF HandOK
    <3> QED BY <1>1, <1>2, <1>4, <2>1, <2>2, <3>1, <3>2 DEF CalmStep, LockInv, Critical, Replacing
  <2> QED BY <1>1, <1>3, <1>4, <2>2, <2>4, <2>5, <2>6, <2>7, Knows, Light DEF LockAges
<1>5. CASE Leave(a) /\ UNCHANGED lock
  <2>1. PICK to \in Processes :
           /\ Moves(a, to) /\ to.got = None
           /\ \/ to.pc = "idle" /\ to.goal = "none"
              \/ to.pc = "stat" /\ to.goal = "check"
    BY <1>5, LeaveTo
  <2>2. HandOK(to) /\ CheckerOK(to)' /\ to.pc \notin Critical
    BY <1>1, <2>1, EmptyHanded DEF Critical, Replacing
  <2>3. Undisturbed' => CalmStep(a, to)
    BY <1>1, <1>2, <1>3, <1>5, <2>1, <2>2, StillCalm DEF CalmStep, LockInv, Critical, Replacing
  <2>4. LockStep(a, to)
    BY <1>5, <2>2 DEF LockStep
  <2> QED BY <1>1, <1>3, <1>5, <2>1, <2>2, <2>3, <2>4, Knows, Light
<1> QED BY <1>4, <1>5 DEF Open

LEMMA ReleaseKeeps == ASSUME Inductive, NEW a \in Agents, Release(a) PROVE Inductive'
<1>1. /\ agent[a].pc = "release" /\ agent[a] \in Processes /\ RoleOK(a, agent[a])
      /\ lock' = "none" /\ Leave(a)
      /\ UNCHANGED <<state, exec, bak, temp, latest, spawned, announced, stolen,
                     published, crashes, faults, clockBacks>>
  BY Knows DEF Release, At, binary, story, Rest
<1>2. agent[a].got = None /\ agent[a].pc \in Critical
  BY <1>1 DEF RoleOK, Critical, Replacing
<1>3. Counted
  BY <1>1 DEF Counted, Inductive, TypeOK
<1>4. PICK to \in Processes :
         /\ Moves(a, to) /\ to.got = None
         /\ \/ to.pc = "idle" /\ to.goal = "none"
            \/ to.pc = "stat" /\ to.goal = "check"
  BY <1>1, LeaveTo
<1>5. HandOK(to) /\ CheckerOK(to)' /\ to.pc \notin Critical
  BY <1>1, <1>4, EmptyHanded DEF Critical, Replacing
<1>6. Undisturbed' => CalmStep(a, to)
  BY <1>1, <1>2, <1>3, <1>4, <1>5, StillCalm DEF CalmStep, LockInv
<1>7. ~stolen' => LockStep(a, to)
  BY <1>1, <1>2, <1>5 DEF LockStep, Inductive, FilesInv, ExclusionInv
<1> QED BY <1>1, <1>3, <1>4, <1>5, <1>6, <1>7, Knows, Light DEF LockAges

LEMMA ReadKeeps == ASSUME Inductive, NEW a \in Agents, Read(a) PROVE Inductive'
<1>1. /\ agent[a].pc = "read" /\ agent[a] \in Processes /\ RoleOK(a, agent[a])
      /\ agent[a].pc \in Critical
      /\ UNCHANGED <<lock, state, exec, bak, temp, latest, spawned, announced, stolen,
                     published, crashes, faults, clockBacks>>
  BY Knows DEF Read, At, Fine, binary, story, Rest, Critical
<1>3. Counted
  BY <1>1 DEF Counted, Inductive, TypeOK
<1>4. CASE /\ Becomes(a, [agent[a] EXCEPT !.seen = state, !.pc = "truncate"])
           /\ agent[a].goal = "notice" => state.notice = agent[a].version
           /\ agent[a].goal = "check" => Due(state)
  <2>1. PICK to \in Processes :
          /\ agent' = [agent EXCEPT ![a] = to] /\ to.pc = "truncate" /\ to.goal = agent[a].goal
          /\ to.version = agent[a].version /\ to.got = agent[a].got /\ to.seen = state
    <3> DEFINE to == [agent[a] EXCEPT !.seen = state, !.pc = "truncate"]
    <3>1. /\ to \in Processes /\ to.pc = "truncate" /\ to.goal = agent[a].goal
          /\ to.version = agent[a].version /\ to.got = agent[a].got /\ to.seen = state
      BY <1>1, Knows DEF Processes, Pcs
    <3> QED BY <1>4, <3>1 DEF Becomes
  <2>3. RoleOK(a, to)
    BY <1>1, <2>1 DEF RoleOK, Critical, Replacing
  <2>4. Moves(a, to)
    BY <2>1, <2>3 DEF Moves
  <2>5. ~stolen' => LockStep(a, to)
    BY <1>1 DEF LockStep, Inductive, FilesInv, ExclusionInv
  <2>6. ASSUME ~stolen PROVE CheckerOK(to)'
    <3>1. CheckerOK(agent[a])
      BY <2>6 DEF Inductive, FilesInv
    <3>2. to.got <= latest
      BY <2>1, <3>1 DEF CheckerOK
    <3> QED BY <1>1, <2>1, <2>4, <3>1, <3>2, SameHands DEF Inductive
  <2>7. ASSUME Undisturbed' PROVE CalmStep(a, to)
    <3>1. LockInv /\ ThrottleInv /\ HandOK(agent[a]) /\ ExclusionInv
      BY <1>3, <2>7, StillCalm DEF NoticeInv
    <3>2. HandOK(to)
      BY <1>1, <1>4, <2>1, <3>1 DEF HandOK
    <3>3. agent[a].goal = "check" => NoChecker
      <4>1. \A h \in Agents : agent[h].pc # "write"
        BY <1>1, <3>1 DEF ExclusionInv, Critical
      <4> QED BY <1>4, <3>1, <4>1 DEF ThrottleInv, Due
    <3> QED BY <1>1, <2>1, <3>1, <3>2, <3>3 DEF CalmStep, LockInv, Critical
  <2> QED BY <1>1, <1>3, <2>1, <2>4, <2>5, <2>6, <2>7, Knows, Light
<1>5. CASE End(a) /\ agent[a].goal # "update"
  <2>1. PICK to \in Processes :
           Moves(a, to) /\ to.got = None /\ to.pc = "release" /\ to.goal = agent[a].goal
    BY <1>1, <1>5, EndTo
  <2>2. HandOK(to) /\ CheckerOK(to)' /\ to.pc \in Critical
    BY <1>1, <2>1, EmptyHanded DEF Critical
  <2>3. Undisturbed' => CalmStep(a, to)
    BY <1>1, <1>3, <1>5, <2>1, <2>2, StillCalm DEF CalmStep, LockInv, RoleOK
  <2>4. ~stolen' => LockStep(a, to)
    BY <1>1 DEF LockStep, Inductive, FilesInv, ExclusionInv
  <2> QED BY <1>1, <1>3, <2>1, <2>2, <2>3, <2>4, Knows, Light
<1> QED BY <1>4, <1>5 DEF Read, Goal, Version

LEMMA TruncateFailsKeeps ==
  ASSUME Inductive, NEW a \in Agents, Truncate(a), Fault, End(a), state' \in States,
         announced' \in [Versions -> 0..2]
  PROVE  Inductive'
<1>1. /\ agent[a].pc = "truncate" /\ agent[a].pc \in Critical
      /\ UNCHANGED <<lock, exec, bak, temp, latest, spawned, stolen,
                     published, crashes, clockBacks>>
  BY DEF Truncate, At, binary, Rest, Critical
<1>2. Counted /\ ~Undisturbed'
  BY <1>1, FaultIsCounted DEF Undisturbed
<1>3. PICK to \in Processes :
         Moves(a, to) /\ to.got = None /\ to.pc = "release" /\ to.goal = agent[a].goal
  BY <1>1, EndTo
<1>4. HandOK(to) /\ CheckerOK(to)'
  BY <1>1, <1>3, EmptyHanded
<1>5. ~stolen' => LockStep(a, to)
  BY <1>1 DEF LockStep, Inductive, FilesInv, ExclusionInv
<1> QED BY <1>1, <1>2, <1>3, <1>4, <1>5, Knows, Light

\* A step of an update that has failed.
LEMMA FailedTo ==
  ASSUME Inductive, NEW a \in Agents, NEW pc \in {"read", "clean", "restore"}, Failed(a, pc),
         agent[a].pc \in Replacing
  PROVE  \E to \in Processes :
           /\ Moves(a, to) /\ to.pc = pc /\ to.goal = agent[a].goal
           /\ to.version = agent[a].version /\ to.got = None
<1> DEFINE to == [agent[a] EXCEPT !.pc = pc, !.got = None]
<1>1. agent[a] \in Processes /\ RoleOK(a, agent[a])
  BY Knows
<1>2. /\ to \in Processes /\ to.pc = pc /\ to.goal = agent[a].goal
      /\ to.version = agent[a].version /\ to.got = None
  BY <1>1 DEF Processes, Pcs, Replacing
<1>3. agent' = [agent EXCEPT ![a] = to]
  BY DEF Failed, Becomes
<1> HIDE DEF to
<1>4. RoleOK(a, to)
  BY <1>1, <1>2 DEF RoleOK, Replacing
<1> QED BY <1>2, <1>3, <1>4 DEF Moves

\* When a step fails that touches no file, the checker has nothing left in hand.
LEMMA FailedKeeps ==
  ASSUME Inductive, NEW a \in Agents, NEW pc \in {"read", "clean"}, Failed(a, pc), Updating,
         UNCHANGED binary, Fault \/ Fine, agent[a].pc \in Replacing,
         ~stolen /\ agent[a].pc \in {"replace", "restore"} => faults' > 1,
         Undisturbed' => agent[a].pc = "fetch"
  PROVE  Inductive'
<1>1. /\ agent[a].pc \in Critical /\ agent[a].pc # "release" /\ agent[a] \in Processes
      /\ UNCHANGED <<lock, exec, bak, temp, state, latest, spawned, announced, stolen,
                     published, crashes, clockBacks>>
  BY Knows DEF Updating, binary, story, Rest, Critical, Replacing
<1>2. Counted
  BY <1>1, FaultIsCounted
<1>3. PICK to \in Processes :
         /\ Moves(a, to) /\ to.pc = pc /\ to.goal = agent[a].goal
         /\ to.version = agent[a].version /\ to.got = None
  BY FailedTo
<1>4. to.pc \in Critical
  BY <1>3 DEF Critical, Replacing
<1>5. ~stolen' => LockStep(a, to)
  BY <1>1 DEF LockStep, Inductive, FilesInv, ExclusionInv
<1>6. ~stolen => CheckerOK(to)'
  BY <1>1, <1>3, Knows, SameHands DEF Inductive, FilesInv
<1>7. ASSUME Undisturbed', agent[a].pc = "fetch" PROVE CalmStep(a, to)
  <2>1. LockInv /\ HandOK(agent[a])
    BY <1>2, <1>7, StillCalm DEF NoticeInv
  <2>2. RoleOK(a, agent[a]) /\ agent[a].got = None /\ agent[a].goal = "update"
    BY <1>7, Knows DEF RoleOK, Critical, Replacing
  <2>3. HandOK(to)
    BY <1>3 DEF HandOK
  <2> QED BY <1>1, <1>3, <1>4, <1>7, <2>1, <2>2, <2>3 DEF CalmStep, LockInv
<1> QED BY <1>1, <1>2, <1>3, <1>4, <1>5, <1>6, <1>7, Knows, Light

\* When a call fails before the binary has been touched, or while it is.
LEMMA FailsKeeps ==
  ASSUME Inductive, NEW a \in Agents, NEW pc \in {"read", "clean"}, Failed(a, pc), Updating,
         UNCHANGED binary,
         agent[a].pc \in {"create_temp", "write_temp"} /\ Fault
  PROVE  Inductive'
<1>1. Counted /\ ~Undisturbed' /\ agent[a].pc \in Replacing
  BY FaultIsCounted DEF Updating, Rest, Undisturbed, Replacing
<1> QED BY <1>1, FailedKeeps

LEMMA FetchKeeps == ASSUME Inductive, NEW a \in Agents, Fetch(a) PROVE Inductive'
<1>1. /\ agent[a].pc = "fetch" /\ agent[a].pc \in Replacing /\ agent[a].pc \in Critical
      /\ agent[a] \in Processes /\ RoleOK(a, agent[a])
      /\ UNCHANGED <<lock, state, exec, bak, temp, latest, spawned, announced, stolen,
                     published, crashes, clockBacks>>
  BY Knows DEF Fetch, At, Updating, binary, story, Rest, Critical, Replacing
<1>2. agent[a].goal = "update" /\ agent[a].version \in Versions
  BY <1>1 DEF RoleOK, Processes
<1>3. CASE latest > Version(a) /\ Fine /\ Becomes(a, [agent[a] EXCEPT !.pc = "create_temp", !.got = latest])
  <2>1. PICK to \in Processes :
          /\ agent' = [agent EXCEPT ![a] = to] /\ to.pc = "create_temp" /\ to.goal = "update"
          /\ to.version = agent[a].version /\ to.got = latest /\ to.seen = agent[a].seen
    <3> DEFINE to == [agent[a] EXCEPT !.pc = "create_temp", !.got = latest]
    <3>1. latest \in Versions
      BY DEF Inductive, TypeOK
    <3>2. /\ to \in Processes /\ to.pc = "create_temp" /\ to.goal = "update"
          /\ to.version = agent[a].version /\ to.got = latest /\ to.seen = agent[a].seen
      BY <1>1, <1>2, <3>1 DEF Processes, Pcs
    <3> QED BY <1>3, <3>2 DEF Becomes
  <2>2. latest # None /\ latest > agent[a].version
    BY <1>3, Knows DEF Version
  <2>3. Moves(a, to) /\ to.pc \in Critical
    BY <1>1, <1>2, <2>1, <2>2 DEF Moves, RoleOK, Critical, Replacing
  <2>4. ~stolen' => LockStep(a, to)
    BY <1>1 DEF LockStep, Inductive, FilesInv, ExclusionInv
  <2>5. Counted
    BY <1>1, <1>3, FaultIsCounted
  <2>6. ASSUME ~stolen PROVE CheckerOK(to)'
    <3>1. CheckerOK(agent[a])
      BY <2>6 DEF Inductive, FilesInv
    <3>2. agent'[a] = to /\ \A b \in Agents \ {a} : agent'[b] = agent[b]
      BY <2>1, Moved DEF Inductive
    <3>3. exec # None => exec = agent[a].version \/ exec <= latest
      BY <1>1, <1>2, <3>1 DEF CheckerOK
    <3>4. exec # None => exec <= latest
      <4>1. agent[a].version <= latest
        BY <1>2, <2>2, Knows DEF Versions
      <4> QED BY <3>3, <4>1
    <3>5. \A b \in Agents : agent'[b].pc \in {"replace", "restore"} =>
            bak[agent'[b].version] = to.version \/ bak[agent'[b].version] <= latest
      BY <1>1, <1>2, <2>1, <3>1, <3>2 DEF CheckerOK
    <3>6. latest <= latest
      BY Knows
    <3> QED BY <1>1, <2>1, <3>4, <3>5, <3>6 DEF CheckerOK
  <2>7. ASSUME Undisturbed' PROVE CalmStep(a, to)
    <3>1. LockInv /\ NoticeInv /\ HandOK(agent[a])
      BY <2>5, <2>7, StillCalm DEF NoticeInv
    <3>2. exec = agent[a].version /\ agent[a].got = None
      BY <1>1, <1>2, <3>1 DEF HandOK, RoleOK
    <3>3. announced[latest] = 0
      <4>1. latest \in Versions /\ exec \in Nat /\ exec # None
        BY <1>2, <3>2 DEF Inductive, TypeOK, Versions, None
      <4>2. ~(latest <= exec)
        BY <2>2, <3>2, <4>1 DEF Versions
      <4> QED BY <3>1, <4>1, <4>2 DEF NoticeInv, Reached
    <3>4. HandOK(to)
      BY <2>1, <2>2, <3>2, <3>3 DEF HandOK
    <3> QED BY <1>1, <1>2, <2>1, <2>3, <3>1, <3>2, <3>4 DEF CalmStep, LockInv
  <2> QED BY <1>1, <2>1, <2>3, <2>4, <2>5, <2>6, <2>7, Knows, Light
<1>4. CASE (Fault \/ Fine) /\ Failed(a, "read")
  BY <1>1, <1>4, FailedKeeps DEF Fetch
<1> QED BY <1>3, <1>4 DEF Fetch

LEMMA CreateTempKeeps == ASSUME Inductive, NEW a \in Agents, CreateTemp(a) PROVE Inductive'
<1>1. /\ agent[a].pc = "create_temp" /\ agent[a].pc \in Critical
      /\ agent[a] \in Processes /\ RoleOK(a, agent[a])
      /\ UNCHANGED <<lock, state, exec, bak, latest, spawned, announced, stolen,
                     published, crashes, clockBacks>>
  BY Knows DEF CreateTemp, At, Updating, story, Rest, Critical, Replacing
<1>2. CASE temp' = Torn /\ Fine /\ Goto(a, "write_temp")
  <2>1. PICK to \in Processes :
         /\ agent' = [agent EXCEPT ![a] = to] /\ to.pc = "write_temp" /\ to.goal = agent[a].goal
         /\ to.version = agent[a].version /\ to.got = agent[a].got
    BY <1>2, GotoTo DEF Pcs
  <2>2. Moves(a, to) /\ to.pc \in Critical
    BY <1>1, <2>1 DEF Moves, RoleOK, Critical, Replacing
  <2>3. ~stolen' => LockStep(a, to)
    BY <1>1 DEF LockStep, Inductive, FilesInv, ExclusionInv
  <2>4. Counted
    BY <1>1, <1>2, FaultIsCounted
  <2>5. ASSUME ~stolen PROVE CheckerOK(to)'
    <3>1. CheckerOK(agent[a])
      BY <2>5 DEF Inductive, FilesInv
    <3>2. agent'[a] = to /\ \A b \in Agents \ {a} : agent'[b] = agent[b]
      BY <2>1, Moved DEF Inductive
    <3> QED BY <1>1, <1>2, <2>1, <3>1, <3>2 DEF CheckerOK
  <2>6. ASSUME Undisturbed' PROVE CalmStep(a, to)
    <3>1. LockInv /\ HandOK(agent[a])
      BY <2>4, <2>6, StillCalm DEF NoticeInv
    <3>2. HandOK(to)
      BY <1>1, <2>1, <3>1 DEF HandOK
    <3> QED BY <1>1, <2>1, <2>2, <3>1, <3>2 DEF CalmStep, LockInv, RoleOK
  <2>7. temp' \in Files
    BY <1>2 DEF Files
  <2> QED BY <1>1, <2>1, <2>2, <2>3, <2>4, <2>5, <2>6, <2>7, Knows, Light
<1>3. CASE Fault /\ UNCHANGED temp /\ Failed(a, "read")
  BY <1>1, <1>3, FailsKeeps DEF CreateTemp, binary
<1> QED BY <1>2, <1>3 DEF CreateTemp

\* Once the lock is not exclusive any more nothing is said of the files.
LEMMA StolenKeeps ==
  ASSUME Inductive, stolen, stolen', TypeOK', RolesInv', Counted
  PROVE  Inductive'
<1>1. ~Undisturbed'
  BY StillCalm DEF LockInv
<1> QED BY <1>1 DEF Inductive, FilesInv, CalmInv

LEMMA WriteTempKeeps == ASSUME Inductive, NEW a \in Agents, WriteTemp(a) PROVE Inductive'
<1>1. /\ agent[a].pc = "write_temp" /\ agent[a].pc \in Critical
      /\ agent[a] \in Processes /\ RoleOK(a, agent[a])
      /\ UNCHANGED <<lock, state, bak, latest, spawned, announced, stolen,
                     published, crashes, clockBacks>>
  BY Knows DEF WriteTemp, At, Updating, story, Rest, Critical, Replacing
<1>2. CASE /\ Fine /\ Goto(a, "backup")
           /\ IF temp = None /\ exec = Torn THEN exec' = agent[a].got /\ UNCHANGED temp
              ELSE temp' = agent[a].got /\ UNCHANGED exec
  <2>1. PICK to \in Processes :
         /\ agent' = [agent EXCEPT ![a] = to] /\ to.pc = "backup" /\ to.goal = agent[a].goal
         /\ to.version = agent[a].version /\ to.got = agent[a].got
    BY <1>2, GotoTo DEF Pcs
  <2>2. Moves(a, to) /\ to.pc \in Critical
    BY <1>1, <2>1 DEF Moves, RoleOK, Critical, Replacing
  <2>3. ~stolen' => LockStep(a, to)
    BY <1>1 DEF LockStep, Inductive, FilesInv, ExclusionInv
  <2>4. Counted
    BY <1>1, <1>2, FaultIsCounted
  <2>5. exec' \in Files /\ temp' \in Files
    BY <1>1, <1>2 DEF Inductive, TypeOK, Files, Processes
  <2>6. CASE stolen
    <3>1. TypeOK'
      <4>1. agent' \in [Agents -> Processes]
        BY <2>1, Moved DEF Inductive
      <4> QED BY <1>1, <2>4, <2>5, <4>1 DEF Inductive, TypeOK, Counted
    <3>2. RolesInv'
      BY <2>2, RolesKept DEF Inductive
    <3> QED BY <1>1, <2>4, <2>6, <3>1, <3>2, StolenKeeps
  <2>7. CASE ~stolen
    <3>1. CheckerOK(agent[a])
      BY <2>7 DEF Inductive, FilesInv
    <3>2. agent'[a] = to /\ \A b \in Agents \ {a} : agent'[b] = agent[b]
      BY <2>1, Moved DEF Inductive
    <3>3. temp = Torn /\ Torn # None
      BY <1>1, <3>1, SelfUpdateAssumption DEF CheckerOK, Torn, None
    <3>4. temp' = agent[a].got /\ UNCHANGED exec
      BY <1>2, <3>3
    <3>5. CheckerOK(to)'
      BY <1>1, <2>1, <3>1, <3>2, <3>4 DEF CheckerOK
    <3>6. ASSUME Undisturbed' PROVE CalmStep(a, to)
      <4>1. LockInv /\ HandOK(agent[a])
        BY <2>4, <3>6, StillCalm DEF NoticeInv
      <4>2. HandOK(to)
        BY <1>1, <2>1, <4>1 DEF HandOK
      <4> QED BY <1>1, <2>1, <2>2, <4>1, <4>2 DEF CalmStep, LockInv, RoleOK
    <3> QED BY <1>1, <2>1, <2>2, <2>3, <2>4, <2>5, <3>4, <3>5, <3>6, Knows, Light
  <2> QED BY <2>6, <2>7, Knows
<1>3. CASE Fault /\ UNCHANGED <<exec, temp>> /\ Failed(a, "read")
  BY <1>1, <1>3, FailsKeeps DEF WriteTemp, binary
<1> QED BY <1>2, <1>3 DEF WriteTemp

LEMMA CleanKeeps == ASSUME Inductive, NEW a \in Agents, Clean(a) PROVE Inductive'
<1>1. /\ agent[a].pc = "clean" /\ agent[a].pc \in Critical
      /\ agent[a] \in Processes /\ RoleOK(a, agent[a]) /\ temp' = None
      /\ UNCHANGED <<lock, state, exec, bak, latest, spawned, announced, stolen,
                     published, crashes, faults, clockBacks>>
  BY Knows DEF Clean, At, Updating, Fine, story, Rest, Critical, Replacing
<1>2. PICK to \in Processes :
       /\ agent' = [agent EXCEPT ![a] = to] /\ to.pc = "read" /\ to.goal = agent[a].goal
       /\ to.version = agent[a].version /\ to.got = agent[a].got
  BY GotoTo DEF Clean, Pcs
<1>3. Moves(a, to) /\ to.pc \in Critical
  BY <1>1, <1>2 DEF Moves, RoleOK, Critical, Replacing
<1>4. ~stolen' => LockStep(a, to)
  BY <1>1 DEF LockStep, Inductive, FilesInv, ExclusionInv
<1>5. Counted
  BY <1>1 DEF Counted, Inductive, TypeOK
<1>6. ASSUME ~stolen PROVE CheckerOK(to)'
  <2>1. CheckerOK(agent[a]) /\ to.got <= latest
    BY <1>2, <1>6 DEF Inductive, FilesInv, CheckerOK
  <2> QED BY <1>1, <1>2, <1>3, <2>1, SameHands DEF Inductive
<1>7. ASSUME Undisturbed' PROVE CalmStep(a, to)
  <2>1. LockInv /\ HandOK(agent[a])
    BY <1>5, <1>7, StillCalm DEF NoticeInv
  <2>2. HandOK(to)
    BY <1>1, <1>2, <2>1 DEF HandOK
  <2> QED BY <1>1, <1>2, <1>3, <2>1, <2>2 DEF CalmStep, LockInv, RoleOK, Replacing
<1>8. temp' \in Files
  BY <1>1 DEF Files
<1> QED BY <1>1, <1>2, <1>3, <1>4, <1>5, <1>6, <1>7, <1>8, Knows, Light

-----------------------------------------------------------------------------
(* The world.                                                              *)

LEMMA CrashKeeps == ASSUME Inductive, NEW a \in Agents, Crash(a) PROVE Inductive'
<1>1. /\ agent' = [agent EXCEPT ![a] = Idle] /\ Idle \in Processes /\ Mishap
      /\ crashes' = crashes + 1
      /\ UNCHANGED <<lock, state, exec, bak, temp, latest, spawned, announced, stolen,
                     published, faults, clockBacks>>
  BY Knows DEF Crash, Becomes, binary, story
<1>2. crashes \in Nat /\ faults \in Nat /\ clockBacks \in Nat
  BY DEF Inductive, TypeOK
<1>3. crashes' \in Nat /\ crashes' > 0 /\ crashes' >= crashes
  BY <1>1, <1>2
<1>4. crashes' + faults' + clockBacks' <= MaxMishaps
  <2>1. crashes + 1 + faults + clockBacks <= MaxMishaps
    BY <1>1, <1>2, SelfUpdateAssumption DEF Mishap
  <2>2. faults' = faults /\ clockBacks' = clockBacks
    BY <1>1
  <2> QED BY <1>1, <2>1, <2>2
<1>5. Counted /\ ~Undisturbed'
  BY <1>1, <1>2, <1>3, <1>4 DEF Counted, Undisturbed
<1>6. Moves(a, Idle) /\ Idle.got = None /\ Idle.pc = "idle" /\ Idle.goal = "none"
  BY <1>1 DEF Moves, RoleOK, Idle, Replacing
<1>7. CheckerOK(Idle)'
  BY <1>1, <1>6, EmptyHanded
<1>8. LockStep(a, Idle) /\ Idle.pc \notin {"replace", "restore"}
  BY <1>1, <1>6 DEF LockStep, Critical, Replacing
<1> QED BY <1>1, <1>3, <1>5, <1>6, <1>7, <1>8, Knows, Light

LEMMA InvokeKeeps == ASSUME Inductive, NEW u \in Users, Invoke(u) PROVE Inductive'
<1> DEFINE a == <<u, "foreground">>
<1>1. a \in Agents /\ a[2] = "foreground"
  BY DEF Agents
<1> HIDE DEF a
<1>2. /\ agent[a].pc = "idle" /\ exec \in Versions /\ agent[a] \in Processes
      /\ RoleOK(a, agent[a])
      /\ UNCHANGED <<lock, state, exec, bak, temp, latest, spawned, announced, stolen,
                     published, crashes, faults, clockBacks>>
  BY <1>1, Knows DEF Invoke, At, binary, story, Rest, a
<1>3. PICK to \in Processes :
        /\ Moves(a, to) /\ to.pc = "stat" /\ to.goal \in {"notice", "check"} /\ to.got = None
  <2>1. CASE Becomes(a, [Idle EXCEPT !.pc = "stat", !.goal = "notice", !.version = exec])
    <3> DEFINE to == [Idle EXCEPT !.pc = "stat", !.goal = "notice", !.version = exec]
    <3>1. exec # None /\ Idle \in Processes /\ Idle.got = None
      BY <1>1, <1>2, Knows DEF Idle, Versions, None
    <3>2. to \in Processes /\ to.pc = "stat" /\ to.goal = "notice" /\ to.got = None
          /\ to.version # None
      BY <1>2, <3>1 DEF Processes, Pcs
    <3>3. agent' = [agent EXCEPT ![a] = to]
      BY <2>1 DEF Becomes
    <3> HIDE DEF to
    <3>4. RoleOK(a, to)
      BY <1>1, <3>2 DEF RoleOK, Replacing
    <3> QED BY <3>2, <3>3, <3>4 DEF Moves
  <2>2. CASE Becomes(a, [Idle EXCEPT !.pc = "stat", !.goal = "check"])
    <3> DEFINE to == [Idle EXCEPT !.pc = "stat", !.goal = "check"]
    <3>1. to \in Processes /\ to.pc = "stat" /\ to.goal = "check" /\ to.got = None
      BY <1>1, Knows DEF Idle, Processes, Pcs
    <3>2. agent' = [agent EXCEPT ![a] = to]
      BY <2>2 DEF Becomes
    <3> HIDE DEF to
    <3>3. RoleOK(a, to)
      BY <1>1, <3>1 DEF RoleOK, Replacing
    <3> QED BY <3>1, <3>2, <3>3 DEF Moves
  <2> QED BY <2>1, <2>2 DEF Invoke, a
<1>4. Counted
  BY <1>2 DEF Counted, Inductive, TypeOK
<1>5. HandOK(to) /\ CheckerOK(to)' /\ to.pc \notin Critical /\ agent[a].got = None
  BY <1>2, <1>3, EmptyHanded DEF RoleOK, Critical, Replacing
<1>6. Undisturbed' => CalmStep(a, to)
  BY <1>2, <1>3, <1>4, <1>5, StillCalm DEF CalmStep, LockInv, Critical, Replacing
<1>7. LockStep(a, to)
  BY <1>2, <1>5 DEF LockStep
<1> QED BY <1>1, <1>2, <1>3, <1>4, <1>5, <1>6, <1>7, Knows, Light

LEMMA ClockBackKeeps == ASSUME Inductive, ClockBack PROVE Inductive'
<1>1. /\ Mishap /\ clockBacks' = clockBacks + 1
      /\ lock' = (IF lock = "none" THEN "none" ELSE "future")
      /\ state' = (IF state.checked = "never" THEN state ELSE [state EXCEPT !.checked = "future"])
      /\ UNCHANGED <<exec, bak, temp, latest, agent, spawned, announced, stolen,
                     published, crashes, faults>>
  BY DEF ClockBack, binary, story
<1>2. crashes \in Nat /\ faults \in Nat /\ clockBacks \in Nat
  BY DEF Inductive, TypeOK
<1>3. clockBacks' \in Nat /\ ~Undisturbed'
  BY <1>1, <1>2 DEF Undisturbed
<1>4. crashes' + faults' + clockBacks' <= MaxMishaps
  <2>1. crashes + faults + (clockBacks + 1) <= MaxMishaps
    BY <1>1, <1>2, SelfUpdateAssumption DEF Mishap
  <2>2. faults' = faults /\ crashes' = crashes
    BY <1>1
  <2> QED BY <1>1, <2>1, <2>2
<1>5. TypeOK'
  <2>1. lock' \in LockAges
    BY <1>1 DEF LockAges
  <2>2. state \in States
    BY DEF Inductive, TypeOK
  <2>3. state' \in States
    BY <1>1, <2>2 DEF States, CheckAges
  <2> QED BY <1>1, <1>2, <1>3, <1>4, <2>1, <2>3 DEF Inductive, TypeOK
<1>6. RolesInv'
  BY <1>1 DEF Inductive, RolesInv
<1>7. FilesInv'
  <2>1. ExclusionInv => ExclusionInv'
    BY <1>1 DEF ExclusionInv
  <2>2. BinaryInv => BinaryInv'
    BY <1>1 DEF BinaryInv
  <2>3. \A b \in Agents : CheckerOK(agent[b]) => CheckerOK(agent[b])'
    BY <1>1 DEF CheckerOK
  <2> QED BY <1>1, <2>1, <2>2, <2>3 DEF Inductive, FilesInv
<1> QED BY <1>3, <1>5, <1>6, <1>7 DEF Inductive, CalmInv

LEMMA PublishKeeps == ASSUME Inductive, Publish PROVE Inductive'
<1>1. /\ published < MaxPublished /\ published' = published + 1
      /\ latest' \in Versions /\ latest' > latest
      /\ UNCHANGED <<lock, state, exec, bak, temp, agent, spawned, announced, stolen,
                     crashes, faults, clockBacks>>
  BY DEF Publish, binary, story
<1>2. TypeOK'
  BY <1>1, SelfUpdateAssumption DEF Inductive, TypeOK
<1>3. RolesInv'
  BY <1>1 DEF Inductive, RolesInv
<1>4. \A v \in Files : v <= latest => v <= latest'
  BY <1>1, SelfUpdateAssumption DEF Inductive, TypeOK, Versions, Files, None, Torn
<1>5. FilesInv'
  <2>1. ExclusionInv => ExclusionInv'
    BY <1>1 DEF ExclusionInv
  <2>2. BinaryInv => BinaryInv'
    BY <1>1 DEF BinaryInv
  <2>3. ASSUME NEW b \in Agents, CheckerOK(agent[b]) PROVE CheckerOK(agent[b])'
    <3>1. agent[b].got \in Files /\ exec \in Files
      BY Knows DEF Processes, Files, Inductive, TypeOK
    <3>2. \A c \in Agents : agent[c].pc \in {"replace", "restore"} /\ agent[c].version # None =>
            bak[agent[c].version] \in Files
      BY Knows DEF Inductive, TypeOK, Processes
    <3>3. \A c \in Agents : agent[c].pc \in {"replace", "restore"} => agent[c].version # None
      BY Knows DEF RoleOK, Replacing
    <3>4. \A c \in Agents : agent[c].pc \in {"replace", "restore"} => bak[agent[c].version] \in Files
      BY <3>2, <3>3
    <3> QED BY <1>1, <1>4, <2>3, <3>1, <3>4 DEF CheckerOK
  <2> QED BY <1>1, <2>1, <2>2, <2>3 DEF Inductive, FilesInv
<1>6. CalmInv'
  <2>1. Undisturbed' => Undisturbed
    BY <1>1 DEF Undisturbed
  <2>2. LockInv => LockInv'
    BY <1>1 DEF LockInv
  <2>3. ThrottleInv => ThrottleInv'
    BY <1>1 DEF ThrottleInv, NoChecker
  <2>4. NoticeInv => NoticeInv'
    <3>1. \A v : Reached(v) <=> Reached(v)'
      BY <1>1 DEF Reached
    <3>2. \A v : Replaced(v) <=> Replaced(v)'
      BY <1>1 DEF Replaced
    <3>3. \A v : Pending(v) <=> Pending(v)'
      BY <1>1, <3>1, <3>2 DEF Pending
    <3>4. \A b \in Agents : HandOK(agent[b]) => HandOK(agent[b])'
      BY <1>1, <3>3 DEF HandOK
    <3> QED BY <1>1, <3>1, <3>2, <3>3, <3>4 DEF NoticeInv
  <2> QED BY <2>1, <2>2, <2>3, <2>4 DEF CalmInv, Inductive
<1> QED BY <1>2, <1>3, <1>5, <1>6 DEF Inductive

-----------------------------------------------------------------------------
(* Steps on the binary and its backups.                                    *)

LEMMA BinaryStep ==
  ASSUME Inductive, NEW a \in Agents, NEW to \in Processes, Moves(a, to), Counted,
         UNCHANGED <<lock, state, spawned, announced, stolen>>,
         exec' \in Files, bak' \in [Versions -> Files], temp' \in Files,
         agent[a].pc \in Critical,
         ~stolen => BinaryInv' /\ \A b \in Agents : CheckerOK(agent[b])',
         Undisturbed' => LockInv' /\ ThrottleInv' /\ NoticeInv'
  PROVE  Inductive'
<1>1. TypeOK'
  <2>1. agent' \in [Agents -> Processes]
    BY Moved DEF Inductive, Moves
  <2> QED BY <2>1 DEF Inductive, TypeOK, Counted
<1>2. RolesInv'
  BY RolesKept DEF Inductive
<1>3. ~stolen => ExclusionInv'
  <2>1. ~stolen => ExclusionInv /\ lock \in {"fresh", "future"}
    BY DEF Inductive, FilesInv, ExclusionInv
  <2> QED BY <2>1, Exclusive DEF Inductive
<1> QED BY <1>1, <1>2, <1>3 DEF Inductive, FilesInv, CalmInv

\* The checker a is alone in the critical section.
LEMMA Alone ==
  ASSUME Inductive, ~stolen, NEW a \in Agents, agent[a].pc \in Critical
  PROVE  \A b \in Agents \ {a} : agent[b].pc \notin Critical /\ agent[b].got = None
<1>1. \A b \in Agents \ {a} : agent[b].pc \notin Critical
  BY DEF Inductive, FilesInv, ExclusionInv
<1> QED BY <1>1, Knows DEF RoleOK

LEMMA BackupKeeps == ASSUME Inductive, NEW a \in Agents, Backup(a) PROVE Inductive'
<1>1. /\ agent[a].pc = "backup" /\ agent[a].pc \in Critical /\ agent[a].pc \in Replacing
      /\ agent[a] \in Processes /\ RoleOK(a, agent[a])
      /\ UNCHANGED <<lock, state, temp, latest, spawned, announced, stolen,
                     published, crashes, clockBacks>>
  BY Knows DEF Backup, At, Updating, story, Rest, Critical, Replacing
<1>2. agent[a].goal = "update" /\ agent[a].version \in Versions /\ agent[a].got # None
  BY <1>1 DEF RoleOK, Processes, Replacing
<1>3. CASE /\ exec # None /\ Fine /\ Goto(a, "replace")
           /\ bak' = [bak EXCEPT ![Version(a)] = exec] /\ exec' = None
  <2>1. PICK to \in Processes :
         /\ agent' = [agent EXCEPT ![a] = to] /\ to.pc = "replace" /\ to.goal = "update"
         /\ to.version = agent[a].version /\ to.got = agent[a].got
    BY <1>2, <1>3, GotoTo DEF Pcs
  <2>2. Moves(a, to) /\ to.pc \in Critical
    BY <1>1, <1>2, <2>1 DEF Moves, RoleOK, Critical, Replacing
  <2>3. agent'[a] = to /\ \A b \in Agents \ {a} : agent'[b] = agent[b]
    BY <2>1, Moved DEF Inductive
  <2>4. Counted
    BY <1>1, <1>3, FaultIsCounted
  <2>5. exec \in Files /\ bak \in [Versions -> Files]
    BY DEF Inductive, TypeOK
  <2>6. /\ exec' \in Files /\ bak' \in [Versions -> Files]
        /\ bak'[agent[a].version] = exec
        /\ \A v \in Versions \ {agent[a].version} : bak'[v] = bak[v]
    BY <1>2, <1>3, <2>5 DEF Version, Files
  <2>7. ASSUME ~stolen PROVE BinaryInv' /\ \A b \in Agents : CheckerOK(agent[b])'
    <3>1. BinaryInv /\ \A b \in Agents : CheckerOK(agent[b])
      BY <2>7 DEF Inductive, FilesInv
    <3>2. \A b \in Agents \ {a} : agent[b].pc \notin Critical
      BY <1>1, <2>7, Alone
    <3>3. BinaryInv'
      <4>1. exec' # Torn
        BY <1>3, SelfUpdateAssumption DEF None, Torn
      <4> QED BY <1>2, <1>3, <2>1, <2>3, <2>6, <3>1, <4>1 DEF BinaryInv
    <3>4. \A c \in Agents : agent'[c].pc \in {"replace", "restore"} => c = a
      BY <2>3, <3>2 DEF Critical, Replacing
    <3>5. exec <= exec
      BY <2>5, SelfUpdateAssumption DEF Files, Versions, None, Torn
    <3>6. CheckerOK(to)'
      BY <1>1, <1>2, <1>3, <2>1, <2>3, <2>6, <3>1, <3>4, <3>5 DEF CheckerOK, BinaryInv
    <3>7. ASSUME NEW b \in Agents \ {a} PROVE CheckerOK(agent[b])'
      <4>1. agent'[b] = agent[b] /\ CheckerOK(agent[b]) /\ agent[b].pc \notin Critical
        BY <2>3, <3>1, <3>2
      <4> QED BY <1>1, <1>3, <2>1, <2>3, <2>6, <3>4, <4>1 DEF CheckerOK, Critical, Replacing
    <3> QED BY <2>3, <3>3, <3>6, <3>7
  <2>8. ASSUME Undisturbed' PROVE LockInv' /\ ThrottleInv' /\ NoticeInv'
    <3>1. LockInv /\ ThrottleInv /\ NoticeInv /\ HandOK(agent[a]) /\ ~stolen
      BY <2>4, <2>8, StillCalm DEF NoticeInv, LockInv
    <3>2. exec = agent[a].version
      BY <1>1, <1>2, <3>1 DEF HandOK
    <3>3. \A v \in Versions : bak'[v] \in {None, v}
      BY <2>6, <3>1, <3>2 DEF LockInv
    <3>4. LockInv'
      BY <1>1, <2>1, <2>2, <3>1, <3>3, LockKept DEF Inductive
    <3>5. ThrottleInv'
      BY <1>1, <1>2, <2>1, <2>2, <3>1, ThrottleKept DEF Inductive
    <3>6. \A b \in Agents \ {a} :
            agent[b].pc \notin Critical /\ agent[b].got = None /\ agent[b].goal # "update"
      BY <1>1, <1>2, <3>1, Alone DEF ThrottleInv
    <3>7. \A v : Replaced(v) => Replaced(v)'
      <4>1. \A v : \A w \in Versions : bak[w] \in 1..(v - 1) => bak[w] # None
        BY DEF None
      <4>2. \A w \in Versions : bak[w] # None => bak'[w] = bak[w]
        BY <2>6, <3>1, <3>2 DEF LockInv
      <4> QED BY <4>1, <4>2 DEF Replaced
    <3>8. \A v : Reached(v) => Reached(v)'
      BY <1>3, <2>1, <2>3, <3>2, <3>6 DEF Reached, Critical, Replacing
    <3>9. \A v : Pending(v) => Pending(v)'
      BY <1>1, <3>7, <3>8 DEF Pending
    <3>10. \A v \in Versions : announced'[v] # 0 => announced'[v] = 1 /\ Replaced(v)' /\ Reached(v)'
      BY <1>1, <3>1, <3>7, <3>8 DEF NoticeInv
    <3>11. Pending(state.notice)'
      <4>1. state' = state /\ Pending(state.notice)
        BY <1>1, <3>1 DEF NoticeInv
      <4> QED BY <3>9, <4>1
    <3>12. HandOK(to)'
      BY <1>1, <1>2, <2>1, <2>6, <3>1, <3>2 DEF HandOK
    <3>13. ASSUME NEW b \in Agents \ {a} PROVE HandOK(agent[b])'
      <4>1. agent'[b] = agent[b]
        BY <2>3
      <4> QED BY <3>6, <4>1 DEF HandOK, Critical, Replacing
    <3>14. NoticeInv'
      BY <1>3, <2>3, <3>10, <3>11, <3>12, <3>13 DEF NoticeInv
    <3> QED BY <3>4, <3>5, <3>14
  <2> QED BY <1>1, <2>2, <2>4, <2>6, <2>7, <2>8, Knows, BinaryStep
<1>4. CASE /\ (IF exec # None THEN Fault ELSE Fine)
           /\ UNCHANGED <<exec, bak>> /\ Failed(a, "clean")
  <2>1. Counted /\ (Fault => faults' > 0)
    BY <1>1, <1>4, FaultIsCounted
  <2>2. ~Undisturbed'
    <3>1. SUFFICES ASSUME Undisturbed' PROVE FALSE
      OBVIOUS
    <3>2. HandOK(agent[a])
      BY <2>1, <3>1, StillCalm DEF NoticeInv
    <3>3. exec = agent[a].version /\ agent[a].version # None
      BY <1>1, <1>2, <3>2 DEF HandOK, RoleOK
    <3> QED BY <1>4, <2>1, <3>1, <3>3 DEF Undisturbed
  <2> QED BY <1>1, <1>4, <2>2, FailedKeeps DEF Backup, binary
<1> QED BY <1>3, <1>4 DEF Backup

LEMMA ReplaceKeeps == ASSUME Inductive, NEW a \in Agents, Replace(a) PROVE Inductive'
<1>1. /\ agent[a].pc = "replace" /\ agent[a].pc \in Critical /\ agent[a].pc \in Replacing
      /\ agent[a] \in Processes /\ RoleOK(a, agent[a])
      /\ UNCHANGED <<lock, state, bak, latest, spawned, announced, stolen,
                     published, crashes, clockBacks>>
  BY Knows DEF Replace, At, Updating, story, Rest, Critical, Replacing
<1>2. agent[a].goal = "update" /\ agent[a].version \in Versions /\ agent[a].got \in Versions
  BY <1>1 DEF RoleOK, Processes, Replacing
<1>3. ~stolen => CheckerOK(agent[a]) /\ temp = agent[a].got /\ temp # None
  BY <1>1, <1>2 DEF Inductive, FilesInv, CheckerOK, RoleOK
<1>4. CASE temp # None /\ Fine /\ Goto(a, "clean") /\ exec' = temp /\ temp' = None
  <2>1. PICK to \in Processes :
         /\ agent' = [agent EXCEPT ![a] = to] /\ to.pc = "clean" /\ to.goal = "update"
         /\ to.version = agent[a].version /\ to.got = agent[a].got
    BY <1>2, <1>4, GotoTo DEF Pcs
  <2>2. Moves(a, to) /\ to.pc \in Critical
    BY <1>1, <1>2, <2>1 DEF Moves, RoleOK, Critical, Replacing
  <2>3. agent'[a] = to /\ \A b \in Agents \ {a} : agent'[b] = agent[b]
    BY <2>1, Moved DEF Inductive
  <2>4. Counted
    BY <1>1, <1>4, FaultIsCounted
  <2>5. exec' \in Files /\ temp' \in Files /\ bak' \in [Versions -> Files]
    BY <1>1, <1>4 DEF Inductive, TypeOK, Files
  <2>6. ASSUME ~stolen PROVE BinaryInv' /\ \A b \in Agents : CheckerOK(agent[b])'
    <3>1. BinaryInv /\ \A b \in Agents : CheckerOK(agent[b])
      BY <2>6 DEF Inductive, FilesInv
    <3>2. \A b \in Agents \ {a} : agent[b].pc \notin Critical
      BY <1>1, <2>6, Alone
    <3>3. exec' = agent[a].got /\ exec' # None /\ exec' # Torn /\ exec' <= latest
      <4>1. agent[a].got # Torn
        BY <1>2, SelfUpdateAssumption DEF Versions, Torn
      <4> QED BY <1>3, <1>4, <2>6, <4>1 DEF CheckerOK
    <3>4. \A v \in Versions : bak[v] <= exec'
      <4>1. /\ \A v \in Versions : bak[v] <= bak[agent[a].version]
            /\ bak[agent[a].version] <= agent[a].got
        BY <1>1, <3>1 DEF CheckerOK
      <4>2. \A v \in Versions : bak[v] \in Int
        BY SelfUpdateAssumption DEF Inductive, TypeOK, Files, Versions, None, Torn
      <4>3. agent[a].got \in Int
        BY <1>2 DEF Versions
      <4> QED BY <1>2, <3>3, <4>1, <4>2, <4>3
    <3>5. BinaryInv'
      BY <1>1, <3>1, <3>3, <3>4 DEF BinaryInv
    <3>6. \A c \in Agents : agent'[c].pc \notin {"replace", "restore"}
      BY <2>1, <2>3, <3>2 DEF Critical, Replacing
    <3>7. CheckerOK(to)'
      BY <1>1, <2>1, <3>1, <3>3, <3>6 DEF CheckerOK
    <3>8. ASSUME NEW b \in Agents \ {a} PROVE CheckerOK(agent[b])'
      <4>1. agent'[b] = agent[b] /\ CheckerOK(agent[b]) /\ agent[b].pc \notin Critical
        BY <2>3, <3>1, <3>2
      <4> QED BY <1>1, <3>3, <3>6, <4>1 DEF CheckerOK, Critical, Replacing
    <3> QED BY <2>3, <3>5, <3>7, <3>8
  <2>7. ASSUME Undisturbed' PROVE LockInv' /\ ThrottleInv' /\ NoticeInv'
    <3>1. LockInv /\ ThrottleInv /\ NoticeInv /\ HandOK(agent[a]) /\ ~stolen
      BY <2>4, <2>7, StillCalm DEF NoticeInv, LockInv
    <3>2. /\ exec' = agent[a].got /\ exec' # None /\ agent[a].got # None
          /\ bak[agent[a].version] = agent[a].version
          /\ agent[a].version < agent[a].got /\ announced[agent[a].got] = 0
      BY <1>1, <1>3, <1>4, <3>1 DEF HandOK
    <3>4. LockInv'
      BY <1>1, <2>1, <2>2, <3>1, <3>2, LockKept DEF Inductive, LockInv
    <3>5. ThrottleInv'
      BY <1>1, <1>2, <2>1, <2>2, <3>1, ThrottleKept DEF Inductive
    <3>6. \A b \in Agents \ {a} :
            agent[b].pc \notin Critical /\ agent[b].got = None /\ agent[b].goal # "update"
      BY <1>1, <1>2, <3>1, Alone DEF ThrottleInv
    <3>7. \A v : Replaced(v) => Replaced(v)'
      BY <1>1 DEF Replaced
    <3>8. \A v \in Versions : Reached(v) => Reached(v)'
      <4>1. \A v \in Versions : Reached(v) => v <= agent[a].version
        BY <1>1 DEF Reached
      <4>2. \A v \in Versions : v <= agent[a].version => v <= agent[a].got
        BY <1>2, <3>2 DEF Versions
      <4>3. \A c \in Agents : agent'[c].pc # "replace"
        BY <2>1, <2>3, <3>6 DEF Critical, Replacing
      <4> QED BY <3>2, <4>1, <4>2, <4>3 DEF Reached
    <3>9. \A v \in Versions : Pending(v) => Pending(v)'
      BY <1>1, <3>7, <3>8 DEF Pending
    <3>10. \A v \in Versions : announced'[v] # 0 => announced'[v] = 1 /\ Replaced(v)' /\ Reached(v)'
      BY <1>1, <3>1, <3>7, <3>8 DEF NoticeInv
    <3>11. Pending(state.notice)'
      <4>1. state' = state /\ Pending(state.notice) /\ state.notice \in Versions \cup {None}
        BY <1>1, <3>1, Knows DEF NoticeInv, States
      <4> QED BY <3>9, <4>1 DEF Pending
    <3>12. HandOK(to)'
      BY <1>1, <1>2, <2>1, <3>1, <3>2 DEF HandOK
    <3>13. ASSUME NEW b \in Agents \ {a} PROVE HandOK(agent[b])'
      <4>1. agent'[b] = agent[b]
        BY <2>3
      <4> QED BY <3>6, <4>1 DEF HandOK, Critical, Replacing
    <3>14. agent'[a].got = exec'
      BY <2>1, <2>3, <3>2
    <3>15. NoticeInv'
      BY <2>3, <3>10, <3>11, <3>12, <3>13, <3>14 DEF NoticeInv
    <3> QED BY <3>4, <3>5, <3>15
  <2> QED BY <1>1, <2>2, <2>4, <2>5, <2>6, <2>7, Knows, BinaryStep
<1>5. CASE /\ (IF temp # None THEN Fault ELSE Fine)
           /\ UNCHANGED <<exec, temp>> /\ Failed(a, "restore")
  <2>1. Counted /\ (Fault => faults' > 0)
    BY <1>1, <1>5, FaultIsCounted
  <2>2. PICK to \in Processes :
         /\ Moves(a, to) /\ to.pc = "restore" /\ to.goal = agent[a].goal
         /\ to.version = agent[a].version /\ to.got = None
    BY <1>1, <1>5, FailedTo
  <2>3. to.pc \in Critical
    BY <2>2 DEF Critical, Replacing
  <2>4. ~stolen' => LockStep(a, to)
    BY <1>1 DEF LockStep, Inductive, FilesInv, ExclusionInv
  <2>5. ASSUME ~stolen PROVE CheckerOK(to)'
    <3>1. /\ agent'[a] = to /\ \A b \in Agents \ {a} : agent'[b] = agent[b]
          /\ \A b \in Agents \ {a} : agent[b].pc \notin Critical
      BY <1>1, <2>2, <2>5, Moved, Alone DEF Moves, Inductive
    <3>2. CheckerOK(agent[a]) /\ faults' > 0
      BY <1>3, <1>5, <2>1, <2>5
    <3>3. \A c \in Agents : agent'[c].pc \in {"replace", "restore"} => c = a
      BY <3>1 DEF Critical, Replacing
    <3> QED BY <1>1, <1>5, <2>2, <3>1, <3>2, <3>3, Knows DEF CheckerOK
  <2>6. ~Undisturbed'
    BY <1>3, <1>5, <2>1, StillCalm DEF LockInv, Undisturbed
  <2> QED BY <1>1, <1>5, <2>1, <2>2, <2>3, <2>4, <2>5, <2>6, Knows, Light
<1> QED BY <1>4, <1>5 DEF Replace

LEMMA RestoreKeeps == ASSUME Inductive, NEW a \in Agents, Restore(a) PROVE Inductive'
<1>1. /\ agent[a].pc = "restore" /\ agent[a].pc \in Critical /\ agent[a].pc \in Replacing
      /\ agent[a] \in Processes /\ RoleOK(a, agent[a]) /\ Failed(a, "clean")
      /\ UNCHANGED <<lock, state, temp, latest, spawned, announced, stolen,
                     published, crashes, clockBacks>>
  BY Knows DEF Restore, At, Updating, story, Rest, Critical, Replacing
<1>2. agent[a].goal = "update" /\ agent[a].version \in Versions
  BY <1>1 DEF RoleOK, Processes, Replacing
<1>3. ~stolen => CheckerOK(agent[a]) /\ faults > 0 /\ bak[agent[a].version] # None
  BY <1>1 DEF Inductive, FilesInv, CheckerOK
<1>4. Fault \/ Fine
  BY DEF Restore
<1>5. Counted /\ (Fault => faults' > faults /\ faults' > 0)
  BY <1>1, <1>4, FaultIsCounted
<1>6. ~Undisturbed'
  <2>1. ~stolen => faults' > 0
    BY <1>3, <1>5 DEF Counted, Inductive, TypeOK
  <2> QED BY <1>5, <2>1, StillCalm DEF LockInv, Undisturbed
<1>7. CASE /\ bak[Version(a)] # None /\ Fine
           /\ exec' = bak[Version(a)] /\ bak' = [bak EXCEPT ![Version(a)] = None]
  <2>1. PICK to \in Processes :
         /\ Moves(a, to) /\ to.pc = "clean" /\ to.goal = agent[a].goal
         /\ to.version = agent[a].version /\ to.got = None
    BY <1>1, FailedTo
  <2>2. agent'[a] = to /\ \A b \in Agents \ {a} : agent'[b] = agent[b]
    BY <2>1, Moved DEF Inductive, Moves
  <2>3. bak \in [Versions -> Files]
    BY DEF Inductive, TypeOK
  <2>4. /\ exec' \in Files /\ bak' \in [Versions -> Files] /\ exec' = bak[agent[a].version]
        /\ exec' # None /\ \A v \in Versions : bak'[v] \in {None, bak[v]}
    BY <1>2, <1>7, <2>3 DEF Version, Files
  <2>5. ASSUME ~stolen PROVE BinaryInv' /\ \A b \in Agents : CheckerOK(agent[b])'
    <3>1. BinaryInv /\ \A b \in Agents : CheckerOK(agent[b])
      BY <2>5 DEF Inductive, FilesInv
    <3>2. \A b \in Agents \ {a} : agent[b].pc \notin Critical
      BY <1>1, <2>5, Alone
    <3>3. None # Torn /\ None <= exec'
      BY <2>4, SelfUpdateAssumption DEF None, Torn, Files, Versions
    <3>4. exec' # Torn /\ \A v \in Versions : bak'[v] # Torn /\ bak'[v] <= exec'
      BY <1>1, <1>2, <2>4, <3>1, <3>3 DEF BinaryInv, CheckerOK
    <3>5. BinaryInv'
      BY <2>4, <3>4 DEF BinaryInv
    <3>6. \A c \in Agents : agent'[c].pc \notin {"replace", "restore"}
      BY <2>1, <2>2, <3>2 DEF Critical, Replacing
    <3>7. CheckerOK(to)'
      BY <1>1, <1>2, <2>1, <2>4, <3>1, <3>6, Knows DEF CheckerOK
    <3>8. ASSUME NEW b \in Agents \ {a} PROVE CheckerOK(agent[b])'
      <4>1. agent'[b] = agent[b] /\ CheckerOK(agent[b]) /\ agent[b].pc \notin Critical
        BY <2>2, <3>1, <3>2
      <4> QED BY <1>1, <2>4, <3>6, <4>1 DEF CheckerOK, Critical, Replacing
    <3> QED BY <2>2, <3>5, <3>7, <3>8
  <2> QED BY <1>1, <1>5, <1>6, <2>1, <2>4, <2>5, Knows, BinaryStep
<1>8. CASE /\ (IF bak[Version(a)] # None THEN Fault ELSE Fine) /\ UNCHANGED <<exec, bak>>
  <2>1. ~stolen => faults' > 1
    <3>1. ~stolen => faults > 0 /\ faults' = faults + 1
      BY <1>3, <1>8 DEF Version, Fault
    <3> QED BY <3>1 DEF Inductive, TypeOK
  <2> QED BY <1>1, <1>4, <1>6, <1>8, <2>1, FailedKeeps DEF Restore, binary
<1> QED BY <1>7, <1>8 DEF Restore

-----------------------------------------------------------------------------
(* Steps on the state file.                                                *)

LEMMA AnnounceTyped ==
  ASSUME announced \in [Versions -> 0..2], NEW a,
         IF Goal(a) = "notice" THEN Announce(a) ELSE UNCHANGED announced
  PROVE  announced' \in [Versions -> 0..2]
BY DEF Announce

LEMMA TruncateKeeps == ASSUME Inductive, NEW a \in Agents, Truncate(a) PROVE Inductive'
<1>1. /\ agent[a].pc = "truncate" /\ agent[a].pc \in Critical
      /\ agent[a] \in Processes /\ RoleOK(a, agent[a])
      /\ UNCHANGED <<lock, exec, bak, temp, latest, spawned, stolen,
                     published, crashes, clockBacks>>
  BY Knows DEF Truncate, At, binary, Rest, Critical, Replacing
<1>2. Empty \in States
  BY DEF Empty, States, CheckAges
<1>3. CASE state' = Empty /\ Goto(a, "write") /\ Fine /\ UNCHANGED announced
  <2>1. PICK to \in Processes :
         /\ agent' = [agent EXCEPT ![a] = to] /\ to.pc = "write" /\ to.goal = agent[a].goal
         /\ to.version = agent[a].version /\ to.got = agent[a].got /\ to.seen = agent[a].seen
    BY <1>3, GotoTo DEF Pcs
  <2>2. Moves(a, to) /\ to.pc \in Critical
    BY <1>1, <2>1 DEF Moves, RoleOK, Critical, Replacing
  <2>3. agent'[a] = to /\ \A b \in Agents \ {a} : agent'[b] = agent[b]
    BY <2>1, Moved DEF Inductive
  <2>4. Counted
    BY <1>1, <1>3, FaultIsCounted
  <2>5. TypeOK' /\ RolesInv' /\ FilesInv'
    <3>1. ~stolen' => LockStep(a, to)
      BY <1>1 DEF LockStep, Inductive, FilesInv, ExclusionInv
    <3>2. ASSUME ~stolen PROVE CheckerOK(to)'
      <4>1. CheckerOK(agent[a]) /\ to.got <= latest
        BY <2>1, <3>2 DEF Inductive, FilesInv, CheckerOK
      <4> QED BY <1>1, <2>1, <2>2, <4>1, SameHands DEF Inductive
    <3> QED BY <1>1, <1>2, <1>3, <2>1, <2>2, <2>4, <3>1, <3>2, Knows, AsideFromBinary
  <2>6. ASSUME Undisturbed' PROVE LockInv' /\ ThrottleInv' /\ NoticeInv'
    <3>1. LockInv /\ ThrottleInv /\ NoticeInv /\ HandOK(agent[a]) /\ ~stolen
      BY <2>4, <2>6, StillCalm DEF NoticeInv, LockInv
    <3>2. \A b \in Agents \ {a} : agent[b].pc \notin Critical /\ agent[b].got = None
      BY <1>1, <3>1, Alone
    <3>3. to.seen = state
      BY <1>1, <2>1, <3>1 DEF HandOK
    <3>4. LockInv'
      BY <1>1, <2>1, <2>2, <3>1, LockKept DEF Inductive, LockInv
    <3>5. ThrottleInv'
      <4>1. \A c \in Agents : agent'[c].goal = agent[c].goal
        BY <2>1, <2>3
      <4>2. NoChecker' <=> NoChecker
        BY <4>1 DEF NoChecker
      <4>3. \A h \in Agents : agent[h].pc # "write"
        BY <1>1, <3>2 DEF Critical
      <4>4. NoChecker \/ to.seen.checked = "recent"
        BY <3>1, <3>3, <4>3 DEF ThrottleInv
      <4>5. NoChecker' \/ state'.checked = "recent" \/
              \E h \in Agents : /\ agent'[h].pc = "write"
                                /\ agent'[h].seen.checked = "recent" \/ agent'[h].goal = "update"
        BY <2>1, <2>3, <4>2, <4>4
      <4>6. \A b \in Agents : agent'[b].goal = "check" /\ agent'[b].pc \in {"truncate", "write", "spawn"} =>
              NoChecker'
        BY <1>1, <2>1, <2>3, <3>1, <4>2 DEF ThrottleInv
      <4>7. \A b \in Agents : agent'[b].pc # "spawn"
        BY <2>1, <2>3, <3>2 DEF Critical
      <4> QED BY <3>1, <4>1, <4>5, <4>6, <4>7 DEF ThrottleInv
    <3>6. \A v : Replaced(v) => Replaced(v)'
      BY <1>1 DEF Replaced
    <3>7. \A v : Reached(v) => Reached(v)'
      BY <1>1, <2>1, <2>3 DEF Reached
    <3>8. \A v : Pending(v) => Pending(v)'
      BY <1>3, <3>6, <3>7 DEF Pending
    <3>9. \A v \in Versions : announced'[v] # 0 => announced'[v] = 1 /\ Replaced(v)' /\ Reached(v)'
      BY <1>3, <3>1, <3>6, <3>7 DEF NoticeInv
    <3>10. Pending(state.notice)'
      BY <1>3 DEF Pending, Empty
    <3>11. HandOK(to)'
      <4>1. Pending(to.seen.notice)'
        BY <3>1, <3>3, <3>8 DEF NoticeInv
      <4> QED BY <1>1, <1>3, <2>1, <3>1, <4>1 DEF HandOK
    <3>12. ASSUME NEW b \in Agents \ {a} PROVE HandOK(agent[b])'
      <4>1. agent'[b] = agent[b] /\ HandOK(agent[b])
        BY <2>3, <3>1 DEF NoticeInv
      <4> QED BY <1>1, <3>2, <4>1 DEF HandOK, Critical, Replacing
    <3>13. exec' # None /\ (\E w \in Versions : bak'[w] # None) =>
             \/ announced'[exec'] = 1 \/ state'.notice = exec'
             \/ \E b \in Agents : \/ agent'[b].got = exec'
                                  \/ agent'[b].pc = "write" /\ agent'[b].seen.notice = exec'
      <4> SUFFICES ASSUME exec # None, \E w \in Versions : bak[w] # None, announced[exec] # 1
                   PROVE  \E b \in Agents : \/ agent'[b].got = exec
                                            \/ agent'[b].pc = "write" /\ agent'[b].seen.notice = exec
        BY <1>1, <1>3
      <4>1. state.notice = exec \/ \E b \in Agents : agent[b].got = exec
        <5>1. \A h \in Agents : agent[h].pc # "write"
          BY <1>1, <3>2 DEF Critical
        <5> QED BY <3>1, <5>1 DEF NoticeInv
      <4> QED BY <2>1, <2>3, <3>2, <3>3, <4>1
    <3>14. NoticeInv'
      BY <2>3, <3>9, <3>10, <3>11, <3>12, <3>13 DEF NoticeInv
    <3> QED BY <3>4, <3>5, <3>14
  <2> QED BY <2>5, <2>6 DEF Inductive, CalmInv
<1>4. CASE /\ Fault /\ state' \in {state, Empty} /\ End(a)
           /\ IF Goal(a) = "notice" THEN Announce(a) ELSE UNCHANGED announced
  <2>1. state' \in States
    BY <1>2, <1>4, Knows
  <2>2. announced' \in [Versions -> 0..2]
    BY <1>4, Knows, AnnounceTyped
  <2> QED BY <1>4, <2>1, <2>2, TruncateFailsKeeps
<1> QED BY <1>3, <1>4 DEF Truncate

LEMMA WriteKeeps == ASSUME Inductive, NEW a \in Agents, Write(a) PROVE Inductive'
<1>1. /\ agent[a].pc = "write" /\ agent[a].pc \in Critical
      /\ agent[a] \in Processes /\ RoleOK(a, agent[a])
      /\ UNCHANGED <<lock, exec, bak, temp, latest, spawned, stolen,
                     published, crashes, faults, clockBacks>>
      /\ state' = Written(a)
  BY Knows DEF Write, At, binary, Rest, Critical, Replacing
<1>2. agent[a].goal \in {"notice", "check", "update"}
  BY <1>1 DEF RoleOK, Processes
<1>3. PICK to \in Processes :
         /\ Moves(a, to) /\ to.got = None /\ to.goal = agent[a].goal
         /\ to.pc = IF agent[a].goal = "check" THEN "spawn" ELSE "release"
  <2>1. CASE Goal(a) # "check"
    BY <1>1, <2>1, EndTo DEF Write, Goal
  <2>2. CASE Goal(a) = "check"
    <3> DEFINE to == [Idle EXCEPT !.pc = "spawn", !.goal = "check"]
    <3>1. to \in Processes /\ to.got = None /\ to.goal = "check" /\ to.pc = "spawn"
      BY Knows DEF Idle, Processes, Pcs
    <3>2. agent' = [agent EXCEPT ![a] = to]
      BY <2>2 DEF Write, Becomes
    <3> HIDE DEF to
    <3>3. RoleOK(a, to)
      BY <1>1, <2>2, <3>1 DEF RoleOK, Replacing, Goal
    <3> QED BY <2>2, <3>1, <3>2, <3>3 DEF Moves, Goal
  <2> QED BY <2>1, <2>2
<1>4. agent'[a] = to /\ \A b \in Agents \ {a} : agent'[b] = agent[b]
  BY <1>3, Moved DEF Inductive, Moves
<1>5. Counted
  BY <1>1 DEF Counted, Inductive, TypeOK
<1>6. /\ state' \in States
      /\ state'.notice = CASE agent[a].goal = "notice" -> None
                           [] agent[a].goal = "update" /\ agent[a].got # None -> agent[a].got
                           [] OTHER -> agent[a].seen.notice
      /\ state'.checked = IF agent[a].goal = "notice" THEN agent[a].seen.checked ELSE "recent"
  <2>1. agent[a].seen \in States /\ agent[a].got \in Versions \cup {None}
    BY <1>1 DEF Processes
  <2>2. CASE agent[a].goal = "notice"
    BY <1>1, <2>1, <2>2 DEF Written, Goal, States
  <2>3. CASE agent[a].goal = "check"
    BY <1>1, <2>1, <2>3 DEF Written, Goal, States, CheckAges
  <2>4. CASE agent[a].goal = "update"
    BY <1>1, <2>1, <2>4 DEF Written, Goal, States, CheckAges
  <2> QED BY <1>2, <2>2, <2>3, <2>4
<1>7. IF agent[a].goal = "notice" THEN Announce(a) ELSE UNCHANGED announced
  BY DEF Write, Goal
<1>8. announced' \in [Versions -> 0..2]
  BY <1>7, Knows, AnnounceTyped DEF Goal
<1>9. TypeOK' /\ RolesInv' /\ FilesInv'
  <2>1. ~stolen' => LockStep(a, to)
    BY <1>1 DEF LockStep, Inductive, FilesInv, ExclusionInv
  <2>2. CheckerOK(to)' /\ to.pc \notin {"replace", "restore"}
    BY <1>1, <1>3, EmptyHanded
  <2> QED BY <1>1, <1>3, <1>5, <1>6, <1>8, <2>1, <2>2, Knows, AsideFromBinary
<1>10. ASSUME Undisturbed' PROVE LockInv' /\ ThrottleInv' /\ NoticeInv'
  <2>1. LockInv /\ ThrottleInv /\ NoticeInv /\ HandOK(agent[a]) /\ ~stolen
    BY <1>5, <1>10, StillCalm DEF NoticeInv, LockInv
  <2>2. \A b \in Agents \ {a} : agent[b].pc \notin Critical /\ agent[b].got = None
    BY <1>1, <2>1, Alone
  <2>3. state = Empty /\ Pending(agent[a].seen.notice)
    BY <1>1, <2>1 DEF HandOK
  <2>4. LockInv'
    <3>1. to.pc \in Critical /\ to.pc \notin {"unlink", "restore"}
      BY <1>3 DEF Critical
    <3> QED BY <1>1, <1>3, <2>1, <3>1, LockKept DEF Inductive, LockInv
  <2>5. ThrottleInv'
    <3>1. \A c \in Agents : agent'[c].goal = agent[c].goal
      BY <1>3, <1>4
    <3>2. NoChecker' <=> NoChecker
      BY <3>1 DEF NoChecker
    <3>3. NoChecker \/ state'.checked = "recent"
      <4>1. NoChecker \/ \E h \in Agents :
              /\ agent[h].pc = "write"
              /\ agent[h].seen.checked = "recent" \/ agent[h].goal = "update"
        BY <2>1, <2>3 DEF ThrottleInv, Empty
      <4>2. NoChecker \/ agent[a].seen.checked = "recent" \/ agent[a].goal = "update"
        BY <2>2, <4>1 DEF Critical
      <4> QED BY <1>6, <4>2
    <3>4. \A b \in Agents : agent'[b].goal = "check" /\ agent'[b].pc \in {"truncate", "write", "spawn"} =>
            NoChecker'
      BY <1>1, <1>3, <1>4, <2>1, <3>2 DEF ThrottleInv
    <3>5. \A b \in Agents : agent'[b].pc = "spawn" => state'.checked = "recent"
      BY <1>3, <1>4, <1>6, <2>2 DEF Critical
    <3> QED BY <2>1, <3>1, <3>2, <3>3, <3>4, <3>5 DEF ThrottleInv
  <2>6. \A v : Replaced(v) => Replaced(v)'
    BY <1>1 DEF Replaced
  <2>7. \A v : Reached(v) => Reached(v)'
    BY <1>1, <1>3, <1>4 DEF Reached
  <2>8. \A b \in Agents : HandOK(agent[b])'
    <3>1. HandOK(to)'
      BY <1>3 DEF HandOK
    <3>2. ASSUME NEW b \in Agents \ {a} PROVE HandOK(agent[b])'
      <4>1. agent'[b] = agent[b] /\ HandOK(agent[b])
        BY <1>4, <2>1 DEF NoticeInv
      <4> QED BY <1>1, <2>2, <4>1 DEF HandOK, Critical, Replacing
    <3> QED BY <1>4, <3>1, <3>2
  <2>9. NoticeInv'
    <3>1. exec' # None /\ (\E w \in Versions : bak'[w] # None) /\ announced[exec'] # 1 =>
             \/ agent[a].got = exec' \/ agent[a].seen.notice = exec'
      BY <1>1, <2>1, <2>2, <2>3 DEF NoticeInv, Empty, Critical
    <3>2. CASE agent[a].goal = "notice"
      <4>1. /\ agent[a].version \in Versions /\ agent[a].seen.notice = agent[a].version
            /\ agent[a].got = None
        BY <1>1, <2>1, <3>2 DEF RoleOK, HandOK, Processes
      <4>2. /\ announced[agent[a].version] = 0 /\ Replaced(agent[a].version)
            /\ Reached(agent[a].version)
        BY <2>3, <4>1 DEF Pending, Versions, None
      <4>3. announced' = [announced EXCEPT ![agent[a].version] = 1]
        BY <1>7, <3>2, <4>2 DEF Announce, Version
      <4>4. \A v \in Versions : announced'[v] # 0 => announced'[v] = 1 /\ Replaced(v)' /\ Reached(v)'
        <5>1. ASSUME NEW v \in Versions, announced'[v] # 0, v # agent[a].version
              PROVE  announced'[v] = 1 /\ Replaced(v) /\ Reached(v)
          BY <2>1, <4>3, <5>1, Knows DEF NoticeInv
        <5> QED BY <2>6, <2>7, <4>1, <4>2, <4>3, <5>1, Knows
      <4>5. Pending(state.notice)'
        BY <1>6, <3>2 DEF Pending
      <4>6. exec' # None /\ (\E w \in Versions : bak'[w] # None) => announced'[exec'] = 1
        <5>1. ASSUME exec' # None, \E w \in Versions : bak'[w] # None, announced[exec'] # 1
              PROVE  exec' = agent[a].version
          BY <3>1, <4>1, <5>1
        <5>2. exec # Torn /\ exec \in Files
          BY <1>5, <1>10, StillCalm DEF BinaryInv, Inductive, TypeOK
        <5> QED BY <1>1, <4>1, <4>3, <5>1, <5>2, Knows DEF Files
      <4> QED BY <2>8, <4>4, <4>5, <4>6 DEF NoticeInv
    <3>3. CASE agent[a].goal # "notice"
      <4>1. announced' = announced
        BY <1>7, <3>3
      <4>2. \A v \in Versions : announced'[v] # 0 => announced'[v] = 1 /\ Replaced(v)' /\ Reached(v)'
        BY <2>1, <2>6, <2>7, <4>1 DEF NoticeInv
      <4>3. \A v : Pending(v) => Pending(v)'
        BY <2>6, <2>7, <4>1 DEF Pending
      <4>4. CASE agent[a].got # None
        <5>1. /\ agent[a].goal = "update" /\ agent[a].got \in Versions
              /\ agent[a].version \in Versions
          BY <1>1, <4>4 DEF RoleOK, Processes
        <5>2. /\ exec = agent[a].got /\ bak[agent[a].version] = agent[a].version
              /\ agent[a].version < agent[a].got /\ announced[agent[a].got] = 0
          BY <1>1, <2>1, <4>4 DEF HandOK
        <5>3. Replaced(agent[a].got)
          BY <5>1, <5>2 DEF Replaced, Versions
        <5>4. Reached(agent[a].got)
          <6>1. \A b \in Agents : agent[b].pc # "replace"
            BY <1>1, <2>2 DEF Critical, Replacing
          <6> QED BY <5>1, <5>2, <6>1 DEF Reached, Versions
        <5>5. state'.notice = agent[a].got
          BY <1>6, <4>4, <5>1
        <5>6. Pending(state.notice)'
          <6>1. Pending(agent[a].got)
            BY <5>2, <5>3, <5>4 DEF Pending
          <6>2. PICK v : v = agent[a].got
            OBVIOUS
          <6> QED BY <4>3, <5>5, <6>1, <6>2
        <5> QED BY <1>1, <2>8, <4>2, <5>2, <5>5, <5>6 DEF NoticeInv
      <4>5. CASE agent[a].got = None
        <5>1. state'.notice = agent[a].seen.notice
          BY <1>6, <3>3, <4>5
        <5>2. Pending(state.notice)'
          <6>1. PICK v : v = agent[a].seen.notice
            OBVIOUS
          <6> QED BY <2>3, <4>3, <5>1, <6>1
        <5>3. exec' # None /\ (\E w \in Versions : bak'[w] # None) =>
                announced'[exec'] = 1 \/ state'.notice = exec'
          BY <3>1, <4>1, <4>5, <5>1
        <5> QED BY <2>8, <4>2, <5>2, <5>3 DEF NoticeInv
      <4> QED BY <4>4, <4>5
    <3> QED BY <3>2, <3>3
  <2> QED BY <2>4, <2>5, <2>9
<1> QED BY <1>9, <1>10 DEF Inductive, CalmInv

-----------------------------------------------------------------------------
(* The parent lets its checker go; and time goes by.                       *)

LEMMA SpawnKeeps == ASSUME Inductive, NEW a \in Agents, Spawn(a) PROVE Inductive'
<1>1. /\ agent[a].pc = "spawn" /\ agent[a].pc \in Critical
      /\ agent[a] \in Processes /\ RoleOK(a, agent[a])
      /\ UNCHANGED <<lock, state, exec, bak, temp, latest, announced, stolen,
                     published, crashes, faults, clockBacks>>
      /\ spawned' = IF spawned = 2 THEN 2 ELSE spawned + 1
  BY Knows DEF Spawn, At, binary, Rest, Critical
<1>2. agent[a].goal = "check" /\ a[2] = "foreground" /\ agent[a].got = None
  BY <1>1 DEF RoleOK
<1> DEFINE c == <<a[1], "checker">>
<1>3. c \in Agents /\ c # a /\ c[2] = "checker"
  BY <1>2 DEF Agents
<1>4. PICK from, to \in Processes :
        /\ agent' = [agent EXCEPT ![a] = from, ![c] = to]
        /\ from.pc = "release" /\ from.goal = "check" /\ from.got = None
        /\ to.got = None
        /\ \/ to.pc = "stat" /\ to.goal = "update" /\ to.version = exec /\ exec \in Versions
           \/ to.pc = "idle" /\ to.goal = "none"
  <2> DEFINE began == [Idle EXCEPT !.pc = "stat", !.goal = "update", !.version = exec]
  <2> DEFINE from == [agent[a] EXCEPT !.pc = "release"]
  <2> DEFINE to == IF exec \in Versions THEN began ELSE Idle
  <2>1. agent' = [agent EXCEPT ![a] = from, ![c] = to]
    BY DEF Spawn
  <2>2. /\ from \in Processes /\ from.pc = "release" /\ from.goal = "check" /\ from.got = None
    BY <1>1, <1>2 DEF Processes, Pcs
  <2>3. Idle \in Processes /\ Idle.got = None /\ Idle.pc = "idle" /\ Idle.goal = "none"
    BY Knows DEF Idle
  <2>4. CASE exec \in Versions
    <3>1. began \in Processes /\ began.got = None /\ began.pc = "stat" /\ began.goal = "update"
          /\ began.version = exec
      BY <2>3, <2>4 DEF Processes, Pcs
    <3> HIDE DEF began
    <3> QED BY <2>1, <2>2, <2>4, <3>1
  <2>5. CASE exec \notin Versions
    BY <2>1, <2>2, <2>3, <2>5
  <2> QED BY <2>4, <2>5
<1>5. agent[c].pc = "idle"
  BY DEF Spawn, At
<1> HIDE DEF c
<1>6. /\ agent' \in [Agents -> Processes] /\ agent'[a] = from /\ agent'[c] = to
      /\ \A b \in Agents \ {a, c} : agent'[b] = agent[b]
  BY <1>3, <1>4 DEF Inductive, TypeOK
<1>7. TypeOK'
  <2>1. spawned' \in 0..2
    BY <1>1 DEF Inductive, TypeOK
  <2> QED BY <1>1, <1>6, <2>1 DEF Inductive, TypeOK
<1>8. RolesInv'
  <2>1. RoleOK(a, from)
    BY <1>2, <1>4 DEF RoleOK, Replacing
  <2>2. exec \in Versions => exec # None
    BY DEF Versions, None
  <2>3. RoleOK(c, to)
    BY <1>3, <1>4, <2>2 DEF RoleOK, Replacing
  <2> QED BY <1>6, <2>1, <2>3 DEF Inductive, RolesInv
<1>9. from.pc \in Critical /\ to.pc \notin Critical
  BY <1>4 DEF Critical, Replacing
<1>10. ASSUME ~stolen PROVE ExclusionInv' /\ BinaryInv' /\ \A b \in Agents : CheckerOK(agent[b])'
  <2>1. /\ ExclusionInv /\ BinaryInv /\ \A b \in Agents : CheckerOK(agent[b])
        /\ \A b \in Agents \ {a} : agent[b].pc \notin Critical
    BY <1>1, <1>10, Alone DEF Inductive, FilesInv
  <2>2. ExclusionInv'
    BY <1>1, <1>6, <1>9, <2>1 DEF ExclusionInv
  <2>3. \A b \in Agents : /\ agent[b].pc \notin {"replace", "restore"}
                          /\ agent'[b].pc \notin {"replace", "restore"}
    BY <1>1, <1>4, <1>6, <2>1 DEF Critical, Replacing
  <2>4. BinaryInv'
    BY <1>1, <2>1, <2>3 DEF BinaryInv
  <2>5. CheckerOK(from)'
    BY <1>1, <1>4, Knows DEF CheckerOK
  <2>6. CheckerOK(to)'
    BY <1>1, <1>4, <2>3, Knows DEF CheckerOK
  <2>7. ASSUME NEW b \in Agents \ {a, c} PROVE CheckerOK(agent[b])'
    BY <1>1, <1>6, <2>1, <2>3, <2>7 DEF CheckerOK
  <2> QED BY <1>6, <2>2, <2>4, <2>5, <2>6, <2>7
<1>11. ASSUME Undisturbed' PROVE LockInv' /\ ThrottleInv' /\ NoticeInv'
  <2>1. Counted
    BY <1>1 DEF Counted, Inductive, TypeOK
  <2>2. LockInv /\ ThrottleInv /\ NoticeInv /\ HandOK(agent[a]) /\ ~stolen /\ NoChecker
    BY <1>1, <1>2, <1>11, <2>1, StillCalm DEF NoticeInv, LockInv, ThrottleInv
  <2>3. \A b \in Agents \ {a} : agent[b].pc \notin Critical /\ agent[b].got = None
    BY <1>1, <2>2, Alone
  <2>4. LockInv'
    <3>1. exec # None
      BY <1>1, <2>2, <2>3 DEF LockInv, Critical, Replacing
    <3> QED BY <1>1, <1>4, <1>6, <1>9, <2>2, <3>1 DEF LockInv
  <2>5. ThrottleInv'
    <3>1. \A d \in Agents : agent'[d].goal = "update" => d = c
      BY <1>4, <1>6, <2>2 DEF NoChecker
    <3>2. state'.checked = "recent"
      BY <1>1, <2>2 DEF ThrottleInv
    <3>3. \A b \in Agents : ~(agent'[b].goal = "check" /\ agent'[b].pc \in {"truncate", "write", "spawn"})
      BY <1>4, <1>6, <2>3 DEF Critical
    <3> QED BY <3>1, <3>2, <3>3 DEF ThrottleInv
  <2>6. \A v : Replaced(v) => Replaced(v)'
    BY <1>1 DEF Replaced
  <2>7. \A v : Reached(v) => Reached(v)'
    BY <1>1, <1>4, <1>6 DEF Reached
  <2>8. \A v : Pending(v) => Pending(v)'
    BY <1>1, <2>6, <2>7 DEF Pending
  <2>9. HandOK(from)' /\ HandOK(to)'
    BY <1>1, <1>4 DEF HandOK
  <2>10. ASSUME NEW b \in Agents \ {a, c} PROVE HandOK(agent[b])'
    <3>1. agent'[b] = agent[b] /\ HandOK(agent[b])
      BY <1>6, <2>2 DEF NoticeInv
    <3> QED BY <1>1, <2>3, <3>1 DEF HandOK, Critical, Replacing
  <2>11. \A v \in Versions : announced'[v] # 0 => announced'[v] = 1 /\ Replaced(v)' /\ Reached(v)'
    BY <1>1, <2>2, <2>6, <2>7 DEF NoticeInv
  <2>12. Pending(state.notice)'
    <3>1. PICK v : v = state.notice
      OBVIOUS
    <3> QED BY <1>1, <2>2, <2>8, <3>1 DEF NoticeInv
  <2>13. exec' # None /\ (\E w \in Versions : bak'[w] # None) =>
           announced'[exec'] = 1 \/ state'.notice = exec'
    BY <1>1, <1>2, <2>2, <2>3 DEF NoticeInv, Critical
  <2> QED BY <1>6, <2>4, <2>5, <2>9, <2>10, <2>11, <2>12, <2>13 DEF NoticeInv
<1> QED BY <1>1, <1>7, <1>8, <1>10, <1>11 DEF Inductive, FilesInv, CalmInv

LEMMA PassKeeps == ASSUME Inductive, NEW day \in BOOLEAN, Pass(day) PROVE Inductive'
<1>1. /\ \A b \in Agents : agent[b].pc = "idle" /\ agent[b].goal = "none"
      /\ lock' = (IF lock = "none" THEN "none" ELSE "stale")
      /\ state' = (IF day /\ state.checked # "never" THEN [state EXCEPT !.checked = "due"]
                   ELSE state)
      /\ spawned' = (IF day THEN 0 ELSE spawned)
      /\ UNCHANGED <<exec, bak, temp, latest, agent, announced, stolen,
                     published, crashes, faults, clockBacks>>
  BY Knows DEF Pass, Resting, At, RoleOK, binary, bounds
<1>2. \A b \in Agents : agent[b].pc \notin Critical
  BY <1>1 DEF Critical, Replacing
<1>3. state' \in States /\ state'.notice = state.notice
  <2>1. state \in States
    BY DEF Inductive, TypeOK
  <2> QED BY <1>1, <2>1 DEF States, CheckAges
<1>4. TypeOK'
  <2>1. lock' \in LockAges
    BY <1>1 DEF LockAges
  <2>2. spawned' \in 0..2
    BY <1>1 DEF Inductive, TypeOK
  <2> QED BY <1>1, <1>3, <2>1, <2>2 DEF Inductive, TypeOK
<1>5. RolesInv'
  BY <1>1 DEF Inductive, RolesInv
<1>6. FilesInv'
  <2>1. ExclusionInv'
    BY <1>1, <1>2 DEF ExclusionInv
  <2>2. BinaryInv => BinaryInv'
    BY <1>1 DEF BinaryInv
  <2>3. \A b \in Agents : CheckerOK(agent[b]) => CheckerOK(agent[b])'
    BY <1>1 DEF CheckerOK
  <2> QED BY <1>1, <2>1, <2>2, <2>3 DEF Inductive, FilesInv
<1>7. CalmInv'
  <2>1. Undisturbed' => Undisturbed
    BY <1>1 DEF Undisturbed
  <2>2. LockInv => LockInv'
    BY <1>1, <1>2 DEF LockInv
  <2>3. ThrottleInv'
    BY <1>1 DEF ThrottleInv, NoChecker
  <2>4. NoticeInv => NoticeInv'
    <3>1. \A v : Reached(v) <=> Reached(v)'
      BY <1>1 DEF Reached
    <3>2. \A v : Replaced(v) <=> Replaced(v)'
      BY <1>1 DEF Replaced
    <3>3. \A v : Pending(v) <=> Pending(v)'
      BY <1>1, <3>1, <3>2 DEF Pending
    <3>4. \A b \in Agents : HandOK(agent[b]) => HandOK(agent[b])'
      BY <1>1 DEF HandOK
    <3> QED BY <1>1, <1>3, <3>1, <3>2, <3>3, <3>4 DEF NoticeInv
  <2> QED BY <2>1, <2>2, <2>3, <2>4 DEF CalmInv, Inductive
<1> QED BY <1>4, <1>5, <1>6, <1>7 DEF Inductive

-----------------------------------------------------------------------------
(* The theorems.                                                           *)

\* The inductive invariant of the whole machine.
THEOREM InductiveInvariant == Spec => []Inductive
<1>1. Init => Inductive
  <2> SUFFICES ASSUME Init PROVE Inductive
    OBVIOUS
  <2> USE SelfUpdateAssumption
  <2>1. /\ Empty \in States /\ Idle \in Processes /\ Idle.pc = "idle" /\ Idle.goal = "none"
        /\ Idle.got = None
    BY DEF Empty, States, CheckAges, Idle, Processes, Pcs
  <2>2. \A a \in Agents : agent[a] = Idle
    BY DEF Init
  <2>3. None # Torn /\ \A v \in Versions : v # Torn /\ v # None /\ None <= v
    BY DEF None, Torn, Versions
  <2>4. TypeOK
    <3>1. agent \in [Agents -> Processes] /\ state \in States /\ lock \in LockAges
      BY <2>1 DEF Init, LockAges
    <3>2. exec \in Files /\ temp \in Files /\ bak \in [Versions -> Files] /\ latest \in Versions
      BY DEF Init, Files, Versions
    <3>3. spawned \in 0..2 /\ announced \in [Versions -> 0..2]
      BY DEF Init
    <3>4. stolen \in BOOLEAN
      BY DEF Init
    <3>5. /\ published \in 0..MaxPublished /\ {crashes, faults, clockBacks} \subseteq Nat
          /\ crashes + faults + clockBacks <= MaxMishaps
      BY DEF Init
    <3> QED BY <3>1, <3>2, <3>3, <3>4, <3>5 DEF TypeOK
  <2>5. RolesInv
    BY <2>1, <2>2 DEF RolesInv, RoleOK, Replacing
  <2>6. ExclusionInv /\ BinaryInv
    BY <2>1, <2>2, <2>3 DEF ExclusionInv, BinaryInv, Critical, Replacing, Init
  <2>7. None <= latest
    BY DEF Init, None
  <2>8. \A a \in Agents : CheckerOK(agent[a])
    BY <2>1, <2>2, <2>7 DEF CheckerOK
  <2>9. LockInv /\ ThrottleInv
    BY <2>1, <2>2, <2>3 DEF LockInv, ThrottleInv, NoChecker, Init
  <2>10. NoticeInv
    <3>1. Pending(state.notice)
      BY DEF Init, Empty, Pending
    <3>2. \A a \in Agents : HandOK(agent[a])
      BY <2>1, <2>2 DEF HandOK
    <3> QED BY <3>1, <3>2 DEF NoticeInv, Init
  <2> QED BY <2>4, <2>5, <2>6, <2>8, <2>9, <2>10 DEF Inductive, FilesInv, CalmInv
<1>2. Inductive /\ [Next]_vars => Inductive'
  <2> SUFFICES ASSUME Inductive, [Next]_vars PROVE Inductive'
    OBVIOUS
  <2>1. ASSUME NEW a \in Agents, Step(a) PROVE Inductive'
    BY <2>1, StatKeeps, UnlinkKeeps, OpenKeeps, ReleaseKeeps, ReadKeeps, TruncateKeeps,
       WriteKeeps, SpawnKeeps, FetchKeeps, CreateTempKeeps, WriteTempKeeps, BackupKeeps,
       ReplaceKeeps, RestoreKeeps, CleanKeeps DEF Step
  <2>2. CASE UNCHANGED vars
    <3>1. UNCHANGED <<lock, state, exec, bak, temp, latest, agent, spawned, announced, stolen,
                      published, crashes, faults, clockBacks>>
      BY <2>2 DEF vars, binary, story, bounds
    <3>2. TypeOK' /\ RolesInv'
      BY <3>1 DEF Inductive, TypeOK, RolesInv
    <3>3. FilesInv'
      BY <3>1 DEF Inductive, FilesInv, ExclusionInv, BinaryInv, CheckerOK
    <3>4. (LockInv => LockInv') /\ (ThrottleInv => ThrottleInv')
      BY <3>1 DEF LockInv, ThrottleInv, NoChecker
    <3>5. NoticeInv => NoticeInv'
      BY <3>1 DEF NoticeInv, Pending, Reached, Replaced, HandOK
    <3> QED BY <3>1, <3>2, <3>3, <3>4, <3>5 DEF Inductive, CalmInv, Undisturbed
  <2> QED BY <2>1, <2>2, CrashKeeps, InvokeKeeps, PassKeeps, PublishKeeps, ClockBackKeeps DEF Next
<1> QED BY <1>1, <1>2, PTL DEF Spec

\* Every variable has its type.
THEOREM TypeCorrect == Spec => []TypeOK
BY InductiveInvariant, PTL DEF Inductive

\* Two processes that are past Open at one time, or one without the lock, have
\* been preceded by the removal of a lock that was not stale any more.
THEOREM LockIsExclusive == Spec => [](~stolen => ExclusionInv)
<1>1. Inductive => (~stolen => ExclusionInv)
  BY DEF Inductive, FilesInv
<1> QED BY <1>1, InductiveInvariant, PTL

\* A process killed or a call that fails never costs the binary: as long as the
\* lock is exclusive, what is at its path is whole, or a backup is there.
THEOREM BinaryIsNeverLost == Spec => []BinarySurvives
<1>1. Inductive => BinarySurvives
  <2> SUFFICES ASSUME Inductive, ~stolen
               PROVE  /\ exec # Torn
                      /\ exec = None => /\ \E v \in Versions : bak[v] \in Versions
                                        /\ \/ \E a \in Agents : agent[a].pc \in {"replace", "restore"}
                                           \/ crashes > 0 \/ faults > 1
    BY DEF BinarySurvives
  <2>1. BinaryInv /\ bak \in [Versions -> Files]
    BY DEF Inductive, FilesInv, TypeOK
  <2> QED BY <2>1 DEF BinaryInv, Files
<1> QED BY <1>1, InductiveInvariant, PTL

\* The binary is never older than one it has replaced.
THEOREM NoDowngrade == Spec => []NeverDowngrades
<1>1. Inductive => NeverDowngrades
  <2>1. exec \in Versions => exec # None
    BY DEF Versions, None
  <2> QED BY <2>1 DEF NeverDowngrades, Inductive, FilesInv, BinaryInv
<1> QED BY <1>1, InductiveInvariant, PTL

\* Without mishaps an update that has landed is announced once, and until then
\* its notice is in the state file or in the hands of one process.
THEOREM UpdatesAreAnnounced == Spec => []AnnouncedOnce
<1>1. Inductive => AnnouncedOnce
  <2> SUFFICES ASSUME Inductive, Undisturbed
               PROVE  AnnouncedOnce
    BY DEF AnnouncedOnce
  <2>1. NoticeInv
    BY DEF Inductive, CalmInv
  <2>2. exec \in Versions => exec # None
    BY DEF Versions, None
  <2> QED BY <2>1, <2>2 DEF NoticeInv, AnnouncedOnce, Replaced, At
<1> QED BY <1>1, InductiveInvariant, PTL
=============================================================================
