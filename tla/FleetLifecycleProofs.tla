------------------------- MODULE FleetLifecycleProofs -------------------------
(* Proofs about FleetLifecycle, for any processes, inodes and profiles.    *)
EXTENDS FleetLifecycle, TLAPS

\* What a process may know about itself inside WriteFileAtomic, with r for
\* its locals: the parts of the invariant that mention p alone.
Sound(p, r) ==
  /\ r \in WriteState
  /\ r.pc # "idle" /\ r.want = asked[p] /\ r.seen = NoInode
  /\ r.pc \in {"inspect", "create"} => r.temp = NoInode
  /\ r.pc \notin {"cleanup", "done"} => r.result = "none"
  /\ r.pc \in {"cleanup", "done"} => r.result # "none"
  /\ r.result = "error" => p \in Faulty
  /\ r.result \in {"exists", "changed"} => ~Absent

\* A step of p that changes its locals only.
LEMMA LocalMove ==
  ASSUME Inductive, NEW p \in Processes, NEW r, Sound(p, r),
         stage[p] = "publish",
         w' = [w EXCEPT ![p] = r],
         UNCHANGED <<target, data, stale, crashes, applyVars>>,
         r.temp = w[p].temp,
         r.pc \in {"fill", "check", "publish"} => r.temp \in Inodes \ {target},
         r.pc \in {"check", "publish"} => data[r.temp] = r.want,
         r.result = "ok" => Holds(asked[p])
  PROVE  Inductive'
<1> USE DEF Inductive, applyVars
<1>1. w \in [Processes -> WriteState] /\ r \in WriteState
  BY DEF TypeOK, FileTypeOK, Sound
<1>2. /\ w' \in [Processes -> WriteState]
      /\ w'[p] = r
      /\ \A q \in Processes \ {p} : w'[q] = w[q]
  BY <1>1
<1>3. TypeOK'
  BY <1>2 DEF TypeOK, FileTypeOK
<1>4. NeverTorn'
  BY DEF NeverTorn
<1>5. \A q \in Processes : w'[q].temp = w[q].temp
  BY <1>2
<1>6. ASSUME NEW q \in Processes PROVE OwnTemp(q)'
  <2>1. CASE q = p
    BY <2>1, <1>2, <1>5 DEF OwnTemp, Sound
  <2>2. CASE q # p
    BY <2>2, <1>2, <1>5 DEF OwnTemp
  <2> QED BY <2>1, <2>2
<1>7. ASSUME NEW q \in Processes PROVE InCall(q)'
  BY <1>2 DEF InCall, Sound
<1>8. ASSUME ~edited, NEW q \in Processes PROVE Settled(q)'
  BY <1>2, <1>8 DEF Settled, Sound, Holds, Absent
<1>9. Truthful' /\ LostRaceIsNoError'
  BY DEF Truthful, LostRaceIsNoError, StatusConfigured, Holds
<1> QED BY <1>3, <1>4, <1>6, <1>7, <1>8, <1>9

\* The write is over; in the code, a return statement.
LEMMA SettleMove ==
  ASSUME Inductive, NEW p \in Processes, NEW res \in Results \ {"none"},
         stage[p] = "publish", Settle(p, res),
         UNCHANGED <<target, data, stale, crashes, applyVars>>,
         res = "ok" => Holds(asked[p]),
         res = "error" => p \in Faulty,
         res \in {"exists", "changed"} => ~Absent
  PROVE  Inductive'
<1> DEFINE r == [w[p] EXCEPT !.pc = "cleanup", !.result = res]
<1>1. w[p] \in WriteState /\ InCall(p)
  BY DEF Inductive, TypeOK, FileTypeOK
<1>2. Sound(p, r)
  BY <1>1 DEF Sound, WriteState, WriteLabels, Results, InCall
<1>3. /\ r.temp = w[p].temp /\ r.pc = "cleanup" /\ r.result = res
  BY <1>1 DEF WriteState
<1>4. w' = [w EXCEPT ![p] = r]
  BY DEF Settle, Writes
<1> HIDE DEF r
<1> QED BY <1>2, <1>3, <1>4, LocalMove

LEMMA InspectStep ==
  ASSUME Inductive, NEW p \in Processes, stage[p] = "publish", Inspect(p),
         UNCHANGED applyVars
  PROVE  Inductive'
<1>1. w[p] \in WriteState /\ InCall(p) /\ OwnTemp(p)
  BY DEF Inductive, TypeOK, FileTypeOK
<1>2. CASE Settle(p, "exists") /\ ~Absent
  BY <1>2, SettleMove DEF Inspect, Results
<1>3. CASE Fault(p)
  BY <1>3, SettleMove DEF Inspect, Results, Fault
<1>4. CASE /\ ~(RequireAbsent /\ ~Absent)
           /\ Writes(p, [w[p] EXCEPT !.pc = "create", !.seen = target])
  <2> DEFINE r == [w[p] EXCEPT !.pc = "create", !.seen = target]
  <2>1. target = NoInode
    BY <1>4, ProfileAssumption DEF Absent
  <2>2. Sound(p, r) /\ r.temp = w[p].temp /\ r.pc = "create" /\ r.result = "none"
    BY <1>1, <2>1 DEF Sound, WriteState, WriteLabels, InCall, Inspect, OwnTemp
  <2>3. w' = [w EXCEPT ![p] = r]
    BY <1>4 DEF Writes
  <2> HIDE DEF r
  <2> QED BY <2>2, <2>3, LocalMove DEF Inspect
<1> QED BY <1>2, <1>3, <1>4 DEF Inspect

LEMMA CheckStep ==
  ASSUME Inductive, NEW p \in Processes, stage[p] = "publish", Check(p),
         UNCHANGED applyVars
  PROVE  Inductive'
<1>1. w[p] \in WriteState /\ InCall(p) /\ OwnTemp(p)
  BY DEF Inductive, TypeOK, FileTypeOK
<1>2. CASE target # w[p].seen /\ Settle(p, "changed")
  <2>1. ~Absent
    BY <1>1, <1>2 DEF InCall, Absent
  <2> QED BY <1>2, <2>1, SettleMove DEF Check, Results
<1>3. CASE Fault(p)
  BY <1>3, SettleMove DEF Check, Results, Fault
<1>4. CASE Writes(p, [w[p] EXCEPT !.pc = "publish"])
  <2> DEFINE r == [w[p] EXCEPT !.pc = "publish"]
  <2>2. Sound(p, r) /\ r.temp = w[p].temp /\ r.pc = "publish" /\ r.result = "none"
        /\ r.want = w[p].want
    BY <1>1 DEF Sound, WriteState, WriteLabels, InCall, Check
  <2>3. w' = [w EXCEPT ![p] = r]
    BY <1>4 DEF Writes
  <2> HIDE DEF r
  <2> QED BY <2>2, <2>3, <1>1, LocalMove DEF Check, OwnTemp
<1> QED BY <1>2, <1>3, <1>4 DEF Check

\* The temporary file is new: nothing else names its inode.
LEMMA CreateTempStep ==
  ASSUME Inductive, NEW p \in Processes, stage[p] = "publish", CreateTemp(p),
         UNCHANGED applyVars
  PROVE  Inductive'
<1> USE DEF Inductive, applyVars
<1>1. w[p] \in WriteState /\ InCall(p) /\ OwnTemp(p)
  BY DEF TypeOK, FileTypeOK
<1>2. CASE Fault(p) /\ UNCHANGED data
  BY <1>2, SettleMove DEF CreateTemp, Results, Fault
<1>3. ASSUME NEW f \in Inodes, ~Named(f),
             Writes(p, [w[p] EXCEPT !.pc = "fill", !.temp = f]),
             data' = [data EXCEPT ![f] = Torn]
      PROVE  Inductive'
  <2> DEFINE r == [w[p] EXCEPT !.pc = "fill", !.temp = f]
  <2>1. Sound(p, r) /\ r.temp = f /\ r.pc = "fill" /\ r.result = "none"
    BY <1>1 DEF Sound, WriteState, WriteLabels, InCall, CreateTemp
  <2>2. w \in [Processes -> WriteState] /\ w' = [w EXCEPT ![p] = r]
    BY <1>3 DEF Writes, TypeOK, FileTypeOK
  <2> HIDE DEF r
  <2>3. /\ w' \in [Processes -> WriteState] /\ w'[p] = r
        /\ \A q \in Processes \ {p} : w'[q] = w[q]
    BY <2>1, <2>2 DEF Sound
  <2>4. /\ UNCHANGED <<target, stale, crashes, asked, stage, answer, edited>>
        /\ f # target /\ f \notin stale
        /\ \A q \in Processes : w[q].temp # f
    BY <1>3 DEF CreateTemp, Named
  <2>5. /\ data' \in [Inodes -> Contents \cup {Torn}]
        /\ \A g \in Inodes \ {f} : data'[g] = data[g]
    BY <1>3 DEF TypeOK, FileTypeOK
  <2>6. TypeOK'
    BY <2>3, <2>4, <2>5 DEF TypeOK, FileTypeOK
  <2>7. NeverTorn'
    BY <2>4, <2>5 DEF NeverTorn
  <2>8. ASSUME NEW q \in Processes PROVE OwnTemp(q)'
    <3>1. CASE q = p
      BY <3>1, <2>1, <2>3, <2>4 DEF OwnTemp
    <3>2. CASE q # p
      BY <3>2, <2>1, <2>3, <2>4, <2>5 DEF OwnTemp
    <3> QED BY <3>1, <3>2
  <2>9. ASSUME NEW q \in Processes PROVE InCall(q)'
    BY <2>1, <2>3, <2>4 DEF InCall, Sound
  <2>10. ASSUME ~edited, NEW q \in Processes PROVE Settled(q)'
    BY <2>1, <2>3, <2>4, <2>5, <2>10 DEF Settled, Holds, Absent
  <2>11. Truthful' /\ LostRaceIsNoError'
    BY <2>4, <2>5 DEF Truthful, LostRaceIsNoError, StatusConfigured, Holds
  <2>12. ASSUME ~edited, target' \in Inodes PROVE data'[target'] \in Profiles
    BY <2>12, <2>4, <2>5
  <2> QED BY <2>6, <2>7, <2>8, <2>9, <2>10, <2>11, <2>12
<1> QED BY <1>2, <1>3 DEF CreateTemp

\* The temporary file gets its contents: no other name leads to it.
LEMMA FillStep ==
  ASSUME Inductive, NEW p \in Processes, stage[p] = "publish", Fill(p),
         UNCHANGED applyVars
  PROVE  Inductive'
<1> USE DEF Inductive, applyVars
<1>1. w[p] \in WriteState /\ InCall(p) /\ OwnTemp(p) /\ w[p].pc = "fill"
  BY DEF TypeOK, FileTypeOK, Fill
<1>2. CASE Fault(p) /\ UNCHANGED data
  BY <1>2, SettleMove DEF Fill, Results, Fault
<1>3. ASSUME data' = [data EXCEPT ![w[p].temp] = w[p].want],
             Writes(p, [w[p] EXCEPT !.pc = "check"])
      PROVE  Inductive'
  <2> DEFINE r == [w[p] EXCEPT !.pc = "check"]
  <2>1. /\ Sound(p, r) /\ r.temp = w[p].temp /\ r.pc = "check"
        /\ r.result = "none" /\ r.want = w[p].want
    BY <1>1 DEF Sound, WriteState, WriteLabels, InCall
  <2>2. w \in [Processes -> WriteState] /\ w' = [w EXCEPT ![p] = r]
    BY <1>3 DEF Writes, TypeOK, FileTypeOK
  <2> HIDE DEF r
  <2>3. /\ w' \in [Processes -> WriteState] /\ w'[p] = r
        /\ \A q \in Processes \ {p} : w'[q] = w[q]
    BY <2>1, <2>2 DEF Sound
  <2>4. /\ UNCHANGED <<target, stale, crashes, asked, stage, answer, edited>>
        /\ w[p].temp \in Inodes \ {target}
        /\ \A q \in Processes \ {p} : w[q].temp # w[p].temp
    BY <1>1 DEF Fill, OwnTemp
  <2>5. /\ data' \in [Inodes -> Contents \cup {Torn}]
        /\ data'[w[p].temp] = w[p].want
        /\ \A g \in Inodes \ {w[p].temp} : data'[g] = data[g]
    BY <1>1, <1>3, <2>4 DEF TypeOK, FileTypeOK, WriteState
  <2>6. TypeOK'
    BY <2>3, <2>4, <2>5 DEF TypeOK, FileTypeOK
  <2>7. NeverTorn'
    BY <2>4, <2>5 DEF NeverTorn
  <2>8. ASSUME NEW q \in Processes PROVE OwnTemp(q)'
    <3>1. CASE q = p
      BY <3>1, <1>1, <2>1, <2>3, <2>4, <2>5 DEF OwnTemp
    <3>2. CASE q # p
      BY <3>2, <2>1, <2>3, <2>4, <2>5 DEF OwnTemp
    <3> QED BY <3>1, <3>2
  <2>9. ASSUME NEW q \in Processes PROVE InCall(q)'
    BY <2>1, <2>3, <2>4 DEF InCall, Sound
  <2>10. ASSUME ~edited, NEW q \in Processes PROVE Settled(q)'
    BY <2>1, <2>3, <2>4, <2>5, <2>10 DEF Settled, Holds, Absent
  <2>11. Truthful' /\ LostRaceIsNoError'
    BY <2>4, <2>5 DEF Truthful, LostRaceIsNoError, StatusConfigured, Holds
  <2>12. ASSUME ~edited, target' \in Inodes PROVE data'[target'] \in Profiles
    BY <2>12, <2>4, <2>5
  <2> QED BY <2>6, <2>7, <2>8, <2>9, <2>10, <2>11, <2>12
<1> QED BY <1>2, <1>3 DEF Fill

\* The link: the profile is the one that was asked for, and nobody has been
\* told anything yet that it would make wrong.
LEMMA LinkTempStep ==
  ASSUME Inductive, NEW p \in Processes, stage[p] = "publish", LinkTemp(p),
         UNCHANGED applyVars
  PROVE  Inductive'
<1> USE DEF Inductive, applyVars
<1>1. w[p] \in WriteState /\ InCall(p) /\ OwnTemp(p) /\ w[p].pc = "publish"
  BY DEF TypeOK, FileTypeOK, LinkTemp
<1>2. CASE ~Absent /\ target' = target /\ Settle(p, "exists")
  BY <1>2, SettleMove DEF LinkTemp, Results
<1>3. CASE target' = target /\ Fault(p)
  BY <1>3, SettleMove DEF LinkTemp, Results, Fault
<1>4. ASSUME Absent, target' = w[p].temp, Settle(p, "ok")
      PROVE  Inductive'
  <2> DEFINE r == [w[p] EXCEPT !.pc = "cleanup", !.result = "ok"]
  <2>1. /\ Sound(p, r) /\ r.temp = w[p].temp /\ r.pc = "cleanup"
        /\ r.result = "ok" /\ r.want = w[p].want
    BY <1>1 DEF Sound, WriteState, WriteLabels, InCall, Results
  <2>2. w \in [Processes -> WriteState] /\ w' = [w EXCEPT ![p] = r]
    BY <1>4 DEF Writes, Settle, TypeOK, FileTypeOK
  <2> HIDE DEF r
  <2>3. /\ w' \in [Processes -> WriteState] /\ w'[p] = r
        /\ \A q \in Processes \ {p} : w'[q] = w[q]
    BY <2>1, <2>2 DEF Sound
  <2>4. /\ UNCHANGED <<data, stale, crashes, asked, stage, answer, edited>>
        /\ target = NoInode /\ target' \in Inodes /\ target' = w[p].temp
        /\ \A q \in Processes \ {p} : w[q].temp # w[p].temp
        /\ data[target'] = asked[p] /\ asked[p] \in Profiles
    BY <1>1, <1>4 DEF LinkTemp, OwnTemp, Absent, InCall
  <2>5. ~Absent' /\ Holds(asked[p])'
    BY <2>4, InodeAssumption DEF Absent, Holds
  <2>6. TypeOK'
    BY <2>3, <2>4 DEF TypeOK, FileTypeOK
  <2>7. NeverTorn'
    BY <2>4, ProfileAssumption DEF NeverTorn
  <2>8. ASSUME NEW q \in Processes PROVE OwnTemp(q)'
    <3>1. CASE q = p
      BY <3>1, <1>1, <2>1, <2>3, <2>4 DEF OwnTemp
    <3>2. CASE q # p
      BY <3>2, <2>1, <2>3, <2>4 DEF OwnTemp
    <3> QED BY <3>1, <3>2
  <2>9. ASSUME NEW q \in Processes PROVE InCall(q)'
    BY <2>1, <2>3, <2>4 DEF InCall, Sound
  <2>10. ASSUME ~edited, NEW q \in Processes PROVE Settled(q)'
    BY <2>1, <2>3, <2>4, <2>5, <2>10, InodeAssumption
    DEF Settled, Holds, Absent
  <2>11. Truthful' /\ LostRaceIsNoError'
    BY <2>4, InodeAssumption
    DEF Truthful, LostRaceIsNoError, StatusConfigured, Holds
  <2>12. ASSUME ~edited, target' \in Inodes PROVE data'[target'] \in Profiles
    BY <2>4
  <2> QED BY <2>6, <2>7, <2>8, <2>9, <2>10, <2>11, <2>12
<1> QED BY <1>2, <1>3, <1>4 DEF LinkTemp

\* A step of p that gives up its temporary name and keeps the name of the
\* profile: the removal at the end, the return, a crash.
LEMMA DropTemp ==
  ASSUME Inductive, NEW p \in Processes, NEW r \in WriteState,
         r.temp = NoInode, r.pc \notin {"fill", "check", "publish"},
         w' = [w EXCEPT ![p] = r],
         stale' \in {stale, stale \cup ({w[p].temp} \cap Inodes)},
         UNCHANGED <<target, data>>, crashes' \in 0..MaxCrashes
  PROVE  /\ FileTypeOK' /\ NeverTorn'
         /\ w'[p] = r /\ \A q \in Processes \ {p} : w'[q] = w[q]
         /\ \A q \in Processes : OwnTemp(q)'
<1> USE DEF Inductive
<1>1. w \in [Processes -> WriteState]
  BY DEF TypeOK, FileTypeOK
<1>2. /\ w' \in [Processes -> WriteState] /\ w'[p] = r
      /\ \A q \in Processes \ {p} : w'[q] = w[q]
  BY <1>1
<1>3. FileTypeOK'
  BY <1>2 DEF TypeOK, FileTypeOK
<1>4. NeverTorn'
  BY DEF NeverTorn
<1>5. ASSUME NEW q \in Processes PROVE OwnTemp(q)'
  <2>1. CASE q = p
    BY <2>1, <1>2, InodeAssumption DEF OwnTemp
  <2>2. CASE q # p
    <3>1. OwnTemp(q) /\ OwnTemp(p) /\ w'[q] = w[q]
      BY <2>2, <1>2
    <3>2. w[q].temp \in Inodes => w[q].temp # w[p].temp
      BY <2>2, <3>1 DEF OwnTemp
    <3>3. w[q].temp \in Inodes => w[q].temp \notin stale'
      BY <3>1, <3>2 DEF OwnTemp
    <3>4. \A o \in Processes \ {q} : w[q].temp \in Inodes => w'[o].temp # w[q].temp
      BY <3>1, <1>2, InodeAssumption DEF OwnTemp
    <3> QED BY <3>1, <3>3, <3>4 DEF OwnTemp
  <2> QED BY <2>1, <2>2
<1> QED BY <1>2, <1>3, <1>4, <1>5

LEMMA IdleWriteType == IdleWrite \in WriteState
  BY DEF IdleWrite, WriteState, WriteLabels, Results

LEMMA CleanupStep ==
  ASSUME Inductive, NEW p \in Processes, stage[p] = "publish", Cleanup(p),
         UNCHANGED applyVars
  PROVE  Inductive'
<1> USE DEF Inductive, applyVars
<1>1. /\ w[p] \in WriteState /\ InCall(p) /\ OwnTemp(p)
      /\ w[p].pc = "cleanup" /\ crashes \in 0..MaxCrashes
  BY DEF TypeOK, FileTypeOK, Cleanup
<1> DEFINE r == [w[p] EXCEPT !.pc = "done", !.temp = NoInode]
<1>2. /\ r \in WriteState /\ r.temp = NoInode /\ r.pc = "done"
      /\ r.result = w[p].result /\ r.want = w[p].want /\ r.seen = w[p].seen
  BY <1>1 DEF WriteState, WriteLabels
<1>3. w' = [w EXCEPT ![p] = r]
  BY DEF Cleanup, Writes
<1> HIDE DEF r
<1>4. stale' \in {stale, stale \cup ({w[p].temp} \cap Inodes)}
  BY <1>1 DEF Cleanup, WriteState
<1>5. /\ FileTypeOK' /\ NeverTorn'
      /\ w'[p] = r /\ \A q \in Processes \ {p} : w'[q] = w[q]
      /\ \A q \in Processes : OwnTemp(q)'
  BY <1>1, <1>2, <1>3, <1>4, DropTemp DEF Cleanup
<1>6. UNCHANGED <<target, data, asked, stage, answer, edited>>
  BY DEF Cleanup
<1>7. TypeOK'
  BY <1>5, <1>6 DEF TypeOK
<1>8. ASSUME NEW q \in Processes PROVE InCall(q)'
  BY <1>1, <1>2, <1>5, <1>6 DEF InCall
<1>9. ASSUME ~edited, NEW q \in Processes PROVE Settled(q)'
  BY <1>2, <1>5, <1>6, <1>9 DEF Settled, Holds, Absent
<1>10. Truthful' /\ LostRaceIsNoError'
  BY <1>6 DEF Truthful, LostRaceIsNoError, StatusConfigured, Holds
<1> QED BY <1>5, <1>6, <1>7, <1>8, <1>9, <1>10

LEMMA PublishStep ==
  ASSUME Inductive, NEW p \in Processes, Publish(p)
  PROVE  Inductive'
<1>1. ~RenameTemp(p)
  BY ProfileAssumption DEF RenameTemp
<1> QED
  BY <1>1, InspectStep, CreateTempStep, FillStep, CheckStep, LinkTempStep,
     CleanupStep
  DEF Publish, WriteStep

-----------------------------------------------------------------------------
(* The steps of Apply.                                                     *)

\* A call ends, or goes on to look again: the file is not touched, and what
\* the caller is told is true.
LEMMA LeaveWrite ==
  ASSUME Inductive, NEW p \in Processes, stage[p] # "idle",
         w' = [w EXCEPT ![p] = IdleWrite],
         stale' \in {stale, stale \cup ({w[p].temp} \cap Inodes)},
         UNCHANGED <<target, data, asked, edited>>, crashes' \in 0..MaxCrashes,
         NEW s \in {"idle", "again"}, NEW a \in Answers,
         stage' = [stage EXCEPT ![p] = s],
         answer' = [answer EXCEPT ![p] = a],
         s = "again" => a = "none" /\ (~edited => ~Absent),
         ~edited /\ a = "ok" => Holds(asked[p]),
         ~edited /\ a = "drift" => StatusConfigured /\ ~Holds(asked[p]),
         ~edited /\ a = "error" => p \in Faulty
  PROVE  Inductive'
<1> USE DEF Inductive
<1>1. /\ FileTypeOK' /\ NeverTorn'
      /\ w'[p] = IdleWrite /\ \A q \in Processes \ {p} : w'[q] = w[q]
      /\ \A q \in Processes : OwnTemp(q)'
  BY DropTemp, IdleWriteType DEF IdleWrite
<1>2. /\ stage'[p] = s /\ answer'[p] = a
      /\ \A q \in Processes \ {p} : stage'[q] = stage[q] /\ answer'[q] = answer[q]
      /\ stage' \in [Processes -> Stages]
      /\ answer' \in [Processes -> Answers]
  BY DEF TypeOK, Stages
<1>3. TypeOK'
  BY <1>1, <1>2 DEF TypeOK
<1>4. asked[p] \in Profiles
  BY DEF InCall
<1>5. ASSUME NEW q \in Processes PROVE InCall(q)'
  <2>1. CASE q = p
    BY <2>1, <1>1, <1>2, <1>4 DEF InCall, IdleWrite
  <2>2. CASE q # p
    BY <2>2, <1>1, <1>2 DEF InCall
  <2> QED BY <2>1, <2>2
<1>6. ASSUME ~edited, NEW q \in Processes PROVE Settled(q)'
  <2>1. CASE q = p
    BY <2>1, <1>1, <1>2, <1>6 DEF Settled, IdleWrite, Absent
  <2>2. CASE q # p
    BY <2>2, <1>1, <1>2, <1>6 DEF Settled, Holds, Absent
  <2> QED BY <2>1, <2>2
<1>7. Truthful'
  BY <1>2, <1>4 DEF Truthful, StatusConfigured, Holds
<1>8. LostRaceIsNoError'
  BY <1>2 DEF LostRaceIsNoError
<1> QED BY <1>1, <1>3, <1>5, <1>6, <1>7, <1>8

\* A call ends before or after it has written anything.
LEMMA AnswerStep ==
  ASSUME Inductive, NEW p \in Processes, stage[p] \in {"resolve", "again"},
         UNCHANGED <<fileVars, asked, edited>>, NEW a \in Answers,
         Return(p, a),
         ~edited /\ a = "ok" => Holds(asked[p]),
         ~edited /\ a = "drift" => StatusConfigured /\ ~Holds(asked[p]),
         ~edited /\ a = "error" => p \in Faulty
  PROVE  Inductive'
<1> USE DEF Inductive, fileVars
<1>2. /\ stage'[p] = "idle" /\ answer'[p] = a
      /\ \A q \in Processes \ {p} : stage'[q] = stage[q] /\ answer'[q] = answer[q]
      /\ stage' \in [Processes -> Stages]
      /\ answer' \in [Processes -> Answers]
  BY DEF TypeOK, Stages, Return
<1>3. TypeOK' /\ NeverTorn'
  BY <1>2 DEF TypeOK, FileTypeOK, NeverTorn
<1>4. asked[p] \in Profiles
  BY DEF InCall
<1>5. ASSUME NEW q \in Processes PROVE OwnTemp(q)' /\ InCall(q)'
  <2>1. OwnTemp(q)'
    BY DEF OwnTemp
  <2>2. CASE q = p
    BY <2>1, <2>2, <1>2, <1>4 DEF InCall
  <2>3. CASE q # p
    BY <2>1, <2>3, <1>2 DEF InCall
  <2> QED BY <2>2, <2>3
<1>6. ASSUME ~edited, NEW q \in Processes PROVE Settled(q)'
  BY <1>2, <1>6 DEF Settled, Holds, Absent
<1>7. Truthful' /\ LostRaceIsNoError'
  BY <1>2, <1>4 DEF Truthful, LostRaceIsNoError, StatusConfigured, Holds
<1> QED BY <1>3, <1>5, <1>6, <1>7

LEMMA AgainstExistingStep ==
  ASSUME Inductive, NEW p \in Processes, stage[p] \in {"resolve", "again"},
         AgainstExisting(p)
  PROVE  Inductive'
<1>1. UNCHANGED <<fileVars, asked, edited>>
  BY DEF AgainstExisting, Return
<1>2. CASE Holds(asked[p]) /\ Return(p, "ok")
  BY <1>1, <1>2, AnswerStep DEF Answers
<1>3. CASE /\ \E v \in Profiles \ {asked[p]} : Holds(v)
           /\ Return(p, "drift")
  <2>1. StatusConfigured /\ ~Holds(asked[p])
    BY <1>3 DEF StatusConfigured, Holds
  <2> QED BY <1>1, <1>3, <2>1, AnswerStep DEF Answers
<1>4. CASE ~(\E v \in Profiles : Holds(v)) /\ Return(p, "error")
  <2>1. edited
    BY <1>4, InodeAssumption
    DEF Inductive, AgainstExisting, Absent, Holds, TypeOK, FileTypeOK
  <2> QED BY <1>1, <1>4, <2>1, AnswerStep DEF Answers
<1> QED BY <1>2, <1>3, <1>4 DEF AgainstExisting

LEMMA ReadFailsStep ==
  ASSUME Inductive, NEW p \in Processes, stage[p] \in {"resolve", "again"},
         ReadFails(p)
  PROVE  Inductive'
  BY AnswerStep DEF ReadFails, Return, Answers

LEMMA BeginApplyStep ==
  ASSUME Inductive, NEW p \in Processes, NEW v \in Profiles, BeginApply(p, v)
  PROVE  Inductive'
<1> USE DEF Inductive, BeginApply, fileVars
<1>1. /\ stage'[p] = "resolve" /\ answer'[p] = "none" /\ asked'[p] = v
      /\ \A q \in Processes \ {p} :
           stage'[q] = stage[q] /\ answer'[q] = answer[q] /\ asked'[q] = asked[q]
      /\ stage' \in [Processes -> Stages]
      /\ answer' \in [Processes -> Answers]
      /\ asked' \in [Processes -> Profiles \cup {Garbage}]
  BY DEF TypeOK, Stages, Answers
<1>2. TypeOK' /\ NeverTorn'
  BY <1>1 DEF TypeOK, FileTypeOK, NeverTorn
<1>3. w[p].pc = "idle"
  BY DEF InCall
<1>4. ASSUME NEW q \in Processes PROVE OwnTemp(q)' /\ InCall(q)'
  <2>1. OwnTemp(q)'
    BY DEF OwnTemp
  <2>2. CASE q = p
    BY <2>1, <2>2, <1>1, <1>3 DEF InCall
  <2>3. CASE q # p
    BY <2>1, <2>3, <1>1 DEF InCall
  <2> QED BY <2>2, <2>3
<1>5. ASSUME ~edited, NEW q \in Processes PROVE Settled(q)'
  <2>1. CASE q = p
    BY <2>1, <1>1, <1>3, <1>5 DEF Settled, InCall
  <2>2. CASE q # p
    BY <2>2, <1>1, <1>5 DEF Settled, Holds, Absent
  <2> QED BY <2>1, <2>2
<1>6. Truthful' /\ LostRaceIsNoError'
  BY <1>1 DEF Truthful, LostRaceIsNoError, StatusConfigured, Holds
<1> QED BY <1>2, <1>4, <1>5, <1>6

LEMMA BeginPublishStep ==
  ASSUME Inductive, NEW p \in Processes, stage[p] = "resolve", Absent,
         BeginWrite(p, asked[p]), stage' = [stage EXCEPT ![p] = "publish"],
         UNCHANGED <<asked, answer, edited>>
  PROVE  Inductive'
<1> USE DEF Inductive
<1> DEFINE r == [IdleWrite EXCEPT !.pc = "inspect", !.want = asked[p]]
<1>1. asked[p] \in Profiles /\ answer[p] = "none"
  BY DEF InCall
<1>2. /\ r \in WriteState /\ r.pc = "inspect" /\ r.want = asked[p]
      /\ r.seen = NoInode /\ r.temp = NoInode /\ r.result = "none"
  BY <1>1, IdleWriteType, ProfileAssumption
  DEF WriteState, WriteLabels, IdleWrite
<1>3. /\ w' = [w EXCEPT ![p] = r]
      /\ UNCHANGED <<target, data, stale, crashes, asked, answer, edited>>
      /\ crashes \in 0..MaxCrashes
  BY DEF BeginWrite, Writes, TypeOK, FileTypeOK
<1> HIDE DEF r
<1>4. /\ FileTypeOK' /\ NeverTorn'
      /\ w'[p] = r /\ \A q \in Processes \ {p} : w'[q] = w[q]
      /\ \A q \in Processes : OwnTemp(q)'
  BY <1>2, <1>3, DropTemp
<1>5. /\ stage'[p] = "publish" /\ stage' \in [Processes -> Stages]
      /\ \A q \in Processes \ {p} : stage'[q] = stage[q]
  BY DEF TypeOK, Stages
<1>6. TypeOK'
  BY <1>3, <1>4, <1>5 DEF TypeOK
<1>7. ASSUME NEW q \in Processes PROVE InCall(q)'
  <2>1. CASE q = p
    BY <2>1, <1>1, <1>2, <1>3, <1>4, <1>5 DEF InCall
  <2>2. CASE q # p
    BY <2>2, <1>3, <1>4, <1>5 DEF InCall
  <2> QED BY <2>1, <2>2
<1>8. ASSUME ~edited, NEW q \in Processes PROVE Settled(q)'
  <2>1. CASE q = p
    BY <2>1, <1>2, <1>4, <1>5 DEF Settled
  <2>2. CASE q # p
    BY <2>2, <1>3, <1>4, <1>5, <1>8 DEF Settled, Holds, Absent
  <2> QED BY <2>1, <2>2
<1>9. Truthful' /\ LostRaceIsNoError'
  BY <1>3 DEF Truthful, LostRaceIsNoError, StatusConfigured, Holds
<1> QED BY <1>3, <1>4, <1>6, <1>7, <1>8, <1>9

LEMMA ResolveStep ==
  ASSUME Inductive, NEW p \in Processes, Resolve(p)
  PROVE  Inductive'
  BY AgainstExistingStep, ReadFailsStep, BeginPublishStep DEF Resolve

LEMMA ResolveAgainStep ==
  ASSUME Inductive, NEW p \in Processes, ResolveAgain(p)
  PROVE  Inductive'
<1>1. CASE Absent /\ Return(p, "error") /\ UNCHANGED fileVars
  <2>1. edited
    BY <1>1 DEF Inductive, Settled, ResolveAgain
  <2> QED BY <1>1, <2>1, AnswerStep DEF ResolveAgain, Return, Answers
<1> QED BY <1>1, AgainstExistingStep, ReadFailsStep DEF ResolveAgain

LEMMA PublishedStep ==
  ASSUME Inductive, NEW p \in Processes, Published(p)
  PROVE  Inductive'
<1>1. /\ InCall(p) /\ crashes \in 0..MaxCrashes
      /\ ~edited => Settled(p)
      /\ stage[p] # "idle"
  BY DEF Inductive, TypeOK, FileTypeOK, Published
<1>2. /\ w' = [w EXCEPT ![p] = IdleWrite]
      /\ UNCHANGED <<target, data, stale, crashes, asked, edited>>
  BY DEF Published, Writes, Return
<1>3. CASE w[p].result = "ok" /\ Return(p, "ok")
  BY <1>1, <1>2, <1>3, LeaveWrite DEF Return, Settled, Answers
<1>4. CASE w[p].result = "error" /\ Return(p, "error")
  BY <1>1, <1>2, <1>4, LeaveWrite DEF Return, Settled, Answers
<1>5. CASE /\ w[p].result \in {"exists", "changed"}
           /\ stage' = [stage EXCEPT ![p] = "again"]
           /\ UNCHANGED <<asked, answer, edited>>
  <2>1. answer' = [answer EXCEPT ![p] = "none"]
    BY <1>1, <1>5 DEF InCall, Inductive, TypeOK
  <2> QED BY <1>1, <1>2, <1>5, <2>1, LeaveWrite DEF Settled, Answers
<1> QED BY <1>3, <1>4, <1>5 DEF Published

LEMMA CrashStep ==
  ASSUME Inductive, NEW p \in Processes, Crash(p)
  PROVE  Inductive'
<1>1. /\ w[p].temp \in Inodes \cup {NoInode} /\ crashes' \in 0..MaxCrashes
      /\ InCall(p) /\ answer[p] = "none"
  BY MetadataAssumption
  DEF Inductive, TypeOK, FileTypeOK, WriteState, Crash, CrashWrite, InCall
<1>2. stale' \in {stale, stale \cup ({w[p].temp} \cap Inodes)}
  BY <1>1 DEF Crash, CrashWrite
<1>3. answer' = [answer EXCEPT ![p] = "none"]
  BY <1>1 DEF Crash, Inductive, TypeOK
<1> QED
  BY <1>1, <1>2, <1>3, LeaveWrite DEF Crash, CrashWrite, Writes, Answers

\* With an editor at work only what does not depend on the contents is left.
LEMMA HandEditStep ==
  ASSUME Inductive, HandEdit
  PROVE  Inductive'
<1> USE DEF Inductive, HandEdit, applyVars
<1>1. TypeOK'
  BY DEF TypeOK, FileTypeOK
<1>2. NeverTorn'
  BY InodeAssumption DEF NeverTorn, TypeOK, FileTypeOK
<1>3. ASSUME NEW q \in Processes PROVE OwnTemp(q)'
  <2>1. CASE target' = NoInode /\ data' = data
    BY <2>1, InodeAssumption DEF OwnTemp
  <2>2. ASSUME NEW c \in Contents, target' = target,
               data' = [data EXCEPT ![target] = c]
        PROVE  OwnTemp(q)'
    BY <2>2 DEF OwnTemp, TypeOK, FileTypeOK
  <2> QED BY <2>1, <2>2
<1>4. ASSUME NEW q \in Processes PROVE InCall(q)'
  BY DEF InCall
<1>5. Truthful' /\ LostRaceIsNoError'
  BY DEF Truthful, LostRaceIsNoError
<1> QED BY <1>1, <1>2, <1>3, <1>4, <1>5

-----------------------------------------------------------------------------
LEMMA InitInductive == Init => Inductive
<1> SUFFICES ASSUME Init PROVE Inductive
  OBVIOUS
<1> USE DEF Init, FileInit
<1>1. TypeOK
  <2>1. FileTypeOK
    BY IdleWriteType, MetadataAssumption DEF FileTypeOK
  <2> QED BY <2>1 DEF TypeOK, Stages, Answers
<1>2. NeverTorn
  BY InodeAssumption DEF NeverTorn
<1>3. ASSUME NEW q \in Processes PROVE OwnTemp(q) /\ InCall(q) /\ Settled(q)
  BY InodeAssumption DEF OwnTemp, InCall, Settled, IdleWrite
<1>4. Truthful /\ LostRaceIsNoError
  BY DEF Truthful, LostRaceIsNoError
<1> QED BY <1>1, <1>2, <1>3, <1>4, InodeAssumption DEF Inductive

LEMMA NextInductive == Inductive /\ [Next]_vars => Inductive'
<1> SUFFICES ASSUME Inductive, [Next]_vars PROVE Inductive'
  OBVIOUS
<1>1. CASE UNCHANGED vars
  BY <1>1
  DEF vars, fileVars, applyVars, Inductive, TypeOK, FileTypeOK, NeverTorn,
      OwnTemp, InCall, Settled, Truthful, LostRaceIsNoError,
      StatusConfigured, Holds, Absent
<1>2. CASE HandEdit
  BY <1>2, HandEditStep
<1>3. ASSUME NEW p \in Processes, Step(p) PROVE Inductive'
  BY <1>3, BeginApplyStep, ResolveStep, PublishStep, PublishedStep,
     ResolveAgainStep, CrashStep
  DEF Step
<1> QED BY <1>1, <1>2, <1>3 DEF Next

\* Every call of Apply works on a temporary file of its own, and what it
\* knows about the profile's name stays true.
THEOREM InductiveInvariance == Spec => []Inductive
  BY InitInductive, NextInductive, PTL DEF Spec

\* Every variable keeps its type.
THEOREM TypeCorrect == Spec => []TypeOK
<1>1. Inductive => TypeOK
  BY DEF Inductive
<1> QED BY <1>1, InductiveInvariance, PTL

\* A caller that gets a receipt finds its profile in place, one that is told
\* of drift another one, for any number of processes and crashes.
THEOREM AnswersAreTrue == Spec => []Truthful
<1>1. Inductive => Truthful
  BY DEF Inductive
<1> QED BY <1>1, InductiveInvariance, PTL

\* Losing the race for the name is never reported as an error.
THEOREM LosersSucceed == Spec => []LostRaceIsNoError
<1>1. Inductive => LostRaceIsNoError
  BY DEF Inductive
<1> QED BY <1>1, InductiveInvariance, PTL

\* No process ever overwrites or removes a profile that is there, edited by
\* hand or not.
THEOREM NothingIsOverwritten == Spec => NeverOverwritten
<1> DEFINE Kept ==
      ~Absent => (HandEdit \/ (target' = target /\ data'[target] = data[target]))
<1>1. Inductive /\ [Next]_vars => [Kept]_vars
  <2> SUFFICES ASSUME Inductive, Next, ~Absent, ~HandEdit
               PROVE  target' = target /\ data'[target] = data[target]
    OBVIOUS
  <2>1. PICK p \in Processes : Step(p)
    BY DEF Next
  <2>2. /\ target \in Inodes /\ OwnTemp(p)
        /\ data \in [Inodes -> Contents \cup {Torn}]
    BY DEF Inductive, TypeOK, FileTypeOK, Absent
  <2>3. CASE Publish(p)
    <3>1. CASE CreateTemp(p)
      BY <3>1, <2>2 DEF CreateTemp, Named
    <3>2. CASE Fill(p)
      BY <3>2, <2>2 DEF Fill, OwnTemp
    <3>3. CASE LinkTemp(p)
      BY <3>3 DEF LinkTemp
    <3>4. CASE RenameTemp(p)
      BY <3>4, ProfileAssumption DEF RenameTemp
    <3> QED
      BY <2>3, <3>1, <3>2, <3>3, <3>4
      DEF Publish, WriteStep, Inspect, Check, Cleanup
  <2>4. CASE ~Publish(p)
    BY <2>1, <2>4
    DEF Step, BeginApply, Resolve, AgainstExisting, ReadFails, BeginWrite,
        Published, ResolveAgain, Crash, CrashWrite, fileVars
  <2> QED BY <2>3, <2>4
<1> QED BY <1>1, InductiveInvariance, PTL DEF Spec, NeverOverwritten

-----------------------------------------------------------------------------
(* Apply implements a register that is written once (WriteOnce): the link  *)
(* of a temporary file is the write, and Return is what the caller is told.*)

LEMMA OnceInitial == Init => Once!OnceInit
BY DEF Init, FileInit, Once!OnceInit, Register, Absent

\* What p knows when a step begins.
LEMMA Knows ==
  ASSUME Inductive, NEW p \in Processes
  PROVE  /\ w[p] \in WriteState /\ OwnTemp(p) /\ InCall(p)
         /\ ~edited => Settled(p)
         /\ target \in Inodes \cup {NoInode}
         /\ data \in [Inodes -> Contents \cup {Torn}]
         /\ w \in [Processes -> WriteState]
BY DEF Inductive, TypeOK, FileTypeOK

\* The caller is told a, which is true of the file or excused by an edit.
LEMMA ReturnIsTell ==
  ASSUME NEW p \in Processes, stage[p] # "idle",
         NEW a \in {"ok", "drift", "error"}, Return(p, a),
         UNCHANGED <<target, data>>,
         \/ edited
         \/ a = "ok" /\ Holds(asked[p]) /\ ~Absent
         \/ a = "drift" /\ ~Absent /\ \E v \in Profiles \ {asked[p]} : Holds(v)
         \/ a = "error"
  PROVE  Once!OnceNext
<1>1. Register' = Register /\ UNCHANGED <<asked, edited>>
  BY DEF Register, Absent, Return
<1>2. Once!Allowed(p, a)
  BY DEF Once!Allowed, Register, Holds
<1>3. Once!Tell(p)
  BY <1>1, <1>2 DEF Once!Tell, Return
<1> QED BY <1>3 DEF Once!OnceNext

\* p goes on, or dies: the file and what the others do stay as they are.
LEMMA MoveIsProceed ==
  ASSUME NEW p \in Processes, stage[p] # "idle", NEW s,
         stage' = [stage EXCEPT ![p] = s],
         UNCHANGED <<target, data, asked, answer, edited>>
  PROVE  Once!OnceNext
<1>1. Register' = Register
  BY DEF Register, Absent
<1>2. Once!Proceed(p)
  BY <1>1 DEF Once!Proceed
<1> QED BY <1>2 DEF Once!OnceNext

LEMMA AgainstExistingIsTell ==
  ASSUME Inductive, NEW p \in Processes, stage[p] # "idle", AgainstExisting(p)
  PROVE  Once!OnceNext
BY ReturnIsTell DEF AgainstExisting, fileVars

LEMMA ResolveRefines ==
  ASSUME Inductive, NEW p \in Processes, Resolve(p) \/ ResolveAgain(p)
  PROVE  Once!OnceNext
<1>1. stage[p] # "idle"
  BY DEF Resolve, ResolveAgain
<1>2. CASE AgainstExisting(p)
  BY <1>1, <1>2, AgainstExistingIsTell
<1>3. CASE Return(p, "error") /\ UNCHANGED fileVars
  BY <1>1, <1>3, ReturnIsTell DEF fileVars
<1>4. CASE /\ BeginWrite(p, asked[p])
           /\ stage' = [stage EXCEPT ![p] = "publish"]
           /\ UNCHANGED <<asked, answer, edited>>
  BY <1>1, <1>4, MoveIsProceed DEF BeginWrite
<1> QED BY <1>2, <1>3, <1>4 DEF Resolve, ResolveAgain, ReadFails

\* Only the link is seen; the temporary file of p is not the profile.
LEMMA PublishRefines ==
  ASSUME Inductive, NEW p \in Processes, Publish(p)
  PROVE  Once!OnceNext \/ UNCHANGED Once!onceVars
<1>1. /\ w[p] \in WriteState /\ OwnTemp(p) /\ InCall(p)
      /\ target \in Inodes \cup {NoInode} /\ data \in [Inodes -> Contents \cup {Torn}]
      /\ stage[p] = "publish" /\ UNCHANGED <<asked, stage, answer, edited>>
  BY Knows DEF Publish, applyVars
<1>2. CASE Absent /\ LinkTemp(p) /\ target' = w[p].temp
  <2>1. /\ w[p].temp \in Inodes /\ data[w[p].temp] = asked[p] /\ data' = data
    BY <1>1, <1>2 DEF LinkTemp, OwnTemp, InCall
  <2>2. Register = NoInode /\ Register' = asked[p]
    BY <1>2, <2>1, InodeAssumption DEF Register, Absent
  <2>3. Once!WriteValue(p)
    BY <1>1, <2>2 DEF Once!WriteValue
  <2> QED BY <2>3 DEF Once!OnceNext
<1>3. CASE target' = target /\ (~Absent => data'[target] = data[target])
  BY <1>1, <1>3 DEF Once!onceVars, Register, Absent
<1>4. CASE CreateTemp(p)
  BY <1>1, <1>3, <1>4 DEF CreateTemp, Named, Absent
<1>5. CASE Fill(p)
  BY <1>1, <1>3, <1>5 DEF Fill, OwnTemp, Absent
<1>6. CASE Inspect(p) \/ Check(p) \/ Cleanup(p)
  BY <1>3, <1>6 DEF Inspect, Check, Cleanup
<1>7. CASE LinkTemp(p)
  BY <1>2, <1>3, <1>7 DEF LinkTemp
<1> QED
  BY <1>4, <1>5, <1>6, <1>7, ProfileAssumption DEF Publish, WriteStep, RenameTemp

LEMMA PublishedRefines ==
  ASSUME Inductive, NEW p \in Processes, Published(p)
  PROVE  Once!OnceNext
<1>1. stage[p] # "idle" /\ UNCHANGED <<target, data>> /\ InCall(p)
  BY Knows DEF Published
<1>2. CASE w[p].result = "ok" /\ Return(p, "ok")
  <2>1. edited \/ (Holds(asked[p]) /\ ~Absent)
    BY <1>2, Knows, InodeAssumption DEF Settled, Holds, Absent
  <2> QED BY <1>1, <1>2, <2>1, ReturnIsTell
<1>3. CASE Return(p, "error")
  BY <1>1, <1>3, ReturnIsTell
<1>4. CASE /\ stage' = [stage EXCEPT ![p] = "again"]
           /\ UNCHANGED <<asked, answer, edited>>
  BY <1>1, <1>4, MoveIsProceed
<1> QED BY <1>2, <1>3, <1>4 DEF Published

LEMMA OnceStep == Inductive /\ [Next]_vars => [Once!OnceNext]_(Once!onceVars)
<1> SUFFICES ASSUME Inductive, [Next]_vars
             PROVE  Once!OnceNext \/ UNCHANGED Once!onceVars
  OBVIOUS
<1>1. CASE HandEdit
  <2>1. Register # NoInode
    BY <1>1, ProfileAssumption
    DEF HandEdit, Register, Absent, Inductive, TypeOK, FileTypeOK, NeverTorn
  <2>2. Once!Edit
    BY <1>1, <2>1 DEF HandEdit, Once!Edit
  <2> QED BY <2>2 DEF Once!OnceNext
<1>2. ASSUME NEW p \in Processes, Step(p)
      PROVE  Once!OnceNext \/ UNCHANGED Once!onceVars
  <2>1. ASSUME NEW v \in Profiles, BeginApply(p, v) PROVE Once!OnceNext
    <3>1. /\ Register' = Register
          /\ asked'[p] = v /\ stage'[p] = "resolve"
          /\ \A q \in Processes \ {p} : asked'[q] = asked[q] /\ stage'[q] = stage[q]
      BY <2>1 DEF BeginApply, Register, Absent, fileVars, Inductive, TypeOK
    <3>2. Once!Ask(p)
      BY <2>1, <3>1 DEF BeginApply, Once!Ask
    <3> QED BY <3>2 DEF Once!OnceNext
  <2>2. CASE Resolve(p) \/ ResolveAgain(p)
    BY <2>2, ResolveRefines
  <2>3. CASE Publish(p)
    BY <2>3, PublishRefines
  <2>4. CASE Published(p)
    BY <2>4, PublishedRefines
  <2>5. CASE Crash(p)
    BY <2>5, MoveIsProceed DEF Crash, CrashWrite
  <2> QED BY <1>2, <2>1, <2>2, <2>3, <2>4, <2>5 DEF Step
<1>3. CASE UNCHANGED vars
  BY <1>3 DEF vars, fileVars, applyVars, Once!onceVars, Register, Absent
<1> QED BY <1>1, <1>2, <1>3 DEF Next

\* Apply as a whole, with its races, crashes and hand edits, does what a
\* register that is written once promises its callers.
THEOREM RefinesWriteOnce == Spec => ImplementsWriteOnce
BY InductiveInvariance, OnceInitial, OnceStep, PTL
DEF Spec, ImplementsWriteOnce, Once!OnceSpec

-----------------------------------------------------------------------------
(* The same file functions used by ReceiptFile: the file is replaced.      *)

Receipt == INSTANCE ReceiptFile WITH RequireAbsent <- FALSE

\* A step of one process, which has r for its locals afterwards and leaves
\* the temporary files of the others alone.
LEMMA ReceiptMove ==
  ASSUME Receipt!Inductive, NEW p \in Processes, NEW r \in Receipt!WriteState,
         w' = [w EXCEPT ![p] = r],
         target' \in Inodes \cup {NoInode}, data' \in [Inodes -> Contents \cup {Torn}],
         stale' \subseteq Inodes, crashes' \in 0..MaxCrashes,
         Receipt!NeverTorn', Receipt!OwnTemp(p)',
         \A q \in Processes \ {p} :
           w[q].temp \in Inodes =>
             /\ w[q].temp # target' /\ w[q].temp \notin stale' /\ w[q].temp # r.temp
             /\ data'[w[q].temp] = data[w[q].temp]
  PROVE  Receipt!Inductive'
<1>1. w \in [Processes -> Receipt!WriteState] /\ \A q \in Processes : Receipt!OwnTemp(q)
  BY DEF Receipt!Inductive, Receipt!TypeOK, Receipt!FileTypeOK
<1>2. /\ w' \in [Processes -> Receipt!WriteState] /\ w'[p] = r
      /\ \A q \in Processes \ {p} : w'[q] = w[q]
  BY <1>1
<1>3. Receipt!TypeOK'
  BY <1>2 DEF Receipt!TypeOK, Receipt!FileTypeOK
<1>4. ASSUME NEW q \in Processes \ {p} PROVE Receipt!OwnTemp(q)'
  <2>1. Receipt!OwnTemp(q) /\ w'[q] = w[q]
    BY <1>1, <1>2
  <2>2. w[q].temp \in Inodes => \A other \in Processes \ {q} : w'[other].temp # w[q].temp
    BY <1>2, <2>1 DEF Receipt!OwnTemp
  <2> QED BY <2>1, <2>2 DEF Receipt!OwnTemp
<1> QED BY <1>3, <1>4 DEF Receipt!Inductive

\* A step that leaves the name and every file as they are.
LEMMA ReceiptLocal ==
  ASSUME Receipt!Inductive, NEW p \in Processes, NEW r \in Receipt!WriteState,
         w' = [w EXCEPT ![p] = r], UNCHANGED <<target, data, stale, crashes>>,
         r.temp \in {w[p].temp, NoInode},
         r.pc \in {"idle", "inspect", "create"} => r.temp = NoInode,
         r.pc \in {"fill", "check", "publish"} =>
           w[p].pc \in {"fill", "check", "publish"} /\ r.temp = w[p].temp,
         r.pc # "idle" => r.want \in Contents,
         r.pc \in {"check", "publish"} => w[p].pc \in {"check", "publish"} /\ r.want = w[p].want,
         r.pc \notin {"cleanup", "done"} => r.result = "none"
  PROVE  Receipt!Inductive'
<1>1. /\ Receipt!TypeOK /\ Receipt!NeverTorn
      /\ \A q \in Processes : Receipt!OwnTemp(q)
  BY DEF Receipt!Inductive
<1>2. w'[p] = r /\ \A q \in Processes \ {p} : w'[q] = w[q]
  BY <1>1 DEF Receipt!TypeOK, Receipt!FileTypeOK
<1>3. Receipt!NeverTorn'
  BY <1>1 DEF Receipt!NeverTorn
<1>4. Receipt!OwnTemp(p)'
  BY <1>1, <1>2, InodeAssumption DEF Receipt!OwnTemp
<1>5. \A q \in Processes \ {p} :
        w[q].temp \in Inodes => /\ w[q].temp # target /\ w[q].temp \notin stale
                                /\ w[q].temp # r.temp
  BY <1>1, InodeAssumption DEF Receipt!OwnTemp
<1> QED BY <1>1, <1>3, <1>4, <1>5, ReceiptMove DEF Receipt!TypeOK, Receipt!FileTypeOK

LEMMA ReceiptIdle == Receipt!IdleWrite \in Receipt!WriteState
BY DEF Receipt!IdleWrite, Receipt!WriteState, Receipt!WriteLabels, Receipt!Results

LEMMA ReceiptFacts ==
  ASSUME Receipt!Inductive, NEW p \in Processes
  PROVE  /\ target \in Inodes \cup {NoInode} /\ data \in [Inodes -> Contents \cup {Torn}]
         /\ w \in [Processes -> Receipt!WriteState] /\ w[p] \in Receipt!WriteState
         /\ stale \subseteq Inodes /\ crashes \in 0..MaxCrashes
         /\ \A q \in Processes : Receipt!OwnTemp(q)
BY DEF Receipt!Inductive, Receipt!TypeOK, Receipt!FileTypeOK

LEMMA ReceiptSettles ==
  ASSUME Receipt!Inductive, NEW p \in Processes, NEW res \in Results,
         w[p].pc \notin {"idle"}, Receipt!Settle(p, res),
         UNCHANGED <<target, data, stale, crashes>>
  PROVE  Receipt!Inductive'
<1>1. PICK r : r = [w[p] EXCEPT !.pc = "cleanup", !.result = res]
  OBVIOUS
<1>2. /\ r \in Receipt!WriteState /\ r.pc = "cleanup" /\ r.temp = w[p].temp
      /\ r.want = w[p].want
  BY <1>1, ReceiptFacts DEF Receipt!WriteState, Receipt!WriteLabels, Receipt!Results, Results
<1>3. r.want \in Contents
  BY <1>2, ReceiptFacts DEF Receipt!OwnTemp
<1> QED BY <1>1, <1>2, <1>3, ReceiptLocal DEF Receipt!Settle, Receipt!Writes

LEMMA ReceiptFaults ==
  ASSUME Receipt!Inductive, NEW p \in Processes, w[p].pc # "idle", Receipt!Fault(p),
         UNCHANGED <<target, data, stale, crashes>>
  PROVE  Receipt!Inductive'
BY ReceiptSettles DEF Receipt!Fault, Results

LEMMA ReceiptQuiet ==
  ASSUME Receipt!Inductive, NEW p \in Processes,
         \/ Receipt!WriteReceipt(p) \/ Receipt!Inspect(p) \/ Receipt!Check(p)
         \/ Receipt!LinkTemp(p) \/ Receipt!Written(p)
  PROVE  Receipt!Inductive'
<1>1. w[p] \in Receipt!WriteState /\ Receipt!OwnTemp(p)
  BY ReceiptFacts
<1>2. CASE Receipt!WriteReceipt(p)
  <2>1. PICK c \in Contents : Receipt!BeginWrite(p, c)
    BY <1>2 DEF Receipt!WriteReceipt
  <2>2. PICK r : r = [Receipt!IdleWrite EXCEPT !.pc = "inspect", !.want = c]
    OBVIOUS
  <2>3. /\ r \in Receipt!WriteState /\ r.pc = "inspect" /\ r.temp = NoInode /\ r.want = c
        /\ r.result = "none"
    BY <2>2, ReceiptIdle
       DEF Receipt!WriteState, Receipt!WriteLabels, Receipt!Results, Receipt!IdleWrite
  <2> QED BY <2>1, <2>2, <2>3, ReceiptLocal DEF Receipt!BeginWrite, Receipt!Writes
<1>3. CASE Receipt!Written(p)
  <2>1. Receipt!IdleWrite.pc = "idle" /\ Receipt!IdleWrite.temp = NoInode
        /\ Receipt!IdleWrite.result = "none"
    BY DEF Receipt!IdleWrite
  <2> QED BY <1>3, <2>1, ReceiptIdle, ReceiptLocal DEF Receipt!Written, Receipt!Writes
<1>4. CASE Receipt!Inspect(p)
  <2>1. PICK r : r = [w[p] EXCEPT !.pc = "create", !.seen = target]
    OBVIOUS
  <2>2. w[p].pc = "inspect" /\ UNCHANGED <<target, data, stale, crashes>>
    BY <1>4 DEF Receipt!Inspect
  <2>3. r \in Receipt!WriteState /\ r.pc = "create" /\ r.temp = w[p].temp /\ r.want = w[p].want
        /\ r.result = w[p].result
    BY <2>1, <1>1, ReceiptFacts DEF Receipt!WriteState, Receipt!WriteLabels
  <2>4. r.temp = NoInode /\ r.want \in Contents /\ r.result = "none"
    BY <1>1, <2>2, <2>3 DEF Receipt!OwnTemp
  <2>5. CASE w' = [w EXCEPT ![p] = r]
    BY <2>2, <2>3, <2>4, <2>5, ReceiptLocal
  <2> QED BY <1>4, <2>1, <2>2, <2>5, ReceiptFaults DEF Receipt!Inspect, Receipt!Writes
<1>5. CASE Receipt!Check(p)
  <2>1. PICK r : r = [w[p] EXCEPT !.pc = "publish"]
    OBVIOUS
  <2>2. w[p].pc = "check" /\ UNCHANGED <<target, data, stale, crashes>>
    BY <1>5 DEF Receipt!Check
  <2>3. r \in Receipt!WriteState /\ r.pc = "publish" /\ r.temp = w[p].temp /\ r.want = w[p].want
        /\ r.result = w[p].result
    BY <2>1, <1>1 DEF Receipt!WriteState, Receipt!WriteLabels
  <2>4. r.want \in Contents /\ r.result = "none"
    BY <1>1, <2>2, <2>3 DEF Receipt!OwnTemp
  <2>5. CASE w' = [w EXCEPT ![p] = r]
    BY <2>2, <2>3, <2>4, <2>5, ReceiptLocal
  <2> QED BY <1>5, <2>1, <2>2, <2>5, ReceiptFaults, ReceiptSettles
          DEF Receipt!Check, Receipt!Writes, Results
<1> QED BY <1>2, <1>3, <1>4, <1>5 DEF Receipt!LinkTemp

LEMMA ReceiptCreates ==
  ASSUME Receipt!Inductive, NEW p \in Processes, Receipt!CreateTemp(p) PROVE Receipt!Inductive'
<1>1. w[p].pc = "create" /\ UNCHANGED <<target, stale, crashes>>
  BY DEF Receipt!CreateTemp
<1>2. ASSUME NEW f \in Inodes, ~Receipt!Named(f), data' = [data EXCEPT ![f] = Torn],
             Receipt!Writes(p, [w[p] EXCEPT !.pc = "fill", !.temp = f])
      PROVE  Receipt!Inductive'
  <2>1. PICK r : r = [w[p] EXCEPT !.pc = "fill", !.temp = f]
    OBVIOUS
  <2>2. /\ r \in Receipt!WriteState /\ r.pc = "fill" /\ r.temp = f /\ r.want = w[p].want
        /\ r.result = w[p].result
    BY <2>1, ReceiptFacts DEF Receipt!WriteState, Receipt!WriteLabels
  <2>3. w' = [w EXCEPT ![p] = r] /\ w'[p] = r /\ \A q \in Processes \ {p} : w'[q] = w[q]
    BY <1>2, <2>1, ReceiptFacts DEF Receipt!Writes
  <2>4. f # target /\ f \notin stale /\ \A q \in Processes : w[q].temp # f
    BY <1>2 DEF Receipt!Named
  <2>5. Receipt!NeverTorn'
    BY <1>1, <1>2, <2>4, ReceiptFacts DEF Receipt!NeverTorn, Receipt!Inductive
  <2>6. Receipt!OwnTemp(p)'
    BY <1>1, <2>2, <2>3, <2>4, ReceiptFacts DEF Receipt!OwnTemp
  <2>7. \A q \in Processes \ {p} :
          w[q].temp \in Inodes => /\ w[q].temp # target /\ w[q].temp \notin stale
                                  /\ data'[w[q].temp] = data[w[q].temp]
    BY <1>2, <2>4, ReceiptFacts DEF Receipt!OwnTemp
  <2>8. data' \in [Inodes -> Contents \cup {Torn}]
    BY <1>2, ReceiptFacts
  <2> QED BY <1>1, <2>2, <2>3, <2>4, <2>5, <2>6, <2>7, <2>8, ReceiptFacts, ReceiptMove
<1> QED BY <1>1, <1>2, ReceiptFaults DEF Receipt!CreateTemp

LEMMA ReceiptFills ==
  ASSUME Receipt!Inductive, NEW p \in Processes, Receipt!Fill(p) PROVE Receipt!Inductive'
<1>1. w[p].pc = "fill" /\ UNCHANGED <<target, stale, crashes>>
  BY DEF Receipt!Fill
<1>2. CASE /\ data' = [data EXCEPT ![w[p].temp] = w[p].want]
           /\ Receipt!Writes(p, [w[p] EXCEPT !.pc = "check"])
  <2>1. PICK r : r = [w[p] EXCEPT !.pc = "check"]
    OBVIOUS
  <2>2. /\ r \in Receipt!WriteState /\ r.pc = "check" /\ r.temp = w[p].temp /\ r.want = w[p].want
        /\ r.result = w[p].result
    BY <2>1, ReceiptFacts DEF Receipt!WriteState, Receipt!WriteLabels
  <2>3. w' = [w EXCEPT ![p] = r] /\ w'[p] = r /\ \A q \in Processes \ {p} : w'[q] = w[q]
    BY <1>2, <2>1, ReceiptFacts DEF Receipt!Writes
  <2>4. /\ r.temp \in Inodes /\ r.temp # target /\ r.temp \notin stale /\ r.want \in Contents
        /\ \A q \in Processes \ {p} : w[q].temp # r.temp
        /\ r.result = "none"
    BY <1>1, <2>2, ReceiptFacts DEF Receipt!OwnTemp
  <2>5. data' = [data EXCEPT ![r.temp] = r.want]
    BY <1>2, <2>2
  <2>6. data' \in [Inodes -> Contents \cup {Torn}] /\ data'[r.temp] = r.want
    BY <2>4, <2>5, ReceiptFacts
  <2>7. Receipt!NeverTorn'
    BY <1>1, <2>4, <2>5, ReceiptFacts DEF Receipt!NeverTorn, Receipt!Inductive
  <2>8. Receipt!OwnTemp(p)'
    BY <1>1, <2>2, <2>3, <2>4, <2>6 DEF Receipt!OwnTemp
  <2>9. \A q \in Processes \ {p} :
          w[q].temp \in Inodes => /\ w[q].temp # target /\ w[q].temp \notin stale
                                  /\ data'[w[q].temp] = data[w[q].temp]
    BY <2>4, <2>5, ReceiptFacts DEF Receipt!OwnTemp
  <2> QED BY <1>1, <2>2, <2>3, <2>4, <2>6, <2>7, <2>8, <2>9, ReceiptFacts, ReceiptMove
<1> QED BY <1>1, <1>2, ReceiptFaults DEF Receipt!Fill

LEMMA ReceiptRenames ==
  ASSUME Receipt!Inductive, NEW p \in Processes, Receipt!RenameTemp(p) PROVE Receipt!Inductive'
<1>1. w[p].pc = "publish" /\ UNCHANGED <<data, stale, crashes>>
  BY DEF Receipt!RenameTemp
<1>2. CASE /\ target' = w[p].temp
           /\ Receipt!Writes(p, [w[p] EXCEPT !.pc = "cleanup", !.temp = NoInode, !.result = "ok"])
  <2>1. PICK r : r = [w[p] EXCEPT !.pc = "cleanup", !.temp = NoInode, !.result = "ok"]
    OBVIOUS
  <2>2. /\ r \in Receipt!WriteState /\ r.pc = "cleanup" /\ r.temp = NoInode
        /\ r.want = w[p].want /\ r.result = "ok"
    BY <2>1, ReceiptFacts DEF Receipt!WriteState, Receipt!WriteLabels, Receipt!Results
  <2>3. w' = [w EXCEPT ![p] = r] /\ w'[p] = r /\ \A q \in Processes \ {p} : w'[q] = w[q]
    BY <1>2, <2>1, ReceiptFacts DEF Receipt!Writes
  <2>4. /\ target' \in Inodes /\ data[target'] = w[p].want /\ w[p].want \in Contents
        /\ \A q \in Processes \ {p} : w[q].temp # target'
    BY <1>1, <1>2, ReceiptFacts DEF Receipt!OwnTemp
  <2>5. Receipt!NeverTorn' /\ Receipt!OwnTemp(p)'
    BY <1>1, <2>2, <2>3, <2>4, InodeAssumption DEF Receipt!NeverTorn, Receipt!OwnTemp
  <2>6. \A q \in Processes \ {p} :
          w[q].temp \in Inodes => w[q].temp \notin stale /\ w[q].temp # r.temp
    BY <2>2, InodeAssumption, ReceiptFacts DEF Receipt!OwnTemp
  <2> QED BY <1>1, <2>2, <2>3, <2>4, <2>5, <2>6, ReceiptFacts, ReceiptMove
<1> QED BY <1>1, <1>2, ReceiptFaults DEF Receipt!RenameTemp

\* The process leaves its temporary file behind, or has none any more.
LEMMA ReceiptLeaves ==
  ASSUME Receipt!Inductive, NEW p \in Processes, NEW r \in Receipt!WriteState,
         w' = [w EXCEPT ![p] = r], UNCHANGED <<target, data>>,
         crashes' \in 0..MaxCrashes,
         r.temp = NoInode, r.pc \in {"idle", "done"},
         r.pc = "idle" => r.result = "none", r.pc = "done" => r.want \in Contents,
         \/ stale' = stale
         \/ w[p].temp # NoInode /\ stale' = stale \cup {w[p].temp}
  PROVE  Receipt!Inductive'
<1>1. w'[p] = r
  BY ReceiptFacts
<1>2. Receipt!NeverTorn' /\ Receipt!OwnTemp(p)'
  BY <1>1, InodeAssumption DEF Receipt!NeverTorn, Receipt!OwnTemp, Receipt!Inductive
<1>3. \A q \in Processes \ {p} :
        w[q].temp \in Inodes => /\ w[q].temp # target /\ w[q].temp \notin stale'
                                /\ w[q].temp # r.temp
  <2>1. ASSUME NEW q \in Processes \ {p}, w[q].temp \in Inodes
        PROVE  w[q].temp # target /\ w[q].temp \notin stale /\ w[q].temp # w[p].temp
    BY <2>1, ReceiptFacts DEF Receipt!OwnTemp
  <2> QED BY <2>1, InodeAssumption
<1>4. stale' \subseteq Inodes
  <2>1. w[p].temp \in Inodes \cup {NoInode}
    BY ReceiptFacts DEF Receipt!WriteState
  <2> QED BY <2>1, ReceiptFacts
<1>5. target' \in Inodes \cup {NoInode} /\ data' \in [Inodes -> Contents \cup {Torn}]
  BY ReceiptFacts
<1> QED BY <1>2, <1>3, <1>4, <1>5, ReceiptMove

LEMMA ReceiptEnds ==
  ASSUME Receipt!Inductive, NEW p \in Processes, Receipt!Cleanup(p) \/ Receipt!Crash(p)
  PROVE  Receipt!Inductive'
<1>1. CASE Receipt!Cleanup(p)
  <2>1. PICK r : r = [w[p] EXCEPT !.pc = "done", !.temp = NoInode]
    OBVIOUS
  <2>2. /\ r \in Receipt!WriteState /\ r.pc = "done" /\ r.temp = NoInode /\ r.want = w[p].want
    BY <2>1, ReceiptFacts DEF Receipt!WriteState, Receipt!WriteLabels
  <2>3. r.want \in Contents /\ crashes' \in 0..MaxCrashes
    BY <1>1, <2>2, ReceiptFacts DEF Receipt!OwnTemp, Receipt!Cleanup
  <2> QED BY <1>1, <2>1, <2>2, <2>3, ReceiptLeaves DEF Receipt!Cleanup, Receipt!Writes
<1>2. CASE Receipt!Crash(p)
  <2>1. Receipt!IdleWrite.pc = "idle" /\ Receipt!IdleWrite.temp = NoInode
        /\ Receipt!IdleWrite.result = "none"
    BY DEF Receipt!IdleWrite
  <2>2. crashes' \in 0..MaxCrashes
    BY <1>2, ReceiptFacts, MetadataAssumption DEF Receipt!Crash, Receipt!CrashWrite
  <2>3. PICK r : r = Receipt!IdleWrite
    OBVIOUS
  <2> QED BY <1>2, <2>1, <2>2, <2>3, ReceiptIdle, ReceiptLeaves
          DEF Receipt!Crash, Receipt!CrashWrite, Receipt!Writes
<1> QED BY <1>1, <1>2

LEMMA ReceiptRemoved ==
  ASSUME Receipt!Inductive, NEW p \in Processes, Receipt!RemoveReceipt(p)
  PROVE  Receipt!Inductive'
<1>1. target' = NoInode /\ UNCHANGED <<data, w, stale, crashes>>
  BY DEF Receipt!RemoveReceipt
<1>2. Receipt!TypeOK' /\ Receipt!NeverTorn'
  BY <1>1, InodeAssumption, ReceiptFacts DEF Receipt!TypeOK, Receipt!FileTypeOK, Receipt!NeverTorn
<1>3. \A q \in Processes : Receipt!OwnTemp(q)'
  BY <1>1, InodeAssumption, ReceiptFacts DEF Receipt!OwnTemp
<1> QED BY <1>2, <1>3 DEF Receipt!Inductive

LEMMA ReceiptInitial == Receipt!FileInit => Receipt!Inductive
<1> SUFFICES ASSUME Receipt!FileInit PROVE Receipt!Inductive
  OBVIOUS
<1>1. Receipt!TypeOK
  BY ReceiptIdle, MetadataAssumption DEF Receipt!FileInit, Receipt!TypeOK, Receipt!FileTypeOK
<1>2. Receipt!NeverTorn /\ \A p \in Processes : Receipt!OwnTemp(p)
  BY InodeAssumption DEF Receipt!FileInit, Receipt!NeverTorn, Receipt!OwnTemp, Receipt!IdleWrite
<1> QED BY <1>1, <1>2 DEF Receipt!Inductive

LEMMA ReceiptNext ==
  Receipt!Inductive /\ [Receipt!Next]_(Receipt!fileVars) => Receipt!Inductive'
<1> SUFFICES ASSUME Receipt!Inductive, [Receipt!Next]_(Receipt!fileVars) PROVE Receipt!Inductive'
  OBVIOUS
<1>1. ASSUME NEW p \in Processes,
             \/ Receipt!WriteReceipt(p) \/ Receipt!Writing(p) \/ Receipt!Written(p)
             \/ Receipt!RemoveReceipt(p) \/ Receipt!Crash(p)
      PROVE  Receipt!Inductive'
  BY <1>1, ReceiptQuiet, ReceiptCreates, ReceiptFills, ReceiptRenames, ReceiptEnds, ReceiptRemoved
     DEF Receipt!Writing, Receipt!WriteStep
<1>2. CASE UNCHANGED Receipt!fileVars
  BY <1>2 DEF Receipt!fileVars, Receipt!Inductive, Receipt!TypeOK, Receipt!FileTypeOK,
     Receipt!NeverTorn, Receipt!OwnTemp
<1> QED BY <1>1, <1>2 DEF Receipt!Next

\* Any number of processes that write and remove the receipt: each temporary
\* file has one owner and is whole when it becomes the receipt.
THEOREM ReceiptInvariance == Receipt!Spec => []Receipt!Inductive
BY ReceiptInitial, ReceiptNext, PTL DEF Receipt!Spec

\* A reader never finds a torn receipt.
THEOREM ReceiptNeverTorn == Receipt!Spec => []Receipt!NeverTorn
<1>1. Receipt!Inductive => Receipt!NeverTorn
  BY DEF Receipt!Inductive
<1> QED BY <1>1, ReceiptInvariance, PTL

\* The receipt changes only as a whole, and what is there afterwards is what
\* the process that reports success was asked to write.
THEOREM ReceiptReplacedWhole == Receipt!Spec => Receipt!OnlyWholeReplacements
<1> DEFINE Whole ==
      /\ target' = target /\ ~Receipt!Absent => data'[target] = data[target]
      /\ target' \notin {target, NoInode} =>
           \E p \in Processes :
             /\ w'[p].result = "ok" /\ w[p].result = "none"
             /\ data'[target'] = w[p].want
<1>1. ASSUME Receipt!Inductive, Receipt!Next PROVE Whole
  <2>1. PICK p \in Processes :
             \/ Receipt!WriteReceipt(p) \/ Receipt!Writing(p) \/ Receipt!Written(p)
             \/ Receipt!RemoveReceipt(p) \/ Receipt!Crash(p)
    BY <1>1 DEF Receipt!Next
  <2>2. CASE UNCHANGED <<target, data>>
    BY <2>2
  <2>3. CASE Receipt!CreateTemp(p)
    BY <1>1, <2>3, ReceiptFacts DEF Receipt!CreateTemp, Receipt!Named, Receipt!Absent
  <2>4. CASE Receipt!Fill(p)
    BY <1>1, <2>4, ReceiptFacts DEF Receipt!Fill, Receipt!OwnTemp, Receipt!Absent
  <2>5. CASE Receipt!RenameTemp(p)
    <3>1. CASE /\ target' = w[p].temp
               /\ Receipt!Writes(p, [w[p] EXCEPT !.pc = "cleanup", !.temp = NoInode,
                                                 !.result = "ok"])
      <4>1. w'[p].result = "ok"
        BY <1>1, <3>1, ReceiptFacts DEF Receipt!Writes, Receipt!WriteState
      <4>2. w[p].result = "none" /\ data[w[p].temp] = w[p].want /\ data' = data
        BY <1>1, <2>5, ReceiptFacts DEF Receipt!RenameTemp, Receipt!OwnTemp
      <4> QED BY <3>1, <4>1, <4>2
    <3> QED BY <2>2, <2>5, <3>1 DEF Receipt!RenameTemp
  <2>6. CASE Receipt!RemoveReceipt(p)
    BY <2>6 DEF Receipt!RemoveReceipt, Receipt!Absent
  <2> QED BY <2>1, <2>2, <2>3, <2>4, <2>5, <2>6
          DEF Receipt!WriteReceipt, Receipt!BeginWrite, Receipt!Writing, Receipt!WriteStep,
              Receipt!Inspect, Receipt!Check, Receipt!LinkTemp, Receipt!Cleanup,
              Receipt!Written, Receipt!Crash, Receipt!CrashWrite
<1> QED BY <1>1, ReceiptInvariance, PTL DEF Receipt!Spec, Receipt!OnlyWholeReplacements
=============================================================================
