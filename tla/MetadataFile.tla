----------------------------- MODULE MetadataFile -----------------------------
(***************************************************************************)
(* internal/metadatafile: one named file below .agx, written by several    *)
(* processes through temporary files in the same directory.                *)
(*                                                                         *)
(* A name is bound to an inode, an inode has contents.  os.SameFile only   *)
(* compares inodes, and an inode nothing names any more can be given to    *)
(* the next file that is created.  WriteFileAtomic is one action per       *)
(* system call that other processes can see: the two Lstats, the creation  *)
(* of the temporary file, its contents, and the link or rename that        *)
(* publishes it.  The .agx directory is created on the way (MkdirAll is    *)
(* idempotent and nobody removes it), so it has no state here.             *)
(***************************************************************************)
EXTENDS Naturals, FiniteSets

CONSTANTS
  Processes,
  Inodes,        \* enough for the name and every temporary file
  Contents,      \* what may be written
  NoInode,       \* the name does not exist
  Torn,          \* what an incompletely written file holds
  RequireAbsent, \* TRUE: create only (Link), FALSE: replace (Rename)
  Faulty,        \* processes whose system calls may fail for other reasons
  MaxCrashes     \* bound on the number of crashes

ASSUME InodeAssumption == NoInode \notin Inodes
ASSUME TornAssumption  == Torn \notin Contents
ASSUME MetadataAssumption ==
  /\ RequireAbsent \in BOOLEAN
  /\ Faulty \subseteq Processes
  /\ MaxCrashes \in Nat

VARIABLES
  target,  \* the inode the name is bound to
  data,    \* data[f]: contents of inode f
  w,       \* w[p]: the locals of WriteFileAtomic in process p
  stale,   \* inodes of temporary files that processes left behind
  crashes

fileVars == <<target, data, w, stale, crashes>>

WriteLabels == {"idle", "inspect", "create", "fill", "check", "publish",
                "cleanup", "done"}
Results == {"none", "ok", "exists", "changed", "error"}
WriteState ==
  [pc: WriteLabels, seen: Inodes \cup {NoInode},
   temp: Inodes \cup {NoInode}, want: Contents \cup {Torn}, result: Results]
IdleWrite ==
  [pc |-> "idle", seen |-> NoInode, temp |-> NoInode, want |-> Torn,
   result |-> "none"]

FileTypeOK ==
  /\ target \in Inodes \cup {NoInode}
  /\ data \in [Inodes -> Contents \cup {Torn}]
  /\ w \in [Processes -> WriteState]
  /\ stale \subseteq Inodes
  /\ crashes \in 0..MaxCrashes

FileInit ==
  /\ target = NoInode
  /\ data = [f \in Inodes |-> Torn]
  /\ w = [p \in Processes |-> IdleWrite]
  /\ stale = {}
  /\ crashes = 0

-----------------------------------------------------------------------------
Named(f) == f = target \/ f \in stale \/ \E p \in Processes : w[p].temp = f

\* The file the name is bound to, for a process that opens it.
Absent == target = NoInode
Holds(c) == target \in Inodes /\ data[target] = c

Writes(p, r) == w' = [w EXCEPT ![p] = r]

\* The result is settled; the deferred Remove of the temporary file is next.
Settle(p, result) ==
  Writes(p, [w[p] EXCEPT !.pc = "cleanup", !.result = result])

Fault(p) == p \in Faulty /\ Settle(p, "error")

-----------------------------------------------------------------------------
(* WriteFileAtomic(data = c).                                              *)

BeginWrite(p, c) ==
  /\ w[p].pc = "idle"
  /\ Writes(p, [IdleWrite EXCEPT !.pc = "inspect", !.want = c])
  /\ UNCHANGED <<target, data, stale, crashes>>

\* The first Lstat.
Inspect(p) ==
  /\ w[p].pc = "inspect"
  /\ \/ /\ ~(RequireAbsent /\ ~Absent)
        /\ Writes(p, [w[p] EXCEPT !.pc = "create", !.seen = target])
     \/ RequireAbsent /\ ~Absent /\ Settle(p, "exists")
     \/ Fault(p)
  /\ UNCHANGED <<target, data, stale, crashes>>

\* Mistaken: all processes use one temporary name, and truncate it.
CreateTempShared(p) ==
  /\ w[p].pc = "create"
  /\ \E f \in Inodes \ (stale \cup {target}) :
       /\ \A q \in Processes : w[q].temp \in {f, NoInode}
       /\ Writes(p, [w[p] EXCEPT !.pc = "fill", !.temp = f])
       /\ data' = [data EXCEPT ![f] = Torn]
  /\ UNCHANGED <<target, stale, crashes>>

\* O_CREATE | O_EXCL under a fresh name; the inode may be a recycled one.
CreateTemp(p) ==
  /\ w[p].pc = "create"
  /\ \/ \E f \in Inodes :
          /\ ~Named(f)
          /\ Writes(p, [w[p] EXCEPT !.pc = "fill", !.temp = f])
          /\ data' = [data EXCEPT ![f] = Torn]
     \/ Fault(p) /\ UNCHANGED data
  /\ UNCHANGED <<target, stale, crashes>>

\* Write, Sync and Close.
Fill(p) ==
  /\ w[p].pc = "fill"
  /\ \/ /\ data' = [data EXCEPT ![w[p].temp] = w[p].want]
        /\ Writes(p, [w[p] EXCEPT !.pc = "check"])
     \/ Fault(p) /\ UNCHANGED data
  /\ UNCHANGED <<target, stale, crashes>>

\* The second Lstat: the name must still be bound to what it was bound to.
Check(p) ==
  /\ w[p].pc = "check"
  /\ \/ target = w[p].seen /\ Writes(p, [w[p] EXCEPT !.pc = "publish"])
     \/ target # w[p].seen /\ Settle(p, "changed")
     \/ Fault(p)
  /\ UNCHANGED <<target, data, stale, crashes>>

\* Mistaken: the file replaces whatever has the name.
LinkReplaces(p) ==
  /\ w[p].pc = "publish" /\ RequireAbsent
  /\ target' = w[p].temp /\ Settle(p, "ok")
  /\ UNCHANGED <<data, stale, crashes>>

\* A hard link is refused if the name exists.
LinkTemp(p) ==
  /\ w[p].pc = "publish" /\ RequireAbsent
  /\ \/ Absent /\ target' = w[p].temp /\ Settle(p, "ok")
     \/ ~Absent /\ target' = target /\ Settle(p, "exists")
     \/ target' = target /\ Fault(p)
  /\ UNCHANGED <<data, stale, crashes>>

\* A rename takes the name, whatever it is bound to.
RenameTemp(p) ==
  /\ w[p].pc = "publish" /\ ~RequireAbsent
  /\ \/ /\ target' = w[p].temp
        /\ Writes(p, [w[p] EXCEPT !.pc = "cleanup", !.temp = NoInode,
                                  !.result = "ok"])
     \/ target' = target /\ Fault(p)
  /\ UNCHANGED <<data, stale, crashes>>

\* The deferred Remove of the temporary name.  Its error is ignored.
Cleanup(p) ==
  /\ w[p].pc = "cleanup"
  /\ Writes(p, [w[p] EXCEPT !.pc = "done", !.temp = NoInode])
  /\ \/ stale' = stale
     \/ /\ p \in Faulty /\ w[p].temp # NoInode
        /\ stale' = stale \cup {w[p].temp}
  /\ UNCHANGED <<target, data, crashes>>

WriteStep(p) ==
  \/ Inspect(p) \/ CreateTemp(p) \/ Fill(p) \/ Check(p)
  \/ LinkTemp(p) \/ RenameTemp(p) \/ Cleanup(p)

\* The process dies; its temporary file stays.
CrashWrite(p) ==
  /\ crashes < MaxCrashes
  /\ Writes(p, IdleWrite)
  /\ stale' = IF w[p].temp = NoInode THEN stale ELSE stale \cup {w[p].temp}
  /\ crashes' = crashes + 1
  /\ UNCHANGED <<target, data>>

-----------------------------------------------------------------------------
(* Properties of the file itself.                                          *)

\* A reader that opens the name never finds an empty or half-written file:
\* it is published only after Write, Sync and Close.
NeverTorn == target \in Inodes => data[target] \in Contents

=============================================================================
