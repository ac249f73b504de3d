----------------------------- MODULE ReceiptFile -----------------------------
(***************************************************************************)
(* The initialization receipt of internal/activation as a file: writeReceipt*)
(* replaces it (WriteFileAtomic without requireAbsent) and uninitializing  *)
(* removes it (RemoveFile), from several processes.                        *)
(***************************************************************************)
EXTENDS MetadataFile

ASSUME ReceiptAssumption == RequireAbsent = FALSE

WriteReceipt(p) == \E c \in Contents : BeginWrite(p, c)

\* WriteFileAtomic, without requireAbsent.
Writing(p) == w[p].pc # "idle" /\ WriteStep(p)

\* writeReceipt returns.
Written(p) ==
  /\ w[p].pc = "done"
  /\ Writes(p, IdleWrite)
  /\ UNCHANGED <<target, data, stale, crashes>>

\* RemoveFile: one unlink.  It fails if there is no receipt.
RemoveReceipt(p) ==
  /\ w[p].pc = "idle" /\ ~Absent
  /\ target' = NoInode
  /\ UNCHANGED <<data, w, stale, crashes>>

Crash(p) == w[p].pc # "idle" /\ CrashWrite(p)

Next ==
  \E p \in Processes :
    WriteReceipt(p) \/ Writing(p) \/ Written(p) \/ RemoveReceipt(p) \/ Crash(p)

Spec == FileInit /\ [][Next]_fileVars

-----------------------------------------------------------------------------
TypeOK == FileTypeOK

\* A write that reports an error has not touched the receipt, and one that
\* reports success has put its own contents there: between the two, the
\* receipt only ever changes by the rename and by the removal.
OnlyWholeReplacements ==
  [][/\ target' = target /\ ~Absent => data'[target] = data[target]
     /\ target' \notin {target, NoInode} =>
          \E p \in Processes :
            /\ w'[p].result = "ok" /\ w[p].result = "none"
            /\ data'[target'] = w[p].want]_fileVars

\* Why it holds.  A temporary file has one owner and is not the receipt, and
\* when its owner looks at the name again it is filled.
OwnTemp(p) ==
  LET r == w[p] IN
  /\ r.pc \in {"idle", "inspect", "create"} => r.temp = NoInode
  /\ r.pc \in {"fill", "check", "publish"} => r.temp \in Inodes
  /\ r.temp \in Inodes =>
       /\ r.temp # target /\ r.temp \notin stale
       /\ \A q \in Processes \ {p} : w[q].temp # r.temp
  /\ r.pc # "idle" => r.want \in Contents
  /\ r.pc \in {"check", "publish"} => data[r.temp] = r.want
  /\ r.pc \notin {"cleanup", "done"} => r.result = "none"

Inductive ==
  /\ TypeOK
  /\ NeverTorn
  /\ \A p \in Processes : OwnTemp(p)
=============================================================================
