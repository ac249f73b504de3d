------------------------- MODULE InitializationProofs -------------------------
(***************************************************************************)
(* Proofs about Initialization, for any providers, plugins, failures,      *)
(* crashes and acts of the user.                                           *)
(***************************************************************************)
EXTENDS Initialization, TLAPS

-----------------------------------------------------------------------------
(* What a command is about.                                                *)

Preparing  == {"verify", "preflight", "check_project", "check_providers"}
Mutating   == {"create", "readback", "enable", "inspect"}
Creating   == {"repositories", "save_repository"} \cup Mutating
Linking    == {"project", "create_project", "find_project", "journal", "confirm", "edit",
               "read_edit", "link", "read_link", "recheck"}
Adding     == {"activate", "check_activation", "finish"}
TakingBack == {"compensate", "take_back", "take_market", "read_back", "settle"}
Undoing    == {"check_sources", "undo", "undo_market", "undo_check", "remove_receipt"}

\* Where the receipt in memory has the claims of the one on the disk.
Agreeing == Preparing \cup {"first_write", "confirm_all", "succeed"} \cup Creating
            \cup Linking \cup Adding \cup Undoing

\* What is so at pc is so in the journal before it, unless the command fails.
Reaches(pc) == cmd.pc = pc \/ (cmd.pc = "journal" /\ ~cmd.err /\ cmd.next = pc)

PhaseInv ==
  /\ cmd.pc = "idle" => mem = NoReceipt
  /\ cmd.pc = "verify" => mem = file
  /\ cmd.pc \in Preparing => mem.phase = file.phase /\ mem.project = file.project
  /\ cmd.pc = "first_write" => file = NoReceipt /\ mem.phase = "provisioning"
  /\ cmd.pc \in Creating \cup Linking \cup Adding \cup {"intend"} => mem.phase # "absent"
  /\ cmd.pc \in Creating \cup Linking => mem.phase # "initialized"
  /\ cmd.pc \in {"confirm_all", "succeed"} => file.phase = "initialized"
                                              /\ mem.project = file.project
  /\ cmd.pc = "intend" => mem.phase = "provisioning"
  /\ cmd.pc = "finish" => mem.phase = "initialized"
  /\ cmd.pc = "save_failure" => mem.phase \in {"needs_resume", "needs_manual_cleanup"}

\* A Project is recorded, and linked.
Linked(receipt) == receipt.project.id \in Ids /\ receipt.project.linked

\* What there is to do, and what it is done to.
PlaceInv ==
  /\ cmd.pc \in Mutating => Missing # {}
  /\ cmd.pc \in Mutating \ {"create"} => cmd.commit # 0
  /\ cmd.pc \in Linking \cup Adding \cup {"intend"} => Missing = {}
  /\ cmd.pc = "create_project" => OnGitHub = {}
  /\ cmd.pc \in {"confirm", "edit", "read_edit", "link", "read_link", "journal"} =>
       mem.project.id \in Ids
  /\ cmd.pc = "journal" => cmd.next \in {"confirm", "link", "recheck"}
  /\ Reaches("recheck") \/ cmd.pc \in Adding \cup {"intend"} => Linked(mem)
  /\ cmd.pc \in Adding \cup {"intend"} => Len(mem.providers) = Len(Providers)
  /\ cmd.pc \in (TakingBack \ {"settle"}) \cup {"undo", "undo_market", "undo_check"} =>
       cmd.at \in 1..Len(mem.providers)
  /\ cmd.pc \in {"settle", "remove_receipt"} => cmd.at = 0

-----------------------------------------------------------------------------
(* What AGX has added is claimed, and what the user had is not.            *)

Ours   == {t \in Things : Who(t) = "agx"}
Theirs == {t \in Things : Who(t) = "user"}
\* What AGX has added and has not given up.
Kept   == Ours \ given

ClaimsInv ==
  /\ given \subseteq {t \in Things : t[1] > 1}
  /\ Claims(file) \cap Theirs = {} /\ Claims(mem) \cap Theirs = {}
  /\ Kept \subseteq Claims(file)
  /\ cmd.pc \in Agreeing => mem.providers = file.providers
  /\ cmd.pc = "intend" => Claims(file) \subseteq Claims(mem)
  /\ cmd.pc \in TakingBack \cup {"save_failure"} =>
       Claims(mem) \subseteq Claims(file) /\ Kept \subseteq Claims(mem)
  \* The providers after the one at hand are done with.
  /\ (cmd.pc \in TakingBack /\ ~cmd.err) \/ cmd.pc \in Undoing \ {"check_sources"} =>
       \A t \in Kept : t[1] <= cmd.at
  /\ cmd.pc \in {"intend", "activate", "take_back", "undo"} => cmd.left \subseteq Claims(mem)

-----------------------------------------------------------------------------
(* While the user keeps away from it, what has been read remains so.       *)

Done == [there |-> TRUE, right |-> TRUE, linked |-> TRUE]
Deployed(receipt) ==
  /\ \A r \in Repos : RepoVerifies(r, receipt.repos[r])
  /\ receipt.project.id \in Ids /\ receipt.project.right /\ receipt.project.linked
  /\ projects[receipt.project.id] = Done
Verified(receipt) ==
  \A r \in Repos : receipt.repos[r] # NoEntry => RepoVerifies(r, receipt.repos[r])
\* An entry in memory is the one on the disk, or this one was not sure and is
\* not there.
SameRepos == \A r \in Repos :
  \/ mem.repos[r] = file.repos[r]
  \/ mem.repos[r] = NoEntry /\ ~file.repos[r].sure /\ ~There(r)

KnownInv ==
  /\ cmd.pc \in (Preparing \ {"verify"}) \cup {"first_write", "confirm_all", "succeed"}
                \cup Creating \cup Linking => Verified(mem)
  /\ cmd.pc \in (Preparing \ {"verify"}) \cup {"confirm_all", "succeed"} => SameRepos
  /\ cmd.pc \in {"confirm_all", "succeed"} \/ (cmd.pc = "check_providers"
       /\ mem.phase = "initialized") => ProjectVerifies(mem.project)
  /\ cmd.pc = "edit" => ProjectRevalidates(mem.project)
  /\ Reaches("link") \/ cmd.pc = "read_link" => projects[mem.project.id].right
  /\ Reaches("recheck") \/ cmd.pc \in Adding \cup {"intend"} => Deployed(mem)
  /\ cmd.pc \in {"finish", "succeed"} => ~Problems(mem)

\* calm: since the command began.
WorldInv ==
  /\ calm => KnownInv
  /\ file.phase = "initialized" => Linked(file)
  /\ meddles = 0 => calm /\ (file.phase = "initialized" => file.project.right)

Inductive == TypeOK /\ PhaseInv /\ PlaceInv /\ ClaimsInv /\ WorldInv

-----------------------------------------------------------------------------
(* Receipts and their claims.                                              *)

LEMMA Lengths ==
  /\ Len(Providers) \in Nat /\ Len(Providers) >= 1 /\ P = 1..Len(Providers)
  /\ \A receipt \in Receipt :
       /\ Len(receipt.providers) \in 0..Len(Providers)
       /\ receipt.providers \in Seq(Ownership)
       /\ receipt.providers \in [1..Len(receipt.providers) -> Ownership]
<1>1. Len(Providers) \in Nat /\ Len(Providers) >= 1 /\ P = 1..Len(Providers)
  BY ProvisioningAssumption DEF P
<1>2. ASSUME NEW receipt \in Receipt
      PROVE  /\ Len(receipt.providers) \in 0..Len(Providers)
             /\ receipt.providers \in Seq(Ownership)
             /\ receipt.providers \in [1..Len(receipt.providers) -> Ownership]
  <2>1. PICK n \in 0..Len(Providers) : receipt.providers \in [1..n -> Ownership]
    BY DEF Receipt
  <2>2. n \in Nat /\ receipt.providers \in Seq(Ownership)
    BY <1>1, <2>1
  <2>3. Len(receipt.providers) = n
    BY <2>1, <2>2
  <2> QED BY <2>1, <2>2, <2>3
<1> QED BY <1>1, <1>2

LEMMA NoReceiptIs ==
  /\ NoReceipt \in Receipt /\ NoReceipt.phase = "absent" /\ NoReceipt.providers = <<>>
  /\ \A r \in Repos : NoReceipt.repos[r] = NoEntry
  /\ NoReceipt.project = NoProject
<1>1. <<>> \in [1..0 -> Ownership] /\ 0 \in 0..Len(Providers)
  BY Lengths
<1>2. <<>> \in UNION {[1..n -> Ownership] : n \in 0..Len(Providers)}
  BY <1>1
<1>3. NoEntry \in RepoEntry /\ NoProject \in ProjectEntry
  BY DEF NoEntry, RepoEntry, NoProject, ProjectEntry, Ids
<1> QED BY <1>2, <1>3 DEF NoReceipt, Receipt

LEMMA ClaimsOf ==
  /\ \A a, b \in Receipt : a.providers = b.providers => Claims(a) = Claims(b)
  /\ \A a \in Receipt : a.providers = <<>> => Claims(a) = {}
  /\ \A a \in Receipt : Claims(a) \subseteq Things
<1>1. \A a, b \in Receipt : a.providers = b.providers => Claims(a) = Claims(b)
  BY DEF Claims
<1>2. ASSUME NEW a \in Receipt, a.providers = <<>> PROVE Claims(a) = {}
  <2>1. Len(a.providers) = 0
    BY <1>2
  <2>2. \A t \in Things : t[1] \in P /\ ~(t[1] <= 0)
    BY Lengths DEF Things
  <2> QED BY <2>1, <2>2 DEF Claims
<1>3. \A a \in Receipt : Claims(a) \subseteq Things
  BY DEF Claims
<1> QED BY <1>1, <1>2, <1>3

-----------------------------------------------------------------------------
(* What the steps have in common.                                          *)

FileOK == file \in Receipt /\ (file # NoReceipt => file.phase # "absent" /\ Valid(file))
GitHubOK == repo \in [Repos -> Repo] /\ projects \in [Ids -> Project]
BoundsOK == /\ faults \in 0..MaxFaults /\ crashes \in 0..MaxCrashes
            /\ meddles \in 0..MaxMeddles /\ uninits \in 0..MaxUninits /\ calm \in BOOLEAN
ProvidedOK == market \in [P -> Markets] /\ plugin \in [P -> [Plugins -> States]]

LEMMA Faulty == ASSUME Inductive, Fault \/ Fine PROVE faults' \in 0..MaxFaults
BY ProvisioningAssumption DEF Inductive, TypeOK, Fault, Fine

LEMMA IdleIs == Idle \in Commands /\ Idle.pc = "idle"
<1>1. {} \in SUBSET Things /\ 0 \in 0..Len(Providers)
  BY Lengths
<1> QED BY <1>1 DEF Idle, Commands, Pcs, Commits

\* A command ends.
LEMMA ExitKeeps ==
  ASSUME Inductive, Exit, GitHubQuiet, FileOK', BoundsOK', ProvidedOK',
         UNCHANGED <<meddles, calm, given>>, Theirs' \subseteq Theirs,
         file'.phase = "initialized" => file' = file,
         Claims(file') \cap Theirs = {}, Kept' \subseteq Claims(file')
  PROVE  Inductive'
<1>1. cmd' = Idle /\ cmd'.pc = "idle" /\ mem' = NoReceipt /\ mem' \in Receipt
      /\ Claims(mem') = {} /\ cmd' \in Commands
  BY IdleIs, NoReceiptIs, ClaimsOf DEF Exit
<1>2. TypeOK'
  BY <1>1 DEF TypeOK, GitHubQuiet, FileOK, BoundsOK, ProvidedOK, Inductive
<1>3. PhaseInv' /\ PlaceInv'
  BY <1>1 DEF PhaseInv, PlaceInv, Reaches, Linked, Preparing, Creating, Mutating, Linking, Adding,
     TakingBack
<1>4. ClaimsInv'
  BY <1>1 DEF Inductive, ClaimsInv, Agreeing, Preparing, Creating, Mutating, Linking, Adding,
     TakingBack, Undoing
<1>5. WorldInv'
  <2>1. KnownInv'
    BY <1>1 DEF KnownInv, Reaches, Preparing, Creating, Mutating, Linking, Adding
  <2> QED BY <2>1 DEF Inductive, WorldInv, Linked
<1> QED BY <1>2, <1>3, <1>4, <1>5 DEF Inductive

\* What no step of a command undoes: a repository or a Project that is as it
\* should be.
Better ==
  /\ \A r \in Repos : \A entry : RepoVerifies(r, entry) => RepoVerifies(r, entry)'
  /\ \A i \in Ids : projects[i] = Done => projects'[i] = Done

LEMMA QuietIsBetter == ASSUME GitHubQuiet PROVE Better
BY DEF GitHubQuiet, Better, RepoVerifies, There, Template

LEMMA StillVerified ==
  ASSUME Better, mem'.repos = mem.repos, Verified(mem) PROVE Verified(mem)'
BY DEF Better, Verified

\* A step on GitHub, before the providers.
OnGitHubPcs == Preparing \cup Creating \cup Linking
LEMMA GitHubKeeps ==
  ASSUME Inductive, UNCHANGED <<provided, uninits, crashes, meddles, calm, given>>, Fault \/ Fine,
         cmd.pc \in OnGitHubPcs \cup {"first_write", "confirm_all"},
         cmd' \in Commands,
         cmd'.pc \in OnGitHubPcs \cup {"first_write", "confirm_all", "save_failure", "succeed"},
         GitHubOK', FileOK', mem' \in Receipt, mem'.providers = mem.providers,
         file' = file \/ (file'.providers = mem.providers
                            /\ file'.phase # "initialized"),
         PhaseInv', PlaceInv', Better, calm => KnownInv'
  PROVE  Inductive'
<1>1. faults' \in 0..MaxFaults
  BY Faulty
<1>2. TypeOK'
  BY <1>1 DEF TypeOK, GitHubOK, FileOK, Inductive, provided
<1>3. mem.providers = file.providers /\ file'.providers = file.providers
  BY DEF Inductive, ClaimsInv, Agreeing, OnGitHubPcs
<1>4. ClaimsInv'
  <2>1. /\ mem \in Receipt /\ file \in Receipt /\ mem' \in Receipt /\ file' \in Receipt
        /\ ClaimsInv
    BY DEF Inductive, TypeOK, FileOK
  <2>2. Claims(file') = Claims(file) /\ Claims(mem') = Claims(file) /\ Claims(mem) = Claims(file)
    BY <1>3, <2>1, ClaimsOf
  <2>3. Theirs' = Theirs /\ Kept' = Kept /\ given' = given
    BY DEF Theirs, Kept, Ours, Who, provided
  <2>4. cmd'.pc \notin TakingBack \cup Undoing \cup {"intend", "activate"}
    BY DEF OnGitHubPcs, Preparing, Creating, Mutating, Linking, TakingBack, Undoing
  <2>5. cmd'.pc \notin {"take_back", "undo"}
    BY <2>4 DEF TakingBack, Undoing
  <2> QED BY <1>3, <2>1, <2>2, <2>3, <2>4, <2>5 DEF ClaimsInv
<1>5. WorldInv'
  BY DEF Inductive, WorldInv, Linked
<1> QED BY <1>2, <1>4, <1>5 DEF Inductive

\* A step on GitHub that fails, and leaves m as its recovery receipt.
LEMMA FailKeeps ==
  ASSUME Inductive, UNCHANGED <<provided, uninits, crashes, meddles, calm, given>>, Fault \/ Fine,
         cmd.pc \in Creating \cup Linking, GitHubQuiet, FileOK',
         file' = file \/ (file'.providers = mem.providers
                            /\ file'.phase # "initialized"),
         NEW m \in Receipt, m.providers = mem.providers,
         mem' = [m EXCEPT !.phase = "needs_resume"],
         cmd' = [cmd EXCEPT !.pc = "save_failure"]
  PROVE  Inductive'
<1>1. /\ mem' \in Receipt /\ mem'.providers = mem.providers /\ mem'.phase = "needs_resume"
      /\ GitHubOK'
  BY DEF Receipt, Phases, GitHubQuiet, Inductive, TypeOK, GitHubOK
<1>2. cmd' \in Commands /\ cmd'.pc = "save_failure"
  BY DEF Inductive, TypeOK, Commands, Pcs
<1>3. PhaseInv' /\ PlaceInv'
  BY <1>1, <1>2 DEF PhaseInv, PlaceInv, Reaches, Linked, Preparing, Creating, Mutating, Linking, Adding, TakingBack
<1>4. KnownInv'
  BY <1>2 DEF KnownInv, Reaches, Preparing, Creating, Mutating, Linking, Adding
<1> QED BY <1>1, <1>2, <1>3, <1>4, QuietIsBetter, GitHubKeeps DEF OnGitHubPcs

\* A step on GitHub that ends the command.
LEMMA LeaveKeeps ==
  ASSUME Inductive, UNCHANGED <<provided, uninits, crashes, meddles, calm, given>>, Fault \/ Fine,
         GitHubQuiet, UNCHANGED file, Exit
  PROVE  Inductive'
<1>1. BoundsOK' /\ ProvidedOK' /\ FileOK'
  BY Faulty DEF Inductive, TypeOK, BoundsOK, ProvidedOK, FileOK, provided
<1>2. Theirs' = Theirs /\ Kept' = Kept
  BY DEF Theirs, Kept, Ours, Who, provided
<1>3. Claims(file') \cap Theirs = {} /\ Kept' \subseteq Claims(file')
  BY <1>2 DEF Inductive, ClaimsInv
<1> QED BY <1>1, <1>2, <1>3, ExitKeeps

-----------------------------------------------------------------------------
(* prepareDeployment.                                                      *)

LEMMA VerifyKeeps ==
  ASSUME Inductive, VerifyRepositories, UNCHANGED <<provided, uninits, crashes, meddles, calm, given>>
  PROVE  Inductive'
<1>1. cmd.pc = "verify" /\ GitHubQuiet /\ file' = file /\ mem \in Receipt /\ cmd \in Commands
  BY DEF VerifyRepositories, At, Inductive, TypeOK
<1>2. CASE Exit
  BY <1>1, <1>2, LeaveKeeps DEF VerifyRepositories, FailsOr, Fault, Fine
<1>3. CASE ~Exit
  <2> DEFINE recorded == {r \in Repos : mem.repos[r] # NoEntry}
             retry == {r \in recorded : ~mem.repos[r].sure /\ ~There(r)}
  <2>1. /\ \A r \in recorded \ retry : RepoVerifies(r, mem.repos[r])
        /\ mem' = [mem EXCEPT !.repos = [r \in Repos |->
                     IF r \in retry THEN NoEntry ELSE mem.repos[r]]]
        /\ cmd' = [cmd EXCEPT !.pc = "preflight"] /\ Fine
    BY <1>3 DEF VerifyRepositories, Goto
  <2>2. /\ mem' \in Receipt /\ mem'.providers = mem.providers /\ mem'.phase = mem.phase
        /\ mem'.project = mem.project
        /\ \A r \in Repos : mem'.repos[r] = IF r \in retry THEN NoEntry ELSE mem.repos[r]
    BY <1>1, <2>1, NoReceiptIs DEF Receipt, NoEntry, RepoEntry
  <2>3. cmd' \in Commands /\ cmd'.pc = "preflight"
    BY <1>1, <2>1 DEF Commands, Pcs
  <2>4. FileOK' /\ GitHubOK'
    BY <1>1 DEF Inductive, TypeOK, FileOK, GitHubOK, GitHubQuiet
  <2>5. PhaseInv' /\ PlaceInv'
    BY <1>1, <2>2, <2>3 DEF Inductive, PhaseInv, PlaceInv, Reaches, Linked, Preparing, Creating, Mutating, Linking,
       Adding, TakingBack
  <2>6. KnownInv'
    <3>1. Verified(mem)'
      BY <1>1, <2>1, <2>2 DEF Verified, GitHubQuiet, RepoVerifies, There, Template
    <3>2. mem = file
      BY <1>1 DEF Inductive, PhaseInv
    <3>3. SameRepos'
      BY <1>1, <2>2, <3>2 DEF SameRepos, GitHubQuiet, There
    <3> QED BY <2>3, <3>1, <3>3 DEF KnownInv, Reaches, Preparing, Creating, Mutating, Linking, Adding
  <2>7. OnGitHubPcs = OnGitHubPcs /\ "preflight" \in OnGitHubPcs /\ "verify" \in OnGitHubPcs
    BY DEF OnGitHubPcs, Preparing
  <2> HIDE DEF recorded, retry
  <2> QED BY <1>1, <2>1, <2>2, <2>3, <2>4, <2>5, <2>6, <2>7, QuietIsBetter, GitHubKeeps
<1> QED BY <1>2, <1>3

\* A step that changes nothing but where the command is.
LEMMA MoveKeeps ==
  ASSUME Inductive, UNCHANGED <<provided, uninits, crashes, meddles, calm, given>>, Fault \/ Fine,
         GitHubQuiet, UNCHANGED <<file, mem>>, cmd' \in Commands,
         cmd.pc \in OnGitHubPcs \cup {"first_write", "confirm_all"},
         cmd'.pc \in OnGitHubPcs \cup {"first_write", "confirm_all", "succeed"},
         PhaseInv', PlaceInv', calm => KnownInv'
  PROVE  Inductive'
<1>1. FileOK' /\ GitHubOK' /\ mem' \in Receipt /\ mem'.providers = mem.providers
  BY DEF Inductive, TypeOK, FileOK, GitHubOK, GitHubQuiet
<1> QED BY <1>1, QuietIsBetter, GitHubKeeps

\* What a step that reads GitHub leaves as it was.
LEMMA SameKept ==
  ASSUME GitHubQuiet, UNCHANGED <<file, mem>>
  PROVE  /\ Verified(mem) => Verified(mem)'
         /\ SameRepos => SameRepos'
         /\ ProjectVerifies(mem.project) => ProjectVerifies(mem.project)'
BY DEF GitHubQuiet, Verified, SameRepos, RepoVerifies, ProjectVerifies, ProjectRevalidates, Link,
   OnGitHub, There, Template

LEMMA PreflightKeeps ==
  ASSUME Inductive, PreflightRepositories, UNCHANGED <<provided, uninits, crashes, meddles, calm, given>>
  PROVE  Inductive'
<1>1. cmd.pc = "preflight" /\ GitHubQuiet /\ file' = file /\ cmd \in Commands
  BY DEF PreflightRepositories, At, Inductive, TypeOK
<1>2. CASE Exit
  BY <1>1, <1>2, LeaveKeeps DEF PreflightRepositories, FailsOr, Fault, Fine
<1>3. CASE ~Exit
  <2>1. cmd' = [cmd EXCEPT !.pc = "check_project"] /\ Fine /\ mem' = mem
    BY <1>3 DEF PreflightRepositories, Goto
  <2>2. cmd' \in Commands /\ cmd'.pc = "check_project"
    BY <1>1, <2>1 DEF Commands, Pcs
  <2>3. PhaseInv' /\ PlaceInv'
    BY <1>1, <2>1, <2>2 DEF Inductive, PhaseInv, PlaceInv, Reaches, Linked, Preparing, Creating, Mutating, Linking,
       Adding, TakingBack
  <2>4. calm => KnownInv'
    BY <1>1, <2>1, <2>2, SameKept DEF Inductive, WorldInv, KnownInv, Reaches, Preparing, Creating,
       Mutating, Linking, Adding
  <2> QED BY <1>1, <2>1, <2>2, <2>3, <2>4, MoveKeeps DEF OnGitHubPcs, Preparing
<1> QED BY <1>2, <1>3

LEMMA CheckProjectKeeps ==
  ASSUME Inductive, CheckProject, UNCHANGED <<provided, uninits, crashes, meddles, calm, given>>
  PROVE  Inductive'
<1>1. cmd.pc = "check_project" /\ GitHubQuiet /\ file' = file /\ cmd \in Commands
  BY DEF CheckProject, At, Inductive, TypeOK
<1>2. CASE Exit
  BY <1>1, <1>2, LeaveKeeps DEF CheckProject, FailsOr, Fault, Fine
<1>3. CASE ~Exit
  <2>1. cmd' = [cmd EXCEPT !.pc = "check_providers"] /\ Fine /\ mem' = mem
    BY <1>3 DEF CheckProject, Goto
  <2>2. cmd' \in Commands /\ cmd'.pc = "check_providers"
    BY <1>1, <2>1 DEF Commands, Pcs
  <2>3. PhaseInv' /\ PlaceInv'
    BY <1>1, <2>1, <2>2 DEF Inductive, PhaseInv, PlaceInv, Reaches, Linked, Preparing, Creating, Mutating, Linking,
       Adding, TakingBack
  <2>4. calm => KnownInv'
    <3> SUFFICES ASSUME calm PROVE KnownInv'
      OBVIOUS
    <3>1. Verified(mem)' /\ SameRepos'
      BY <1>1, <2>1, SameKept DEF Inductive, WorldInv, KnownInv, Preparing
    <3>2. ASSUME mem.phase = "initialized" PROVE ProjectVerifies(mem.project)'
      <4>1. Linked(mem)
        BY <1>1, <3>2 DEF Inductive, WorldInv, PhaseInv, Preparing, Linked
      <4>2. mem.project.linked /\ mem.project # NoProject
        BY <4>1 DEF Linked, NoProject, Ids
      <4>3. ProjectVerifies(mem.project)
        BY <1>3, <4>2 DEF CheckProject
      <4> QED BY <1>1, <2>1, <4>3, SameKept
    <3> QED BY <2>1, <2>2, <3>1, <3>2 DEF KnownInv, Reaches, Preparing, Creating, Mutating, Linking,
       Adding
  <2> QED BY <1>1, <2>1, <2>2, <2>3, <2>4, MoveKeeps DEF OnGitHubPcs, Preparing
<1> QED BY <1>2, <1>3

LEMMA CheckProvidersKeeps ==
  ASSUME Inductive, CheckProviders, UNCHANGED <<crashes, meddles, calm, given>>
  PROVE  Inductive'
<1>1. /\ cmd.pc = "check_providers" /\ GitHubQuiet /\ file' = file /\ cmd \in Commands
      /\ mem \in Receipt /\ UNCHANGED <<provided, uninits, crashes, meddles, calm, given>>
  BY DEF CheckProviders, At, Inductive, TypeOK
<1>2. CASE Exit
  BY <1>1, <1>2, LeaveKeeps DEF CheckProviders, FailsOr, Fault, Fine
<1>3. CASE ~Exit
  <2>1. PICK pc : pc = CASE mem.phase = "absent" -> "first_write"
                         [] mem.phase = "initialized" /\ mem.project # NoProject -> "confirm_all"
                         [] OTHER -> "repositories"
    OBVIOUS
  <2>2. /\ cmd' = [cmd EXCEPT !.pc = pc] /\ Fine
        /\ mem' = [mem EXCEPT !.phase = IF @ = "absent" THEN "provisioning" ELSE @]
    BY <1>3, <2>1 DEF CheckProviders, Goto
  <2>3. /\ pc \in {"first_write", "confirm_all", "repositories"}
        /\ pc = "first_write" => mem.phase = "absent"
        /\ pc = "confirm_all" => mem.phase = "initialized"
        /\ mem.phase # "absent" \/ pc = "first_write"
        /\ pc = "repositories" /\ mem.phase = "initialized" => mem.project = NoProject
    BY <2>1
  <2>4. cmd' \in Commands /\ cmd'.pc = pc
    BY <1>1, <2>2, <2>3 DEF Commands, Pcs
  <2>5. /\ mem' \in Receipt /\ mem'.providers = mem.providers /\ mem'.phase # "absent"
        /\ mem'.repos = mem.repos /\ mem'.project = mem.project
        /\ mem'.phase = IF mem.phase = "absent" THEN "provisioning" ELSE mem.phase
    BY <1>1, <2>2 DEF Receipt, Phases
  <2>6. mem.phase = file.phase /\ (mem.phase = "absent" => file = NoReceipt)
    BY <1>1 DEF Inductive, TypeOK, PhaseInv, Preparing
  <2>10. mem.phase = "initialized" => mem.project # NoProject
    BY <1>1, <2>6 DEF Inductive, WorldInv, PhaseInv, Preparing, Linked, NoProject, Ids
  <2>7. PhaseInv' /\ PlaceInv'
    BY <1>1, <2>10, <2>3, <2>4, <2>5, <2>6 DEF Inductive, PhaseInv, PlaceInv, Reaches, Linked, Preparing, Creating,
       Mutating, Linking, Adding, TakingBack
  <2>8. calm => KnownInv'
    <3> SUFFICES ASSUME calm PROVE KnownInv'
      OBVIOUS
    <3>1. Verified(mem) /\ SameRepos /\ (mem.phase = "initialized" => ProjectVerifies(mem.project))
      BY <1>1 DEF Inductive, WorldInv, KnownInv, Preparing
    <3>2. Verified(mem)'
      BY <1>1, <2>5, <3>1 DEF Verified, GitHubQuiet, RepoVerifies, There, Template
    <3>3. SameRepos'
      BY <1>1, <2>5, <3>1 DEF SameRepos, GitHubQuiet, There
    <3>4. mem.phase = "initialized" => ProjectVerifies(mem.project)'
      BY <1>1, <2>5, <3>1 DEF GitHubQuiet, ProjectVerifies, ProjectRevalidates, Link, OnGitHub,
         There, Template
    <3> QED BY <2>3, <2>4, <2>5, <3>2, <3>3, <3>4 DEF KnownInv, Reaches, Preparing, Creating,
       Mutating, Linking, Adding
  <2>9. FileOK' /\ GitHubOK'
    BY <1>1 DEF Inductive, TypeOK, FileOK, GitHubOK, GitHubQuiet
  <2> QED BY <1>1, <2>2, <2>3, <2>4, <2>5, <2>7, <2>8, <2>9, QuietIsBetter, GitHubKeeps
          DEF OnGitHubPcs, Preparing, Creating
<1> QED BY <1>2, <1>3

LEMMA FirstWriteKeeps ==
  ASSUME Inductive, FirstWrite, UNCHANGED <<crashes, meddles, calm, given>>
  PROVE  Inductive'
<1>1. /\ cmd.pc = "first_write" /\ GitHubQuiet /\ cmd \in Commands
      /\ mem \in Receipt /\ UNCHANGED <<provided, uninits, crashes, meddles, calm, given>>
      /\ mem.phase = "provisioning" /\ mem.providers = <<>>
  <2>1. cmd.pc = "first_write" /\ GitHubQuiet /\ UNCHANGED <<provided, uninits, crashes, meddles, calm, given>>
    BY DEF FirstWrite, At
  <2>2. mem.phase = "provisioning" /\ mem.providers = <<>>
    BY <2>1, NoReceiptIs DEF Inductive, PhaseInv, ClaimsInv, Agreeing
  <2> QED BY <2>1, <2>2 DEF Inductive, TypeOK
<1>2. CASE Exit /\ UNCHANGED file
  BY <1>1, <1>2, LeaveKeeps DEF FirstWrite, FailsOr, Fault, Fine
<1>3. CASE ~(Exit /\ UNCHANGED file)
  <2>1. file' = mem /\ Fine /\ cmd' = [cmd EXCEPT !.pc = "repositories"] /\ mem' = mem
    BY <1>3 DEF FirstWrite, Goto
  <2>2. cmd' \in Commands /\ cmd'.pc = "repositories"
    BY <1>1, <2>1 DEF Commands, Pcs
  <2>3. FileOK' /\ GitHubOK'
    BY <1>1, <2>1 DEF Inductive, TypeOK, FileOK, GitHubOK, GitHubQuiet, Valid, BindingMatches
  <2>4. PhaseInv' /\ PlaceInv'
    BY <1>1, <2>1, <2>2 DEF PhaseInv, PlaceInv, Reaches, Linked, Preparing, Creating, Mutating, Linking,
       Adding, TakingBack
  <2>5. calm => KnownInv'
    <3>1. calm => Verified(mem)
      BY <1>1 DEF Inductive, WorldInv, KnownInv
    <3>2. calm => Verified(mem)'
      BY <1>1, <2>1, <3>1, StillVerified, QuietIsBetter
    <3> QED BY <2>2, <3>2 DEF KnownInv, Reaches, Preparing, Creating, Mutating, Linking, Adding
  <2> QED BY <1>1, <2>1, <2>2, <2>3, <2>4, <2>5, QuietIsBetter, GitHubKeeps
          DEF OnGitHubPcs, Creating
<1> QED BY <1>2, <1>3

-----------------------------------------------------------------------------
(* repository.Create.                                                      *)

LEMMA CurrentIs ==
  /\ Missing # {} => Current \in Missing /\ Current \in Repos
  /\ Current \in Repos
BY DEF Missing, Current, Repos

LEMMA NextRepositoryKeeps ==
  ASSUME Inductive, NextRepository, UNCHANGED <<provided, uninits, crashes, meddles, calm, given>>
  PROVE  Inductive'
<1>1. /\ cmd.pc = "repositories" /\ GitHubQuiet /\ file' = file /\ cmd \in Commands
      /\ mem \in Receipt
  BY DEF NextRepository, At, Inductive, TypeOK
<1>2. CASE Fail
  <2>1. Fault \/ Fine
    BY <1>2 DEF NextRepository, FailsOr
  <2>2. FileOK'
    BY <1>1 DEF FileOK, Inductive, TypeOK
  <2> QED BY <1>1, <1>2, <2>1, <2>2, FailKeeps DEF Fail, Goto, Creating
<1>3. CASE ~Fail
  <2>1. PICK pc \in {"project", "create"} : cmd' = [cmd EXCEPT !.pc = pc]
            /\ (pc = "project" => Missing = {}) /\ (pc = "create" => Missing # {})
            /\ mem' = mem /\ Fine
    BY <1>3 DEF NextRepository, Goto
  <2>2. cmd' \in Commands /\ cmd'.pc = pc
    BY <1>1, <2>1 DEF Commands, Pcs
  <2>3. PhaseInv' /\ PlaceInv'
    BY <1>1, <2>1, <2>2 DEF Inductive, PhaseInv, PlaceInv, Reaches, Linked, Missing, Preparing, Creating, Mutating,
       Linking, Adding, TakingBack
  <2>4. calm => KnownInv'
    <3> SUFFICES ASSUME calm PROVE KnownInv'
      OBVIOUS
    <3>1. Verified(mem)
      BY <1>1 DEF Inductive, WorldInv, KnownInv, Creating
    <3>2. Verified(mem)'
      BY <1>1, <2>1, <3>1, StillVerified, QuietIsBetter
    <3> QED BY <2>1, <2>2, <3>1, <3>2 DEF KnownInv, Reaches, Preparing, Creating, Mutating,
       Linking, Adding
  <2> QED BY <1>1, <2>1, <2>2, <2>3, <2>4, MoveKeeps DEF OnGitHubPcs, Creating, Mutating, Linking
<1> QED BY <1>2, <1>3

\* A step in the creation of a repository.
LEMMA CreatingKeeps ==
  ASSUME Inductive, UNCHANGED <<provided, uninits, crashes, meddles, calm, given>>, Fault \/ Fine,
         cmd.pc \in Mutating, UNCHANGED <<file, mem, projects>>,
         repo' \in [Repos -> Repo],
         \A r \in Repos : \A entry : RepoVerifies(r, entry) => RepoVerifies(r, entry)',
         cmd' \in Commands, cmd'.pc \in Mutating \ {"create"}, cmd'.commit # 0
  PROVE  Inductive'
<1>1. /\ FileOK' /\ GitHubOK' /\ mem' \in Receipt /\ mem'.providers = mem.providers
      /\ Better
  BY DEF Inductive, TypeOK, FileOK, GitHubOK, Better
<1>2. PhaseInv' /\ PlaceInv'
  BY DEF Inductive, PhaseInv, PlaceInv, Reaches, Linked, Missing, Preparing, Creating, Mutating, Linking, Adding,
     TakingBack
<1>3. calm => KnownInv'
  <2> SUFFICES ASSUME calm PROVE KnownInv'
    OBVIOUS
  <2>1. Verified(mem)
    BY DEF Inductive, WorldInv, KnownInv, Creating
  <2>2. Verified(mem)'
    BY <1>1, <2>1, StillVerified
  <2> QED BY <2>1, <2>2 DEF KnownInv, Reaches, Preparing, Creating, Mutating, Linking, Adding
<1> QED BY <1>1, <1>2, <1>3, GitHubKeeps DEF OnGitHubPcs, Creating, Mutating

LEMMA CreateRepositoryKeeps ==
  ASSUME Inductive, CreateRepository, UNCHANGED <<provided, uninits, crashes, meddles, calm, given>>
  PROVE  Inductive'
<1>1. /\ cmd.pc = "create" /\ cmd \in Commands /\ UNCHANGED <<file, mem, projects>>
      /\ repo \in [Repos -> Repo] /\ Current \in Repos
  BY CurrentIs DEF CreateRepository, At, Inductive, TypeOK
<1>2. NewCommit \in Commits /\ NewCommit # 0
  <2>1. \E c \in Commits : c # file.repos[Current].commit
    BY DEF Commits
  <2> QED BY <2>1 DEF NewCommit, Commits
<1>3. cmd' \in Commands /\ cmd'.pc \in Mutating \ {"create"} /\ cmd'.commit # 0
  <2>1. \/ cmd' = [cmd EXCEPT !.pc = "enable", !.commit = NewCommit]
        \/ cmd' = [cmd EXCEPT !.pc = "readback", !.commit = NewCommit, !.err = TRUE]
    BY DEF CreateRepository
  <2>2. {"enable", "readback"} \subseteq Pcs
    BY DEF Pcs
  <2>3. cmd' \in Commands
    BY <1>1, <1>2, <2>1, <2>2 DEF Commands
  <2>4. cmd'.pc \in {"enable", "readback"} /\ cmd'.commit = NewCommit
    BY <1>1, <2>1 DEF Commands
  <2> QED BY <1>2, <2>3, <2>4 DEF Mutating
<1>4. repo' = repo \/ (~There(Current) /\ \E new \in Repo : repo' = [repo EXCEPT ![Current] = new])
  BY <1>2 DEF CreateRepository, Repo
<1>5. /\ repo' \in [Repos -> Repo]
      /\ \A r \in Repos : \A entry : RepoVerifies(r, entry) => RepoVerifies(r, entry)'
  BY <1>1, <1>4 DEF RepoVerifies, There, Template
<1>6. Fault \/ Fine
  BY DEF CreateRepository
<1> QED BY <1>1, <1>3, <1>5, <1>6, CreatingKeeps DEF Mutating

LEMMA EnableKeeps ==
  ASSUME Inductive, EnableIssues, UNCHANGED <<provided, uninits, crashes, meddles, calm, given>>
  PROVE  Inductive'
<1>1. /\ cmd.pc = "enable" /\ cmd \in Commands /\ UNCHANGED <<file, mem, projects>>
      /\ repo \in [Repos -> Repo] /\ Current \in Repos /\ cmd.commit # 0
  BY CurrentIs DEF EnableIssues, At, Inductive, TypeOK, PlaceInv, Mutating
<1>2. cmd' \in Commands /\ cmd'.pc \in Mutating \ {"create"} /\ cmd'.commit # 0
  BY <1>1 DEF EnableIssues, Goto, Commands, Pcs, Mutating
<1>3. repo' = repo \/ repo' = [repo EXCEPT ![Current].issues = TRUE]
  BY DEF EnableIssues
<1>4. /\ repo' \in [Repos -> Repo]
      /\ \A r \in Repos : \A entry : RepoVerifies(r, entry) => RepoVerifies(r, entry)'
  <2>1. PICK new : new = [repo[Current] EXCEPT !.issues = TRUE]
    OBVIOUS
  <2>2. new \in Repo /\ new.there = repo[Current].there /\ new.issues
        /\ new.commit = repo[Current].commit
    BY <1>1, <2>1 DEF Repo
  <2>3. repo' = repo \/ repo' = [repo EXCEPT ![Current] = new]
    BY <1>1, <1>3, <2>1
  <2> QED BY <1>1, <2>2, <2>3 DEF RepoVerifies, There, Template
<1>5. Fault \/ Fine
  BY DEF EnableIssues
<1> QED BY <1>1, <1>2, <1>4, <1>5, CreatingKeeps DEF Mutating

LEMMA RecordIs ==
  ASSUME Inductive, NEW sure \in BOOLEAN
  PROVE  /\ Record(sure) \in Receipt /\ Record(sure).providers = mem.providers
         /\ Record(sure).phase = mem.phase
         /\ \A r \in Repos : Record(sure).repos[r] =
              IF r = Current THEN [commit |-> cmd.commit, sure |-> sure] ELSE mem.repos[r]
<1>1. mem \in Receipt /\ cmd.commit \in Commits \cup {0} /\ Current \in Repos
  BY CurrentIs DEF Inductive, TypeOK, Commands
<1>2. [commit |-> cmd.commit, sure |-> sure] \in RepoEntry
  BY <1>1 DEF RepoEntry
<1> QED BY <1>1, <1>2 DEF Record, Receipt

LEMMA ReadBackKeeps ==
  ASSUME Inductive, ReadBack, UNCHANGED <<provided, uninits, crashes, meddles, calm, given>>
  PROVE  Inductive'
<1>1. /\ cmd.pc = "readback" /\ cmd \in Commands /\ file' = file /\ GitHubQuiet
      /\ repo \in [Repos -> Repo] /\ mem \in Receipt /\ cmd.commit # 0 /\ FileOK'
  BY DEF ReadBack, At, Inductive, TypeOK, PlaceInv, Mutating, FileOK
<1>2. Fault \/ Fine
  BY DEF ReadBack, FailsOr
<1>3. CASE Fail
  BY <1>1, <1>2, <1>3, FailKeeps DEF Fail, Goto, Creating, Mutating
<1>4. CASE Uncertain
  BY <1>1, <1>2, <1>4, FailKeeps, RecordIs DEF Uncertain, Goto, Creating, Mutating
<1>5. CASE ~Fail /\ ~Uncertain
  <2>1. cmd' = [cmd EXCEPT !.pc = "enable"] /\ mem' = mem
    BY <1>5 DEF ReadBack, Goto
  <2>2. cmd' \in Commands /\ cmd'.pc \in Mutating \ {"create"} /\ cmd'.commit # 0
    BY <1>1, <2>1 DEF Commands, Pcs, Mutating
  <2>3. /\ repo' \in [Repos -> Repo] /\ UNCHANGED <<file, mem, projects>>
        /\ \A r \in Repos : \A entry : RepoVerifies(r, entry) => RepoVerifies(r, entry)'
    BY <1>1, <2>1 DEF GitHubQuiet, RepoVerifies, There, Template
  <2> QED BY <1>1, <1>2, <2>2, <2>3, CreatingKeeps DEF Mutating
<1> QED BY <1>3, <1>4, <1>5

LEMMA InspectKeeps ==
  ASSUME Inductive, InspectRepository, UNCHANGED <<provided, uninits, crashes, meddles, calm, given>>
  PROVE  Inductive'
<1>1. /\ cmd.pc = "inspect" /\ cmd \in Commands /\ file' = file /\ GitHubQuiet
      /\ repo \in [Repos -> Repo] /\ mem \in Receipt /\ cmd.commit # 0 /\ FileOK'
  BY DEF InspectRepository, At, Inductive, TypeOK, PlaceInv, Mutating, FileOK
<1>2. Fault \/ Fine
  BY DEF InspectRepository, FailsOr
<1>3. CASE Fail
  BY <1>1, <1>2, <1>3, FailKeeps DEF Fail, Goto, Creating, Mutating
<1>4. CASE Uncertain
  BY <1>1, <1>2, <1>4, FailKeeps, RecordIs DEF Uncertain, Goto, Creating, Mutating
<1>5. CASE mem' = [Record(TRUE) EXCEPT !.phase = "needs_resume"] /\ Goto("save_failure")
  BY <1>1, <1>2, <1>5, FailKeeps, RecordIs DEF Goto, Creating, Mutating
<1>6. CASE /\ RepoVerifies(Current, [commit |-> cmd.commit]) /\ mem' = Record(TRUE)
           /\ Goto("save_repository")
  <2>1. cmd' = [cmd EXCEPT !.pc = "save_repository"]
    BY <1>6 DEF Goto
  <2>2. cmd' \in Commands /\ cmd'.pc = "save_repository"
    BY <1>1, <2>1 DEF Commands, Pcs
  <2>3. /\ mem' \in Receipt /\ mem'.providers = mem.providers /\ mem'.phase = mem.phase
        /\ \A r \in Repos : mem'.repos[r] =
             IF r = Current THEN [commit |-> cmd.commit, sure |-> TRUE] ELSE mem.repos[r]
    BY <1>6, RecordIs
  <2>4. PhaseInv' /\ PlaceInv'
    BY <1>1, <2>2, <2>3 DEF Inductive, PhaseInv, PlaceInv, Reaches, Linked, Preparing, Creating, Mutating,
       Linking, Adding, TakingBack
  <2>5. calm => KnownInv'
    <3> SUFFICES ASSUME calm PROVE KnownInv'
      OBVIOUS
    <3>1. Verified(mem)
      BY <1>1 DEF Inductive, WorldInv, KnownInv, Creating, Mutating
    <3>2. Verified(mem)'
      <4> SUFFICES ASSUME NEW r \in Repos, mem'.repos[r] # NoEntry
                   PROVE  RepoVerifies(r, mem.repos[r])'
        BY DEF Verified
      <4>1. PICK entry : entry = mem'.repos[r]
        OBVIOUS
      <4>2. RepoVerifies(r, entry)
        <5>1. CASE r = Current
          <6>1. entry = [commit |-> cmd.commit, sure |-> TRUE]
            BY <2>3, <4>1, <5>1
          <6>2. entry.commit = cmd.commit
            BY <6>1
          <6>3. PICK short : short = [commit |-> cmd.commit]
            OBVIOUS
          <6>4. RepoVerifies(r, short) /\ short.commit = cmd.commit
            BY <1>6, <5>1, <6>3
          <6> QED BY <6>2, <6>4 DEF RepoVerifies
        <5>2. CASE r # Current
          BY <2>3, <3>1, <4>1, <5>2 DEF Verified
        <5> QED BY <5>1, <5>2
      <4> QED BY <1>1, <4>1, <4>2 DEF GitHubQuiet, RepoVerifies, There, Template
    <3> QED BY <2>2, <2>3, <3>1, <3>2 DEF KnownInv, Reaches, Preparing, Creating, Mutating,
       Linking, Adding
  <2>6. GitHubOK'
    BY <1>1 DEF Inductive, TypeOK, GitHubOK, GitHubQuiet
  <2> QED BY <1>1, <1>2, <2>2, <2>3, <2>4, <2>5, <2>6, QuietIsBetter, GitHubKeeps
          DEF OnGitHubPcs, Creating, Mutating
<1> QED BY <1>3, <1>4, <1>5, <1>6 DEF InspectRepository

LEMMA SaveRepositoryKeeps ==
  ASSUME Inductive, SaveRepository, UNCHANGED <<provided, uninits, crashes, meddles, calm, given>>
  PROVE  Inductive'
<1>1. /\ cmd.pc = "save_repository" /\ cmd \in Commands /\ GitHubQuiet
      /\ mem \in Receipt /\ mem.phase # "absent"
  BY DEF SaveRepository, At, Inductive, TypeOK, PhaseInv, Creating
<1>2. Fault \/ Fine
  BY DEF SaveRepository
<1>3. CASE Exit /\ UNCHANGED file
  BY <1>1, <1>2, <1>3, LeaveKeeps
<1>4. CASE Valid(mem) /\ file' = mem /\ Goto("repositories") /\ UNCHANGED mem
  <2>1. cmd' = [cmd EXCEPT !.pc = "repositories"]
    BY <1>4 DEF Goto
  <2>2. cmd' \in Commands /\ cmd'.pc = "repositories"
    BY <1>1, <2>1 DEF Commands, Pcs
  <2>3. FileOK' /\ GitHubOK'
    BY <1>1, <1>4 DEF Inductive, TypeOK, FileOK, GitHubOK, GitHubQuiet, Valid, BindingMatches
  <2>4. PhaseInv' /\ PlaceInv'
    BY <1>1, <1>4, <2>2 DEF Inductive, PhaseInv, PlaceInv, Reaches, Linked, Preparing, Creating, Mutating, Linking,
       Adding, TakingBack
  <2>5. calm => KnownInv'
    <3> SUFFICES ASSUME calm PROVE KnownInv'
      OBVIOUS
    <3>1. Verified(mem)
      BY <1>1 DEF Inductive, WorldInv, KnownInv, Creating
    <3>2. Verified(mem)'
      BY <1>1, <1>4, <3>1, StillVerified, QuietIsBetter
    <3> QED BY <1>4, <2>2, <3>1, <3>2 DEF KnownInv, Reaches, Preparing, Creating, Mutating,
       Linking, Adding
  <2>6. file'.providers = mem.providers /\ file'.phase # "initialized"
    BY <1>1, <1>4 DEF Inductive, PhaseInv, Creating
  <2> QED BY <1>1, <1>2, <1>4, <2>2, <2>3, <2>4, <2>5, <2>6, QuietIsBetter, GitHubKeeps
          DEF OnGitHubPcs, Creating
<1> QED BY <1>3, <1>4 DEF SaveRepository

-----------------------------------------------------------------------------
(* project.Provision.                                                      *)

\* A step about the Project.
LEMMA LinkingKeeps ==
  ASSUME Inductive, UNCHANGED <<provided, uninits, crashes, meddles, calm, given>>, Fault \/ Fine,
         cmd.pc \in Linking, repo' = repo, FileOK',
         file' = file \/ (file'.providers = mem.providers
                            /\ file'.phase # "initialized"),
         mem' \in Receipt, mem'.providers = mem.providers, mem'.repos = mem.repos,
         mem'.phase = mem.phase \/ mem'.phase = "provisioning",
         projects' \in [Ids -> Project],
         \A i \in Ids : projects[i] = Done => projects'[i] = Done,
         cmd' \in Commands, cmd'.pc \in Linking,
         cmd'.pc = "create_project" => OnGitHub' = {},
         cmd'.pc \in {"confirm", "edit", "read_edit", "link", "read_link", "journal"} =>
           mem'.project.id \in Ids,
         cmd'.pc = "journal" => cmd'.next \in {"confirm", "link", "recheck"},
         Reaches("recheck")' => Linked(mem)',
         calm =>
           /\ cmd'.pc = "edit" => ProjectRevalidates(mem.project)'
           /\ Reaches("link")' \/ cmd'.pc = "read_link" => projects'[mem'.project.id].right
           /\ Reaches("recheck")' =>
                mem'.project.right /\ projects'[mem'.project.id] = Done
  PROVE  Inductive'
<1>1. GitHubOK' /\ Better
  BY DEF Inductive, TypeOK, GitHubOK, Better, RepoVerifies, There, Template
<1>2. Missing = {} /\ Missing' = {} /\ mem.phase \notin {"absent", "initialized"}
  BY DEF Inductive, PlaceInv, PhaseInv, Missing
<1>3. PhaseInv' /\ PlaceInv'
  BY <1>2 DEF PhaseInv, PlaceInv, Preparing, Creating, Mutating, Linking, Adding, TakingBack
<1>4. ASSUME calm PROVE KnownInv'
  <2>1. Verified(mem)
    BY <1>4 DEF Inductive, WorldInv, KnownInv
  <2>2. Verified(mem)'
    BY <1>1, <2>1, StillVerified
  <2>3. \A r \in Repos : RepoVerifies(r, mem.repos[r])'
    BY <1>2, <2>2 DEF Verified, Missing
  <2>4. Reaches("recheck")' => Deployed(mem)'
    BY <1>4, <2>3 DEF Deployed, Linked
  <2>5. cmd'.pc \notin Preparing \cup Creating \cup Adding
          \cup {"check_providers", "first_write", "confirm_all", "intend", "finish", "succeed"}
    BY DEF Preparing, Creating, Mutating, Linking, Adding
  <2>6. cmd'.pc = "edit" => ProjectRevalidates(mem.project)'
    BY <1>4
  <2>7. Reaches("link")' \/ cmd'.pc = "read_link" => projects'[mem'.project.id].right
    BY <1>4
  <2> QED BY <2>1, <2>2, <2>4, <2>5, <2>6, <2>7 DEF KnownInv, Adding
<1> QED BY <1>1, <1>3, <1>4, GitHubKeeps DEF OnGitHubPcs

\* A step that reads the Project, and moves on.
LEMMA LookingKeeps ==
  ASSUME Inductive, UNCHANGED <<provided, uninits, crashes, meddles, calm, given>>, Fault \/ Fine,
         cmd.pc \in Linking, GitHubQuiet, UNCHANGED <<file, mem>>,
         NEW pc \in Linking \ {"journal"}, cmd' = [cmd EXCEPT !.pc = pc],
         pc = "create_project" => OnGitHub = {},
         pc \in {"confirm", "edit", "read_edit", "link", "read_link"} => mem.project.id \in Ids,
         calm =>
           /\ pc = "edit" => ProjectRevalidates(mem.project)
           /\ pc \in {"link", "read_link"} => projects[mem.project.id].right,
         pc # "recheck"
  PROVE  Inductive'
<1>1. cmd' \in Commands /\ cmd'.pc = pc
  BY DEF Inductive, TypeOK, Commands, Linking, Pcs
<1>2. /\ FileOK' /\ mem' \in Receipt /\ projects' \in [Ids -> Project]
      /\ repo' = repo /\ projects' = projects /\ mem' = mem
  BY DEF Inductive, TypeOK, FileOK, GitHubQuiet
<1>3. cmd'.pc = "create_project" => OnGitHub' = {}
  BY <1>1, <1>2 DEF OnGitHub
<1>4. ASSUME calm
      PROVE  /\ cmd'.pc = "edit" => ProjectRevalidates(mem.project)'
             /\ Reaches("link")' \/ cmd'.pc = "read_link" => projects'[mem'.project.id].right
  BY <1>1, <1>2, <1>4 DEF Reaches, ProjectRevalidates, OnGitHub
<1>5. ~Reaches("recheck")'
  BY <1>1 DEF Reaches
<1> QED BY <1>1, <1>2, <1>3, <1>4, <1>5, LinkingKeeps

LEMMA StartProjectKeeps ==
  ASSUME Inductive, StartProject, UNCHANGED <<provided, uninits, crashes, meddles, calm, given>>
  PROVE  Inductive'
<1>1. cmd.pc = "project" /\ GitHubQuiet /\ file' = file /\ mem \in Receipt /\ FileOK'
      /\ cmd.pc \in Linking
  BY DEF StartProject, At, Inductive, TypeOK, FileOK, Linking
<1>2. Fault \/ Fine
  BY DEF StartProject, FailsOr
<1>3. CASE Fail
  BY <1>1, <1>2, <1>3, FailKeeps DEF Fail, Goto
<1>4. CASE ~Fail
  <2>1. /\ IF mem.project = NoProject THEN OnGitHub = {} ELSE ProjectRevalidates(mem.project)
        /\ mem' = mem
        /\ cmd' = [cmd EXCEPT !.pc = IF mem.project = NoProject THEN "create_project" ELSE "edit"]
    BY <1>4 DEF StartProject, Goto
  <2>2. ProjectRevalidates(mem.project) => mem.project.id \in Ids
    BY DEF ProjectRevalidates, OnGitHub
  <2>3. CASE mem.project = NoProject
    BY <1>1, <1>2, <2>1, <2>3, LookingKeeps DEF Linking
  <2>4. CASE mem.project # NoProject
    BY <1>1, <1>2, <2>1, <2>2, <2>4, LookingKeeps DEF Linking
  <2> QED BY <2>3, <2>4
<1> QED BY <1>3, <1>4

LEMMA ConfirmProjectKeeps ==
  ASSUME Inductive, ConfirmProject, UNCHANGED <<provided, uninits, crashes, meddles, calm, given>>
  PROVE  Inductive'
<1>1. cmd.pc = "confirm" /\ GitHubQuiet /\ file' = file /\ mem \in Receipt /\ FileOK'
      /\ cmd.pc \in Linking
  BY DEF ConfirmProject, At, Inductive, TypeOK, FileOK, Linking
<1>2. Fault \/ Fine
  BY DEF ConfirmProject, FailsOr
<1>3. CASE Fail
  BY <1>1, <1>2, <1>3, FailKeeps DEF Fail, Goto
<1>4. CASE ~Fail
  <2>1. ProjectRevalidates(mem.project) /\ mem' = mem /\ cmd' = [cmd EXCEPT !.pc = "edit"]
    BY <1>4 DEF ConfirmProject, Goto
  <2>2. mem.project.id \in Ids
    BY <2>1 DEF ProjectRevalidates, OnGitHub
  <2> QED BY <1>1, <1>2, <2>1, <2>2, LookingKeeps DEF Linking
<1> QED BY <1>3, <1>4

LEMMA NewIdIs ==
  ASSUME OnGitHub = {} PROVE NewId \in Ids /\ NewId # file.project.id
<1>1. \E i \in Ids : i \notin OnGitHub \cup {file.project.id}
  BY DEF Ids
<1> QED BY <1>1 DEF NewId

LEMMA CreateProjectKeeps ==
  ASSUME Inductive, CreateProject, UNCHANGED <<provided, uninits, crashes, meddles, calm, given>>
  PROVE  Inductive'
<1>1. cmd.pc = "create_project" /\ repo' = repo /\ file' = file /\ mem \in Receipt /\ FileOK'
      /\ cmd.pc \in Linking /\ cmd \in Commands /\ projects \in [Ids -> Project]
      /\ OnGitHub = {}
  BY DEF CreateProject, At, Inductive, TypeOK, FileOK, Linking, PlaceInv
<1>2. Fault \/ Fine
  BY DEF CreateProject
<1>3. NewId \in Ids
  BY <1>1, NewIdIs
<1>4. PICK b \in BOOLEAN : b = (~Public)
  <2>1. (~Public) \in BOOLEAN
    OBVIOUS
  <2> QED BY <2>1, Zenon
<1>5. projects' = projects \/ projects' =
        [projects EXCEPT ![NewId] = [there |-> TRUE, right |-> b, linked |-> FALSE]]
  BY <1>4 DEF CreateProject, NewProject
<1>6. /\ projects' \in [Ids -> Project]
      /\ \A i \in Ids : projects[i] = Done => projects'[i] = Done
  <2>1. [there |-> TRUE, right |-> b, linked |-> FALSE] \in Project
    BY DEF Project
  <2>2. projects[NewId] # Done
    BY <1>1, <1>3 DEF Done, OnGitHub
  <2> QED BY <1>1, <1>3, <1>5, <2>1, <2>2
<1>7. CASE /\ mem' = [mem EXCEPT !.project = [id |-> NewId, right |-> ~Public, linked |-> FALSE]]
           /\ Journal("confirm", FALSE)
  <2>1. cmd' = [cmd EXCEPT !.pc = "journal", !.next = "confirm", !.err = FALSE]
    BY <1>7 DEF Journal
  <2>2. cmd' \in Commands /\ cmd'.pc = "journal" /\ cmd'.next = "confirm"
    BY <1>1, <2>1 DEF Commands, Pcs
  <2>3. [id |-> NewId, right |-> b, linked |-> FALSE] \in ProjectEntry
    BY <1>3 DEF ProjectEntry
  <2>4. /\ mem' \in Receipt /\ mem'.providers = mem.providers /\ mem'.repos = mem.repos
        /\ mem'.phase = mem.phase /\ mem'.project.id \in Ids
    BY <1>1, <1>3, <1>4, <1>7, <2>3 DEF Receipt
  <2>5. ~Reaches("link")' /\ ~Reaches("recheck")'
    BY <2>2 DEF Reaches
  <2> QED BY <1>1, <1>2, <1>6, <2>2, <2>4, <2>5, LinkingKeeps DEF Linking
<1>8. CASE Goto("find_project") /\ mem' = mem
  <2>1. cmd' \in Commands /\ cmd'.pc = "find_project"
    BY <1>1, <1>8 DEF Goto, Commands, Pcs
  <2>2. ~Reaches("link")' /\ ~Reaches("recheck")'
    BY <2>1 DEF Reaches
  <2> QED BY <1>1, <1>2, <1>6, <1>8, <2>1, <2>2, LinkingKeeps DEF Linking
<1> QED BY <1>7, <1>8 DEF CreateProject

LEMMA FoundIs ==
  ASSUME Inductive, NEW i \in Ids
  PROVE  /\ Found(i) \in ProjectEntry /\ Found(i).id = i
         /\ Found(i).right = projects[i].right /\ projects[i].right \in BOOLEAN
BY DEF Inductive, TypeOK, Found, ProjectEntry, Project

LEMMA FindProjectKeeps ==
  ASSUME Inductive, FindProject, UNCHANGED <<provided, uninits, crashes, meddles, calm, given>>
  PROVE  Inductive'
<1>1. cmd.pc = "find_project" /\ GitHubQuiet /\ file' = file /\ mem \in Receipt /\ FileOK'
      /\ cmd.pc \in Linking /\ cmd \in Commands /\ projects \in [Ids -> Project]
  BY DEF FindProject, At, Inductive, TypeOK, FileOK, Linking
<1>2. Fault \/ Fine
  BY DEF FindProject, FailsOr
<1>3. CASE Fail
  BY <1>1, <1>2, <1>3, FailKeeps DEF Fail, Goto
<1>4. CASE ~Fail
  <2>1. PICK i \in Ids : mem' = [mem EXCEPT !.project = Found(i)] /\ Journal("confirm", TRUE)
    BY <1>4 DEF FindProject, OnGitHub
  <2>2. cmd' \in Commands /\ cmd'.pc = "journal" /\ cmd'.next = "confirm"
    BY <1>1, <2>1 DEF Journal, Commands, Pcs
  <2>3. /\ mem' \in Receipt /\ mem'.providers = mem.providers /\ mem'.repos = mem.repos
        /\ mem'.phase = mem.phase /\ mem'.project.id \in Ids
    BY <1>1, <2>1, FoundIs DEF Receipt
  <2>4. ~Reaches("link")' /\ ~Reaches("recheck")'
    BY <2>2 DEF Reaches
  <2> QED BY <1>1, <1>2, <2>2, <2>3, <2>4, LinkingKeeps DEF Linking, GitHubQuiet
<1> QED BY <1>3, <1>4

LEMMA Binding ==
  ASSUME Inductive, cmd.pc \in Agreeing PROVE BindingMatches(mem)
<1>1. mem.providers = file.providers
  BY DEF Inductive, ClaimsInv
<1>2. file = NoReceipt \/ BindingMatches(file)
  BY DEF Inductive, TypeOK, Valid
<1> QED BY <1>1, <1>2, NoReceiptIs DEF BindingMatches

LEMMA WriteJournalKeeps ==
  ASSUME Inductive, WriteJournal, UNCHANGED <<provided, uninits, crashes, meddles, calm, given>>
  PROVE  Inductive'
<1>1. cmd.pc = "journal" /\ GitHubQuiet /\ mem \in Receipt /\ file \in Receipt
      /\ cmd.pc \in Linking /\ cmd \in Commands /\ cmd.pc \in Agreeing
      /\ cmd.next \in {"confirm", "link", "recheck"} /\ mem.project.id \in Ids
      /\ projects \in [Ids -> Project]
  BY DEF WriteJournal, At, Inductive, TypeOK, Linking, Agreeing, PlaceInv
<1>2. Fault \/ Fine
  BY DEF WriteJournal
<1>3. PICK m : m = [mem EXCEPT !.phase = "provisioning"]
  OBVIOUS
<1>4. /\ m \in Receipt /\ m.phase = "provisioning" /\ m.providers = mem.providers
      /\ m.repos = mem.repos /\ m.project = mem.project
  BY <1>1, <1>3 DEF Receipt, Phases
<1>5. Valid(m) /\ m # NoReceipt
  BY <1>1, <1>4, Binding, NoReceiptIs DEF Valid, BindingMatches
<1>6. file' = file \/ file' = m
  BY <1>3 DEF WriteJournal
<1>7. FileOK'
  BY <1>4, <1>5, <1>6 DEF FileOK, Inductive, TypeOK
<1>8. CASE Fail
  BY <1>1, <1>2, <1>4, <1>6, <1>7, <1>8, FailKeeps DEF Fail, Goto
<1>9. CASE ~Fail
  <2>1. file' = m /\ mem' = m /\ cmd' = [cmd EXCEPT !.pc = cmd.next] /\ ~cmd.err
    BY <1>3, <1>9 DEF WriteJournal, Goto
  <2>2. cmd' \in Commands /\ cmd'.pc = cmd.next
    BY <1>1, <2>1 DEF Commands
  <2>3. projects' = projects /\ repo' = repo
    BY <1>1 DEF GitHubQuiet
  <2>4. ASSUME calm
        PROVE  /\ Reaches("link")' \/ cmd'.pc = "read_link" => projects'[mem'.project.id].right
               /\ Reaches("recheck")' =>
                    mem'.project.right /\ projects'[mem'.project.id] = Done
    <3>1. /\ cmd.next = "link" => projects[mem.project.id].right
          /\ cmd.next = "recheck" => Deployed(mem)
      BY <1>1, <2>1, <2>4 DEF Inductive, WorldInv, KnownInv, Reaches
    <3> QED BY <1>1, <1>4, <2>1, <2>2, <2>3, <3>1 DEF Reaches, Deployed
  <2>5. cmd'.pc \in {"confirm", "link", "recheck"} /\ cmd'.pc \in Linking
    BY <1>1, <2>2 DEF Linking
  <2>6. Reaches("recheck")' => Linked(mem)'
    BY <1>1, <1>4, <2>1, <2>2 DEF Inductive, PlaceInv, Reaches, Linked
  <2> QED BY <1>1, <1>2, <1>4, <1>7, <2>1, <2>2, <2>3, <2>4, <2>5, <2>6, LinkingKeeps
<1> QED BY <1>8, <1>9

LEMMA EditProjectKeeps ==
  ASSUME Inductive, EditProject, UNCHANGED <<provided, uninits, crashes, meddles, calm, given>>
  PROVE  Inductive'
<1>1. cmd.pc = "edit" /\ repo' = repo /\ file' = file /\ mem \in Receipt /\ FileOK'
      /\ cmd.pc \in Linking /\ cmd \in Commands /\ projects \in [Ids -> Project]
      /\ mem.project.id \in Ids
  BY DEF EditProject, At, Inductive, TypeOK, FileOK, Linking, PlaceInv
<1>2. Fault \/ Fine
  BY DEF EditProject
<1>3. PICK i \in Ids : i = mem.project.id
  BY <1>1
<1>4. projects' = projects \/ projects' = [projects EXCEPT ![i].right = TRUE]
  BY <1>3 DEF EditProject
<1>5. /\ projects' \in [Ids -> Project]
      /\ \A j \in Ids : projects[j] = Done => projects'[j] = Done
  <2>1. PICK new : new = [projects[i] EXCEPT !.right = TRUE]
    OBVIOUS
  <2>2. projects[i] \in Project /\ new \in Project
    BY <1>1, <2>1 DEF Project
  <2>4. ASSUME projects[i] = Done PROVE new = Done
    <3>1. projects[i].there /\ projects[i].right /\ projects[i].linked
      BY <2>4 DEF Done
    <3>2. new.there /\ new.right /\ new.linked
      BY <2>1, <2>2, <3>1 DEF Project
    <3> QED BY <2>2, <3>2 DEF Done, Project
  <2>3. projects' = projects \/ projects' = [projects EXCEPT ![i] = new]
    BY <1>1, <1>4, <2>1
  <2> QED BY <1>1, <2>2, <2>4, <2>3
<1>6. CASE mem.project.right /\ Goto("link") /\ UNCHANGED <<projects, mem>>
  <2>1. calm => projects[mem.project.id].right
    BY <1>1, <1>6 DEF Inductive, WorldInv, KnownInv, ProjectRevalidates
  <2> QED BY <1>1, <1>2, <1>6, <2>1, LookingKeeps DEF Linking, Goto, GitHubQuiet
<1>7. CASE Goto("read_edit") /\ mem' = mem
  <2>1. cmd' \in Commands /\ cmd'.pc = "read_edit"
    BY <1>1, <1>7 DEF Goto, Commands, Pcs
  <2>2. ~Reaches("link")' /\ ~Reaches("recheck")'
    BY <2>1 DEF Reaches
  <2> QED BY <1>1, <1>2, <1>5, <1>7, <2>1, <2>2, LinkingKeeps DEF Linking
<1>8. CASE /\ projects' = [projects EXCEPT ![i].right = TRUE] /\ Journal("link", FALSE)
           /\ mem' = [mem EXCEPT !.project.right = TRUE, !.project.linked = FALSE]
  <2>1. cmd' \in Commands /\ cmd'.pc = "journal" /\ cmd'.next = "link"
    BY <1>1, <1>8 DEF Journal, Commands, Pcs
  <2>2. /\ mem' \in Receipt /\ mem'.providers = mem.providers /\ mem'.repos = mem.repos
        /\ mem'.phase = mem.phase /\ mem'.project.id = i
    BY <1>1, <1>3, <1>8 DEF Receipt, ProjectEntry
  <2>3. projects'[i].right
    BY <1>1, <1>8 DEF Project
  <2>4. ~Reaches("recheck")'
    BY <2>1 DEF Reaches
  <2> QED BY <1>1, <1>2, <1>5, <2>1, <2>2, <2>3, <2>4, LinkingKeeps DEF Linking
<1> QED BY <1>3, <1>6, <1>7, <1>8 DEF EditProject

LEMMA ReadEditKeeps ==
  ASSUME Inductive, ReadEdit, UNCHANGED <<provided, uninits, crashes, meddles, calm, given>>
  PROVE  Inductive'
<1>1. cmd.pc = "read_edit" /\ GitHubQuiet /\ file' = file /\ mem \in Receipt /\ FileOK'
      /\ cmd.pc \in Linking /\ cmd \in Commands /\ projects \in [Ids -> Project]
      /\ mem.project.id \in Ids
  BY DEF ReadEdit, At, Inductive, TypeOK, FileOK, Linking, PlaceInv
<1>2. Fault \/ Fine
  BY DEF ReadEdit, FailsOr
<1>3. CASE Fail
  BY <1>1, <1>2, <1>3, FailKeeps DEF Fail, Goto
<1>4. CASE ~Fail
  <2>1. PICK i \in Ids : i = mem.project.id
    BY <1>1
  <2>2. mem' = [mem EXCEPT !.project = Found(i)] /\ Journal("link", TRUE)
    BY <1>4, <2>1 DEF ReadEdit
  <2>3. cmd' \in Commands /\ cmd'.pc = "journal" /\ cmd'.next = "link" /\ cmd'.err = TRUE
    BY <1>1, <2>2 DEF Journal, Commands, Pcs
  <2>4. /\ mem' \in Receipt /\ mem'.providers = mem.providers /\ mem'.repos = mem.repos
        /\ mem'.phase = mem.phase /\ mem'.project.id \in Ids
    BY <1>1, <2>2, FoundIs DEF Receipt
  <2>5. ~Reaches("link")' /\ ~Reaches("recheck")'
    BY <2>3 DEF Reaches
  <2> QED BY <1>1, <1>2, <2>3, <2>4, <2>5, LinkingKeeps DEF Linking, GitHubQuiet
<1> QED BY <1>3, <1>4

LEMMA LinkProjectKeeps ==
  ASSUME Inductive, LinkProject, UNCHANGED <<provided, uninits, crashes, meddles, calm, given>>
  PROVE  Inductive'
<1>1. cmd.pc = "link" /\ repo' = repo /\ file' = file /\ mem' = mem /\ mem \in Receipt /\ FileOK'
      /\ cmd.pc \in Linking /\ cmd \in Commands /\ projects \in [Ids -> Project]
      /\ mem.project.id \in Ids
  BY DEF LinkProject, At, Inductive, TypeOK, FileOK, Linking, PlaceInv
<1>2. Fault \/ Fine
  BY DEF LinkProject
<1>3. PICK i \in Ids : i = mem.project.id
  BY <1>1
<1>4. projects' = projects \/ projects' = [projects EXCEPT ![i].linked = TRUE]
  BY <1>3 DEF LinkProject
<1>5. /\ projects' \in [Ids -> Project]
      /\ \A j \in Ids : projects[j] = Done => projects'[j] = Done
      /\ projects'[i].right = projects[i].right
  <2>1. PICK new : new = [projects[i] EXCEPT !.linked = TRUE]
    OBVIOUS
  <2>2. projects[i] \in Project /\ new \in Project /\ new.right = projects[i].right
    BY <1>1, <2>1 DEF Project
  <2>4. ASSUME projects[i] = Done PROVE new = Done
    <3>1. projects[i].there /\ projects[i].right /\ projects[i].linked
      BY <2>4 DEF Done
    <3>2. new.there /\ new.right /\ new.linked
      BY <2>1, <2>2, <3>1 DEF Project
    <3> QED BY <2>2, <3>2 DEF Done, Project
  <2>3. projects' = projects \/ projects' = [projects EXCEPT ![i] = new]
    BY <1>1, <1>4, <2>1
  <2> QED BY <1>1, <2>2, <2>4, <2>3
<1>6. cmd' \in Commands /\ cmd'.pc = "read_link"
  BY <1>1 DEF LinkProject, Commands, Pcs
<1>7. ~Reaches("link")' /\ ~Reaches("recheck")'
  BY <1>6 DEF Reaches
<1>8. calm => projects'[mem'.project.id].right
  <2>1. calm => projects[mem.project.id].right
    BY <1>1 DEF Inductive, WorldInv, KnownInv, Reaches
  <2> QED BY <1>1, <1>3, <1>5, <2>1
<1> QED BY <1>1, <1>2, <1>5, <1>6, <1>7, <1>8, LinkingKeeps DEF Linking

LEMMA ReadLinkKeeps ==
  ASSUME Inductive, ReadLink, UNCHANGED <<provided, uninits, crashes, meddles, calm, given>>
  PROVE  Inductive'
<1>1. cmd.pc = "read_link" /\ GitHubQuiet /\ file' = file /\ mem \in Receipt /\ FileOK'
      /\ cmd.pc \in Linking /\ cmd \in Commands /\ projects \in [Ids -> Project]
      /\ mem.project.id \in Ids
  BY DEF ReadLink, At, Inductive, TypeOK, FileOK, Linking, PlaceInv
<1>2. Fault \/ Fine
  BY DEF ReadLink, FailsOr
<1>3. CASE Fail
  BY <1>1, <1>2, <1>3, FailKeeps DEF Fail, Goto
<1>4. CASE ~Fail
  <2>1. PICK i \in Ids : i = mem.project.id
    BY <1>1
  <2>2. /\ i \in OnGitHub /\ Link(projects[i])
        /\ mem' = [mem EXCEPT !.project = [Found(i) EXCEPT !.linked = TRUE]]
        /\ Journal("recheck", cmd.err)
    BY <1>4, <2>1 DEF ReadLink
  <2>3. cmd' \in Commands /\ cmd'.pc = "journal" /\ cmd'.next = "recheck"
    BY <1>1, <2>2 DEF Journal, Commands, Pcs
  <2>4. PICK entry : entry = [Found(i) EXCEPT !.linked = TRUE]
    OBVIOUS
  <2>5. entry \in ProjectEntry /\ entry.id = i /\ entry.right = projects[i].right /\ entry.linked
    BY <2>4, FoundIs DEF ProjectEntry, Found
  <2>6. /\ mem' \in Receipt /\ mem'.providers = mem.providers /\ mem'.repos = mem.repos
        /\ mem'.phase = mem.phase /\ mem'.project = entry
    BY <1>1, <2>2, <2>4, <2>5 DEF Receipt
  <2>7. ~Reaches("link")'
    BY <2>3 DEF Reaches
  <2>9. Linked(mem)'
    BY <2>5, <2>6 DEF Linked
  <2>8. calm => projects[i].right /\ projects[i] = Done
    <3>1. calm => projects[i].right
      BY <1>1, <2>1 DEF Inductive, WorldInv, KnownInv
    <3>2. projects[i] \in Project /\ projects[i].there /\ projects[i].linked
      BY <1>1, <2>2 DEF OnGitHub, Link
    <3> QED BY <3>1, <3>2 DEF Project, Done
  <2> QED BY <1>1, <1>2, <2>3, <2>5, <2>6, <2>7, <2>8, <2>9, LinkingKeeps
          DEF Linking, GitHubQuiet
<1> QED BY <1>3, <1>4

-----------------------------------------------------------------------------
(* Beginnings and ends.                                                    *)

LEMMA BeginKeeps ==
  ASSUME Inductive, At("idle"), NEW pc \in {"verify", "check_sources"},
         mem' = file, cmd' = [Idle EXCEPT !.pc = pc], GitHubQuiet, calm' = TRUE,
         UNCHANGED <<file, faults, provided, crashes, meddles, given>>,
         uninits' \in 0..MaxUninits
  PROVE  Inductive'
<1>1. cmd' \in Commands /\ cmd'.pc = pc
  BY IdleIs DEF Idle, Commands, Pcs
<1>2. TypeOK'
  BY <1>1 DEF Inductive, TypeOK, GitHubQuiet, provided
<1>3. PhaseInv' /\ PlaceInv'
  BY <1>1 DEF PhaseInv, PlaceInv, Reaches, Linked, Preparing, Creating, Mutating, Linking, Adding,
     TakingBack
<1>4. ClaimsInv'
  <2>1. Theirs' = Theirs /\ Kept' = Kept /\ mem' = file /\ file' = file
    BY DEF Theirs, Kept, Ours, Who, provided
  <2>2. cmd'.pc \notin TakingBack \cup (Undoing \ {"check_sources"})
          \cup {"intend", "save_failure", "activate", "take_back", "undo"}
    BY <1>1 DEF TakingBack, Undoing
  <2> QED BY <2>1, <2>2 DEF Inductive, ClaimsInv
<1>5. WorldInv'
  <2>1. KnownInv'
    BY <1>1 DEF KnownInv, Reaches, Preparing, Creating, Mutating, Linking, Adding
  <2> QED BY <2>1 DEF Inductive, WorldInv, Linked
<1> QED BY <1>2, <1>3, <1>4, <1>5 DEF Inductive

LEMMA RunKeeps == ASSUME Inductive, Run PROVE Inductive'
BY BeginKeeps DEF Run, BeginInit, Inductive, TypeOK

LEMMA UnclaimKeeps == ASSUME Inductive, Unclaim PROVE Inductive'
<1>1. uninits' \in 0..MaxUninits
  BY InitializationAssumption DEF Unclaim, BeginUninit, Inductive, TypeOK
<1> QED BY <1>1, BeginKeeps DEF Unclaim, BeginUninit

LEMMA CrashKeeps == ASSUME Inductive, Crash PROVE Inductive'
<1>1. crashes' \in 0..MaxCrashes
  BY InitializationAssumption DEF Crash, Inductive, TypeOK
<1>2. BoundsOK' /\ ProvidedOK' /\ FileOK' /\ file' = file /\ UNCHANGED <<meddles, calm, given>>
      /\ Exit /\ GitHubQuiet
  BY <1>1 DEF Crash, Inductive, TypeOK, BoundsOK, ProvidedOK, FileOK, provided
<1>3. Theirs' = Theirs /\ Kept' = Kept
  BY DEF Crash, Theirs, Kept, Ours, Who, provided
<1>4. Claims(file') \cap Theirs = {} /\ Kept' \subseteq Claims(file')
  BY <1>2, <1>3 DEF Inductive, ClaimsInv
<1> QED BY <1>2, <1>3, <1>4, ExitKeeps

LEMMA SucceedKeeps ==
  ASSUME Inductive, Succeed, UNCHANGED <<crashes, meddles, calm, given>> PROVE Inductive'
BY LeaveKeeps DEF Succeed, Fine

\* A command that has failed leaves its recovery receipt, and the claims in it.
LEMMA SaveFailureKeeps ==
  ASSUME Inductive, SaveFailure, UNCHANGED <<provided, uninits, crashes, meddles, calm, given>>
  PROVE  Inductive'
<1>1. /\ cmd.pc = "save_failure" /\ GitHubQuiet /\ Exit /\ (Fault \/ Fine)
      /\ mem.phase \in {"needs_resume", "needs_manual_cleanup"}
  BY DEF SaveFailure, At, FailsOr, Inductive, PhaseInv
<1>2. CASE file' = file
  BY <1>1, <1>2, LeaveKeeps DEF SaveFailure, FailsOr
<1>3. CASE Valid(mem) /\ file' = mem
  <2>1. BoundsOK' /\ ProvidedOK' /\ FileOK'
    BY <1>1, <1>3, Faulty DEF SaveFailure, FailsOr, Inductive, TypeOK, BoundsOK, ProvidedOK,
       FileOK, provided, Valid, BindingMatches
  <2>2. Theirs' = Theirs /\ Kept' = Kept
    BY DEF Theirs, Kept, Ours, Who, provided
  <2>3. Claims(file') \cap Theirs = {} /\ Kept' \subseteq Claims(file')
    BY <1>1, <1>3, <2>2 DEF Inductive, ClaimsInv
  <2> QED BY <1>1, <1>3, <2>1, <2>2, <2>3, ExitKeeps
<1> QED BY <1>2, <1>3 DEF SaveFailure

-----------------------------------------------------------------------------
(* The providers.                                                          *)

\* Neither GitHub nor the receipt on the disk is touched.
LEMMA ProviderKeeps ==
  ASSUME Inductive, GitHubQuiet, UNCHANGED <<file, crashes, meddles, uninits, calm>>, Fault \/ Fine,
         ProvidedOK', mem' \in Receipt, cmd' \in Commands,
         PhaseInv', PlaceInv', ClaimsInv', calm => KnownInv'
  PROVE  Inductive'
<1>1. TypeOK'
  BY Faulty DEF Inductive, TypeOK, GitHubQuiet, ProvidedOK, ClaimsInv
<1>2. WorldInv'
  BY DEF Inductive, WorldInv, Linked
<1> QED BY <1>1, <1>2 DEF Inductive

LEMMA ConfirmKeeps ==
  ASSUME Inductive, Confirm, UNCHANGED <<crashes, meddles, calm, given>> PROVE Inductive'
<1>1. /\ cmd.pc = "confirm_all" /\ GitHubQuiet /\ file' = file /\ cmd \in Commands
      /\ UNCHANGED <<provided, uninits, crashes, meddles, calm, given>>
  BY DEF Confirm, At, Inductive, TypeOK
<1>2. Fault \/ Fine
  BY DEF Confirm, FailsOr
<1>3. CASE Exit
  BY <1>1, <1>2, <1>3, LeaveKeeps
<1>4. CASE ~Exit
  <2>1. ~Problems(mem) /\ mem' = mem /\ cmd' = [cmd EXCEPT !.pc = "succeed"]
    BY <1>4 DEF Confirm, Goto
  <2>2. cmd' \in Commands /\ cmd'.pc = "succeed"
    BY <1>1, <2>1 DEF Commands, Pcs
  <2>3. PhaseInv' /\ PlaceInv'
    BY <1>1, <2>1, <2>2 DEF Inductive, PhaseInv, PlaceInv, Reaches, Linked, Preparing, Creating, Mutating,
       Linking, Adding, TakingBack
  <2>4. calm => KnownInv'
    <3> SUFFICES ASSUME calm PROVE KnownInv'
      OBVIOUS
    <3>1. Verified(mem)' /\ SameRepos' /\ ProjectVerifies(mem.project)'
      BY <1>1, <2>1, SameKept DEF Inductive, WorldInv, KnownInv
    <3>2. ~Problems(mem)'
      BY <1>1, <2>1 DEF Problems, Who, provided
    <3> QED BY <2>2, <3>1, <3>2 DEF KnownInv, Reaches, Preparing, Creating, Mutating, Linking, Adding
  <2> QED BY <1>1, <1>2, <2>1, <2>2, <2>3, <2>4, MoveKeeps
<1> QED BY <1>3, <1>4

LEMMA BecomesIs ==
  ASSUME ProvidedOK, NEW t \in Things, NEW who, Becomes(t, who),
         IF t[2] = Shop THEN who \in Markets ELSE who \in States
  PROVE  ProvidedOK' /\ \A u \in Things : Who(u)' = IF u = t THEN who ELSE Who(u)
<1>1. t[1] \in P /\ (t[2] = Shop \/ t[2] \in Plugins) /\ Shop \notin Plugins
      /\ t = <<t[1], t[2]>>
  BY InitializationAssumption DEF Things, Shop
<1>2. CASE t[2] = Shop
  <2>1. market' = [market EXCEPT ![t[1]] = who] /\ plugin' = plugin
    BY <1>2 DEF Becomes
  <2>2. market' \in [P -> Markets]
    BY <1>1, <1>2, <2>1 DEF ProvidedOK
  <2>3. \A i \in P : market'[i] = IF <<i, Shop>> = t THEN who ELSE market[i]
    BY <1>1, <1>2, <2>1 DEF ProvidedOK
  <2>4. \A u \in Things : /\ u[1] \in P /\ u = <<u[1], u[2]>>
                          /\ u[2] = Shop \/ u[2] \in Plugins
    BY DEF Things
  <2> QED BY <1>1, <1>2, <2>1, <2>2, <2>3, <2>4 DEF ProvidedOK, Who
<1>3. CASE t[2] # Shop
  <2>1. plugin' = [plugin EXCEPT ![t[1]] = [plugin[t[1]] EXCEPT ![t[2]] = who]] /\ market' = market
    BY <1>3 DEF Becomes
  <2>2. plugin' \in [P -> [Plugins -> States]]
    BY <1>1, <1>3, <2>1 DEF ProvidedOK
  <2>3. \A i \in P, g \in Plugins : plugin'[i][g] = IF <<i, g>> = t THEN who ELSE plugin[i][g]
    BY <1>1, <1>3, <2>1 DEF ProvidedOK
  <2>4. \A u \in Things : /\ u[1] \in P /\ u = <<u[1], u[2]>>
                          /\ u[2] = Shop \/ u[2] \in Plugins
    BY DEF Things
  <2> QED BY <1>1, <1>3, <2>1, <2>2, <2>3, <2>4 DEF ProvidedOK, Who
<1> QED BY <1>2, <1>3

\* A thing is taken away, or it stays.
LEMMA Taken ==
  ASSUME ProvidedOK, NEW t \in Things, UNCHANGED provided \/ Becomes(t, "none")
  PROVE  /\ ProvidedOK' /\ Ours' \subseteq Ours /\ Theirs' \subseteq Theirs
         /\ given' = given => Kept' \subseteq Kept
<1>1. CASE UNCHANGED provided
  BY <1>1 DEF provided, ProvidedOK, Ours, Theirs, Kept, Who
<1>2. CASE Becomes(t, "none")
  <2>1. ProvidedOK' /\ \A u \in Things : Who(u)' = IF u = t THEN "none" ELSE Who(u)
    BY <1>2, BecomesIs DEF Markets, States
  <2> QED BY <2>1 DEF Ours, Theirs, Kept
<1> QED BY <1>1, <1>2

\* A thing is added, or it stays.
LEMMA Added ==
  ASSUME ProvidedOK, NEW t \in Things, UNCHANGED provided \/ (~Present(t) /\ Becomes(t, "agx"))
  PROVE  /\ ProvidedOK' /\ Theirs' \subseteq Theirs /\ Ours' \subseteq Ours \cup {t}
         /\ given' = given => Kept' \subseteq Kept \cup {t}
<1>1. CASE UNCHANGED provided
  BY <1>1 DEF provided, ProvidedOK, Ours, Theirs, Kept, Who
<1>2. CASE Becomes(t, "agx")
  <2>1. ProvidedOK' /\ \A u \in Things : Who(u)' = IF u = t THEN "agx" ELSE Who(u)
    BY <1>2, BecomesIs DEF Markets, States
  <2> QED BY <2>1 DEF Ours, Theirs, Kept
<1> QED BY <1>1, <1>2

\* mergeProviderOwnership, with the things that are not there.
Merged(i) ==
  IF i <= Len(mem.providers)
    THEN [market |-> mem.providers[i].market,
          added |-> mem.providers[i].added \cup {g \in Plugins : plugin[i][g] = "none"}]
    ELSE [market |-> market[i] = "none", added |-> {g \in Plugins : plugin[i][g] = "none"}]

LEMMA MergedIs ==
  ASSUME Inductive, NEW i \in P
  PROVE  /\ Merged(i) \in Ownership
         /\ i <= Len(mem.providers) =>
              /\ mem.providers[i].market = Merged(i).market
              /\ mem.providers[i].added \subseteq Merged(i).added
         /\ Merged(i).market => market[i] = "none" \/
              (i <= Len(mem.providers) /\ mem.providers[i].market)
         /\ \A g \in Merged(i).added : plugin[i][g] = "none" \/
              (i <= Len(mem.providers) /\ g \in mem.providers[i].added)
<1>1. mem \in Receipt /\ Len(mem.providers) \in Nat
      /\ mem.providers \in [1..Len(mem.providers) -> Ownership]
      /\ i \in Nat /\ i >= 1
  BY Lengths DEF Inductive, TypeOK
<1>2. PICK b \in BOOLEAN : b = (market[i] = "none")
  <2>1. (market[i] = "none") \in BOOLEAN
    OBVIOUS
  <2> QED BY <2>1, Zenon
<1>3. PICK absent \in SUBSET Plugins : absent = {g \in Plugins : plugin[i][g] = "none"}
  OBVIOUS
<1>4. CASE i <= Len(mem.providers)
  <2>1. mem.providers[i] \in Ownership
    BY <1>1, <1>4
  <2>2. Merged(i) = [market |-> mem.providers[i].market, added |-> mem.providers[i].added \cup absent]
    BY <1>3, <1>4 DEF Merged
  <2> QED BY <1>3, <1>4, <2>1, <2>2 DEF Ownership
<1>5. CASE ~(i <= Len(mem.providers))
  <2>1. Merged(i) = [market |-> b, added |-> absent]
    BY <1>2, <1>3, <1>5 DEF Merged
  <2>2. Merged(i).market = b /\ Merged(i).added = absent /\ Merged(i) \in Ownership
    BY <2>1 DEF Ownership
  <2>3. b => market[i] = "none"
    BY <1>2
  <2>4. \A g \in absent : plugin[i][g] = "none"
    BY <1>3
  <2> QED BY <1>5, <2>2, <2>3, <2>4
<1> QED BY <1>4, <1>5

LEMMA RecheckKeeps ==
  ASSUME Inductive, Recheck, UNCHANGED <<crashes, meddles, calm, given>> PROVE Inductive'
<1>1. /\ cmd.pc = "recheck" /\ GitHubQuiet /\ file' = file /\ cmd \in Commands /\ FileOK'
      /\ mem \in Receipt /\ UNCHANGED <<provided, uninits, crashes, meddles, calm, given>>
      /\ mem.providers = file.providers /\ ProvidedOK'
  BY DEF Recheck, At, Inductive, TypeOK, ClaimsInv, Agreeing, Linking, FileOK, provided, ProvidedOK
<1>2. Fault \/ Fine
  BY DEF Recheck, FailsOr
<1>3. CASE Fail
  BY <1>1, <1>2, <1>3, FailKeeps DEF Fail, Goto, Linking
<1>4. CASE ~Fail
  <2>1. PICK prov : prov = [i \in P |-> Merged(i)]
    OBVIOUS
  <2>2. /\ mem' = [mem EXCEPT !.phase = "provisioning", !.providers = prov]
        /\ cmd' = [cmd EXCEPT !.pc = "intend", !.left = {t \in Claims(mem') : ~Present(t)}]
    <3>1. \A i \in P : Merged(i) =
            [market |-> (IF i <= Len(mem.providers) THEN mem.providers[i]
                         ELSE [market |-> market[i] = "none", added |-> {}]).market,
             added |-> (IF i <= Len(mem.providers) THEN mem.providers[i]
                         ELSE [market |-> market[i] = "none", added |-> {}]).added
                       \cup {g \in Plugins : plugin[i][g] = "none"}]
      BY DEF Merged
    <3> QED BY <1>4, <2>1, <3>1 DEF Recheck
  <2>3. /\ prov \in [1..Len(Providers) -> Ownership] /\ Len(prov) = Len(Providers)
        /\ \A i \in P : prov[i] = Merged(i)
    <3>1. prov \in [1..Len(Providers) -> Ownership] /\ \A i \in P : prov[i] = Merged(i)
      BY <2>1, MergedIs, Lengths
    <3> QED BY <3>1, Lengths
  <2>4. /\ mem' \in Receipt /\ mem'.phase = "provisioning" /\ mem'.providers = prov
        /\ mem'.repos = mem.repos /\ mem'.project = mem.project
    <3>1. prov \in UNION {[1..n -> Ownership] : n \in 0..Len(Providers)}
      BY <2>3, Lengths
    <3> QED BY <1>1, <2>2, <3>1 DEF Receipt, Phases
  <2>5. \A t \in Things : /\ t[1] \in P /\ t[1] <= Len(Providers)
                          /\ t[2] # Shop => t[2] \in Plugins
    BY Lengths DEF Things
  <2>6. Claims(mem) \subseteq Claims(mem')
    BY <2>3, <2>4, <2>5, MergedIs DEF Claims
  <2>7. \A t \in Claims(mem') : t \in Claims(mem) \/ Who(t) = "none"
    BY <2>3, <2>4, <2>5, MergedIs DEF Claims, Who
  <2>8. Theirs' = Theirs /\ Kept' = Kept /\ given' = given
    BY <1>1 DEF Theirs, Kept, Ours, Who, provided
  <2>9. cmd' \in Commands /\ cmd'.pc = "intend" /\ cmd'.left \subseteq Claims(mem')
    <3>1. PICK left : left = {t \in Claims(mem') : ~Present(t)}
      OBVIOUS
    <3>2. left \in SUBSET Things
      BY <2>4, <3>1, ClaimsOf
    <3> QED BY <1>1, <2>2, <3>1, <3>2 DEF Commands, Pcs
  <2>10. ClaimsInv'
    <3>1. Claims(file) = Claims(mem)
      BY <1>1, ClaimsOf DEF Inductive, TypeOK
    <3>2. Claims(mem') \cap Theirs = {}
      BY <2>7 DEF Inductive, ClaimsInv, Theirs
    <3>3. cmd'.pc \notin Agreeing \cup TakingBack \cup Undoing \cup {"save_failure"}
      BY <2>9 DEF Agreeing, Preparing, Creating, Mutating, Linking, Adding, Undoing, TakingBack
    <3> QED BY <1>1, <2>6, <2>8, <2>9, <3>1, <3>2, <3>3 DEF Inductive, ClaimsInv
  <2>11. PhaseInv' /\ PlaceInv'
    BY <1>1, <2>3, <2>4, <2>9 DEF Inductive, PhaseInv, PlaceInv, Reaches, Linked, Missing, Preparing, Creating,
       Mutating, Linking, Adding, TakingBack
  <2>12. calm => KnownInv'
    <3>1. calm => Deployed(mem)
      BY <1>1 DEF Inductive, WorldInv, KnownInv, Reaches
    <3>2. calm => Deployed(mem)'
      BY <1>1, <2>4, <3>1 DEF Deployed, GitHubQuiet, RepoVerifies, There, Template
    <3> QED BY <2>9, <3>2 DEF KnownInv, Reaches, Preparing, Creating, Mutating, Linking, Adding
  <2> QED BY <1>1, <1>2, <2>4, <2>9, <2>10, <2>11, <2>12, ProviderKeeps
<1> QED BY <1>3, <1>4

LEMMA IntendKeeps ==
  ASSUME Inductive, Intend, UNCHANGED <<crashes, meddles, calm>> PROVE Inductive'
<1>1. /\ cmd.pc = "intend" /\ GitHubQuiet /\ cmd \in Commands /\ mem \in Receipt
      /\ UNCHANGED <<provided, uninits, crashes, meddles, calm>>
      /\ mem.phase = "provisioning" /\ Len(mem.providers) = Len(Providers)
  BY DEF Intend, At, Inductive, TypeOK, PhaseInv, PlaceInv
<1>2. Fault \/ Fine
  BY DEF Intend
<1>3. CASE Exit /\ UNCHANGED <<file, given>>
  BY <1>1, <1>2, <1>3, LeaveKeeps
<1>4. CASE file' = mem /\ Goto("activate") /\ UNCHANGED mem /\ given' = given \ Claims(mem)
  <2>1. cmd' = [cmd EXCEPT !.pc = "activate"] /\ mem' = mem /\ file' = mem
    BY <1>4 DEF Goto
  <2>2. cmd' \in Commands /\ cmd'.pc = "activate" /\ cmd'.left = cmd.left
    BY <1>1, <2>1 DEF Commands, Pcs
  <2>3. TypeOK'
    <3>1. Valid(mem)
      BY <1>1, Lengths DEF Valid, BindingMatches
    <3> QED BY <1>1, <1>2, <1>4, <2>1, <2>2, <3>1, Faulty
            DEF Inductive, TypeOK, GitHubQuiet, provided, Valid, BindingMatches
  <2>4. PhaseInv' /\ PlaceInv'
    BY <1>1, <2>1, <2>2 DEF Inductive, PhaseInv, PlaceInv, Reaches, Linked, Missing, Preparing,
       Creating, Mutating, Linking, Adding, TakingBack
  <2>5. ClaimsInv'
    <3>1. Theirs' = Theirs /\ Ours' = Ours
      BY <1>1 DEF Theirs, Ours, Who, provided
    <3>2. cmd'.pc \notin TakingBack \cup Undoing \cup {"intend", "save_failure"}
      BY <2>2 DEF TakingBack, Undoing
    <3>3. Claims(file) \subseteq Claims(mem) /\ cmd.left \subseteq Claims(mem)
          /\ Kept \subseteq Claims(file) /\ Claims(mem) \cap Theirs = {}
      BY <1>1 DEF Inductive, ClaimsInv
    <3>4. Kept' \subseteq Claims(mem)
      BY <1>4, <3>1, <3>3 DEF Kept
    <3>5. given' \subseteq {t \in Things : t[1] > 1}
      BY <1>4 DEF Inductive, ClaimsInv
    <3>6. Claims(file)' = Claims(mem) /\ Claims(mem)' = Claims(mem)
      BY <2>1 DEF Claims
    <3> QED BY <2>1, <2>2, <3>1, <3>2, <3>3, <3>4, <3>5, <3>6 DEF ClaimsInv
  <2>6. WorldInv'
    <3>1. calm => Deployed(mem)
      BY <1>1 DEF Inductive, WorldInv, KnownInv
    <3>2. calm => Deployed(mem)'
      BY <1>1, <2>1, <3>1 DEF Deployed, GitHubQuiet, RepoVerifies, There, Template
    <3>3. calm => KnownInv'
      BY <2>2, <3>2 DEF KnownInv, Reaches, Preparing, Creating, Mutating, Linking, Adding
    <3> QED BY <1>1, <2>1, <3>3 DEF Inductive, WorldInv
  <2> QED BY <2>3, <2>4, <2>5, <2>6 DEF Inductive
<1> QED BY <1>3, <1>4 DEF Intend

LEMMA Shortened ==
  ASSUME NEW receipt \in Receipt, NEW i \in 1..Len(receipt.providers),
         NEW short, short = [receipt EXCEPT !.providers = SubSeq(@, 1, i)]
  PROVE  /\ short \in Receipt /\ Len(short.providers) = i
         /\ short.phase = receipt.phase /\ short.repos = receipt.repos
         /\ Claims(short) = {t \in Claims(receipt) : t[1] <= i}
<1>1. PICK part : part = SubSeq(receipt.providers, 1, i)
  OBVIOUS
<1>2. /\ Len(receipt.providers) \in 0..Len(Providers) /\ Len(Providers) \in Nat
      /\ receipt.providers \in Seq(Ownership) /\ i \in Nat /\ i <= Len(receipt.providers)
      /\ receipt.providers \in [1..Len(receipt.providers) -> Ownership] /\ i >= 1
  BY Lengths
<1>3. part \in Seq(Ownership) /\ Len(part) = i /\ \A j \in 1..i : part[j] = receipt.providers[j]
  BY <1>1, <1>2
<1>4. part \in [1..i -> Ownership] /\ i \in 0..Len(Providers)
  BY <1>2, <1>3
<1>5. part \in UNION {[1..n -> Ownership] : n \in 0..Len(Providers)}
  BY <1>4
<1>6. /\ short \in Receipt /\ short.providers = part
      /\ short.phase = receipt.phase /\ short.repos = receipt.repos
  BY <1>1, <1>5 DEF Receipt
<1>7. Claims(short) = {t \in Claims(receipt) : t[1] <= i}
  <2>1. \A t \in Things : t[1] \in Nat /\ t[1] >= 1
    BY Lengths DEF Things
  <2>2. \A t \in Things : t[1] <= i => short.providers[t[1]] = receipt.providers[t[1]]
    BY <1>2, <1>3, <1>6, <2>1
  <2> QED BY <1>2, <1>3, <1>6, <2>1, <2>2 DEF Claims
<1> QED BY <1>3, <1>6, <1>7

LEMMA CompensateKeeps ==
  ASSUME Inductive, cmd.pc \in Adding, NEW i \in 1..Len(mem.providers), Compensate(i),
         GitHubQuiet, UNCHANGED <<file, crashes, meddles, uninits, calm>>, Fault \/ Fine,
         ProvidedOK', Theirs' \subseteq Theirs, Ours' \ given \subseteq Claims(file)
  PROVE  Inductive'
<1>1. /\ mem \in Receipt /\ cmd \in Commands /\ Len(mem.providers) = Len(Providers)
      /\ mem.providers = file.providers /\ file \in Receipt
  BY DEF Inductive, TypeOK, PlaceInv, ClaimsInv, Agreeing
<1>2. /\ mem' \in Receipt /\ Len(mem'.providers) = i
      /\ Claims(mem') = {t \in Claims(mem) : t[1] <= i}
  BY <1>1, Shortened DEF Compensate
<1>3. /\ cmd' \in Commands /\ cmd'.pc = "compensate" /\ cmd'.at = i
      /\ given' = given \cup {t \in Claims(mem) : t[1] > i}
  <2>1. i \in 0..Len(Providers) /\ {} \in SUBSET Things
    BY <1>1, Lengths
  <2> QED BY <1>1, <2>1 DEF Compensate, Commands, Pcs
<1>4. PhaseInv' /\ PlaceInv'
  <2>1. i \in 1..i
    BY <1>1, Lengths
  <2> QED BY <1>2, <1>3, <2>1 DEF PhaseInv, PlaceInv, Reaches, Linked, Preparing, Creating,
     Mutating, Linking, Adding, TakingBack
<1>5. ClaimsInv'
  <2>1. Claims(mem) = Claims(file) /\ Claims(mem) \subseteq Things
    BY <1>1, ClaimsOf
  <2>2. \A t \in Things : t[1] \in Nat /\ i \in Nat /\ i >= 1
    BY <1>1, Lengths DEF Things
  <2>3. /\ Kept' \subseteq Claims(mem') /\ \A t \in Kept' : t[1] <= i
    BY <1>2, <1>3, <2>1, <2>2 DEF Kept
  <2>4. given' \subseteq {t \in Things : t[1] > 1}
    BY <1>3, <2>1, <2>2 DEF Inductive, ClaimsInv
  <2>5. cmd'.pc \notin Agreeing /\ cmd'.pc \notin Undoing
    BY <1>3 DEF Agreeing, Preparing, Creating, Mutating, Linking, Adding, Undoing
  <2>6. Claims(file)' = Claims(file) /\ Claims(mem)' = Claims(mem')
    BY DEF Claims
  <2>7. Claims(mem') \subseteq Claims(mem)
    BY <1>2
  <2> QED BY <1>3, <2>1, <2>3, <2>4, <2>5, <2>6, <2>7 DEF Inductive, ClaimsInv
<1>6. KnownInv'
  BY <1>3 DEF KnownInv, Reaches, Preparing, Creating, Mutating, Linking, Adding
<1> QED BY <1>2, <1>3, <1>4, <1>5, <1>6, ProviderKeeps

LEMMA ActivateKeeps ==
  ASSUME Inductive, Activate, UNCHANGED <<crashes, meddles, calm>> PROVE Inductive'
<1>1. /\ cmd.pc = "activate" /\ GitHubQuiet /\ cmd \in Commands /\ mem \in Receipt
      /\ UNCHANGED <<file, crashes, meddles, uninits, calm>> /\ ProvidedOK /\ file \in Receipt
      /\ mem.providers = file.providers /\ cmd.left \subseteq Claims(mem)
      /\ cmd.pc \in Adding
  BY DEF Activate, At, Inductive, TypeOK, ProvidedOK, ClaimsInv, Agreeing, Adding
<1>2. Claims(mem) = Claims(file) /\ Claims(mem) \subseteq Things
  BY <1>1, ClaimsOf
<1>3. Fault \/ Fine
  BY DEF Activate
<1>4. calm => Deployed(mem)
  BY <1>1 DEF Inductive, WorldInv, KnownInv
<1>5. CASE cmd.left = {} /\ Goto("check_activation") /\ UNCHANGED <<mem, provided, given>>
  <2>1. cmd' \in Commands /\ cmd'.pc = "check_activation"
    BY <1>1, <1>5 DEF Goto, Commands, Pcs
  <2>2. PhaseInv' /\ PlaceInv'
    BY <1>1, <1>5, <2>1 DEF Inductive, PhaseInv, PlaceInv, Reaches, Linked, Missing, Preparing, Creating, Mutating,
       Linking, Adding, TakingBack
  <2>3. ClaimsInv'
    <3>1. Theirs' = Theirs /\ Kept' = Kept
      BY <1>5 DEF Theirs, Kept, Ours, Who, provided
    <3>2. cmd'.pc \notin TakingBack \cup Undoing
            \cup {"intend", "save_failure", "activate", "take_back", "undo"}
      BY <2>1 DEF TakingBack, Undoing
    <3> QED BY <1>1, <1>5, <2>1, <3>1, <3>2 DEF Inductive, ClaimsInv
  <2>4. calm => KnownInv'
    <3>1. calm => Deployed(mem)'
      BY <1>1, <1>4, <1>5 DEF Deployed, GitHubQuiet, RepoVerifies, There, Template
    <3> QED BY <2>1, <3>1 DEF KnownInv, Reaches, Preparing, Creating, Mutating, Linking, Adding
  <2> QED BY <1>1, <1>3, <1>5, <2>1, <2>2, <2>3, <2>4, ProviderKeeps DEF provided, ProvidedOK
<1>6. ASSUME NEW t \in cmd.left,
             UNCHANGED provided \/ (~Present(t) /\ Becomes(t, "agx")),
             UNCHANGED <<mem, given>>, cmd' = [cmd EXCEPT !.left = @ \ {t}]
      PROVE  Inductive'
  <2>1. cmd' \in Commands /\ cmd'.pc = "activate" /\ cmd'.left \subseteq cmd.left
    BY <1>1, <1>6 DEF Commands
  <2>2. ProvidedOK' /\ Theirs' \subseteq Theirs /\ Kept' \subseteq Kept \cup {t}
    BY <1>1, <1>2, <1>6, Added
  <2>3. PhaseInv' /\ PlaceInv'
    BY <1>1, <1>6, <2>1 DEF Inductive, PhaseInv, PlaceInv, Reaches, Linked, Missing, Preparing, Creating, Mutating,
       Linking, Adding, TakingBack
  <2>4. ClaimsInv'
    <3>1. cmd'.pc \notin TakingBack \cup Undoing \cup {"intend", "save_failure"}
      BY <2>1 DEF TakingBack, Undoing
    <3> QED BY <1>1, <1>2, <1>6, <2>1, <2>2, <3>1 DEF Inductive, ClaimsInv
  <2>5. calm => KnownInv'
    <3>1. calm => Deployed(mem)'
      BY <1>1, <1>4, <1>6 DEF Deployed, GitHubQuiet, RepoVerifies, There, Template
    <3> QED BY <2>1, <3>1 DEF KnownInv, Reaches, Preparing, Creating, Mutating, Linking, Adding
  <2> QED BY <1>1, <1>3, <1>6, <2>1, <2>2, <2>3, <2>4, <2>5, ProviderKeeps
<1>7. ASSUME NEW t \in cmd.left,
             UNCHANGED provided \/ (~Present(t) /\ Becomes(t, "agx")), Compensate(t[1])
      PROVE  Inductive'
  <2>1. ProvidedOK' /\ Theirs' \subseteq Theirs /\ Ours' \subseteq Ours \cup {t}
    BY <1>1, <1>2, <1>7, Added
  <2>2. Ours' \ given \subseteq Claims(file)
    BY <1>1, <1>2, <2>1 DEF Inductive, ClaimsInv, Kept
  <2>3. t[1] \in 1..Len(mem.providers)
    <3>1. t \in Things /\ t[1] <= Len(mem.providers)
      BY <1>1 DEF Claims
    <3> QED BY <1>1, <3>1, Lengths DEF Things
  <2> QED BY <1>1, <1>3, <1>7, <2>1, <2>2, <2>3, CompensateKeeps
<1> QED BY <1>5, <1>6, <1>7 DEF Activate

LEMMA CheckActivationKeeps ==
  ASSUME Inductive, CheckActivation, UNCHANGED <<crashes, meddles, calm>> PROVE Inductive'
<1>1. /\ cmd.pc = "check_activation" /\ GitHubQuiet /\ cmd \in Commands /\ mem \in Receipt
      /\ UNCHANGED <<file, crashes, meddles, uninits, calm, provided>> /\ ProvidedOK'
      /\ cmd.pc \in Adding /\ Len(mem.providers) = Len(Providers)
      /\ mem.providers = file.providers /\ file \in Receipt
  BY DEF CheckActivation, At, Inductive, TypeOK, ProvidedOK, provided, Adding, PlaceInv, ClaimsInv,
     Agreeing
<1>2. Fault \/ Fine
  BY DEF CheckActivation, FailsOr
<1>3. Theirs' = Theirs /\ Ours' = Ours
  BY <1>1 DEF Theirs, Ours, Who, provided
<1>4. CASE Compensate(Len(mem.providers))
  <2>1. Len(mem.providers) \in 1..Len(mem.providers)
    BY <1>1, Lengths
  <2>2. Ours' \ given \subseteq Claims(file)
    BY <1>3 DEF Inductive, ClaimsInv, Kept
  <2> QED BY <1>1, <1>2, <1>3, <1>4, <2>1, <2>2, CompensateKeeps
<1>5. CASE /\ ~Problems(mem) /\ Goto("finish") /\ mem' = [mem EXCEPT !.phase = "initialized"]
           /\ UNCHANGED given
  <2>1. cmd' \in Commands /\ cmd'.pc = "finish"
    BY <1>1, <1>5 DEF Goto, Commands, Pcs
  <2>2. /\ mem' \in Receipt /\ mem'.providers = mem.providers /\ mem'.phase = "initialized"
        /\ mem'.repos = mem.repos /\ mem'.project = mem.project
    BY <1>1, <1>5 DEF Receipt, Phases
  <2>3. PhaseInv' /\ PlaceInv'
    BY <1>1, <2>1, <2>2 DEF Inductive, PhaseInv, PlaceInv, Reaches, Linked, Missing, Preparing, Creating, Mutating,
       Linking, Adding, TakingBack
  <2>4. ClaimsInv'
    <3>1. cmd'.pc \notin TakingBack \cup Undoing
            \cup {"intend", "save_failure", "activate", "take_back", "undo"}
      BY <2>1 DEF TakingBack, Undoing
    <3>2. Claims(mem') = Claims(mem)
      BY <1>1, <2>2, ClaimsOf
    <3>3. Kept' = Kept
      BY <1>3, <1>5 DEF Kept
    <3> QED BY <1>1, <1>3, <1>5, <2>2, <3>1, <3>2, <3>3 DEF Inductive, ClaimsInv
  <2>5. calm => KnownInv'
    <3>1. calm => Deployed(mem)
      BY <1>1 DEF Inductive, WorldInv, KnownInv
    <3>2. calm => Deployed(mem)'
      BY <1>1, <2>2, <3>1 DEF Deployed, GitHubQuiet, RepoVerifies, There, Template
    <3>3. ~Problems(mem)'
      BY <1>1, <1>5, <2>2 DEF Problems, Who, provided
    <3> QED BY <2>1, <3>2, <3>3 DEF KnownInv, Reaches, Preparing, Creating, Mutating, Linking, Adding
  <2> QED BY <1>1, <1>2, <2>1, <2>2, <2>3, <2>4, <2>5, ProviderKeeps
<1> QED BY <1>4, <1>5 DEF CheckActivation

LEMMA FinishKeeps ==
  ASSUME Inductive, Finish, UNCHANGED <<crashes, meddles, calm, given>> PROVE Inductive'
<1>1. /\ cmd.pc = "finish" /\ GitHubQuiet /\ cmd \in Commands /\ mem \in Receipt
      /\ UNCHANGED <<crashes, meddles, uninits, provided, calm, given>>
      /\ mem.providers = file.providers /\ file \in Receipt /\ mem.phase = "initialized"
  BY DEF Finish, At, Inductive, TypeOK, PhaseInv, Adding, ClaimsInv, Agreeing
<1>2. Fault \/ Fine
  BY DEF Finish, FailsOr
<1>3. CASE Exit /\ UNCHANGED file
  BY <1>1, <1>2, <1>3, LeaveKeeps
<1>4. CASE Valid(mem) /\ file' = mem /\ Goto("succeed") /\ UNCHANGED mem
  <2>1. cmd' \in Commands /\ cmd'.pc = "succeed"
    BY <1>1, <1>4 DEF Goto, Commands, Pcs
  <2>2. TypeOK'
    BY <1>1, <1>2, <1>4, <2>1, Faulty
       DEF Inductive, TypeOK, GitHubQuiet, provided, Valid, BindingMatches
  <2>3. PhaseInv' /\ PlaceInv'
    BY <1>1, <1>4, <2>1 DEF Inductive, PhaseInv, PlaceInv, Reaches, Linked, Preparing, Creating, Mutating,
       Linking, Adding, TakingBack
  <2>4. ClaimsInv'
    <3>1. Theirs' = Theirs /\ Kept' = Kept
      BY <1>1 DEF Theirs, Kept, Ours, Who, provided
    <3>2. cmd'.pc \notin TakingBack \cup Undoing
            \cup {"intend", "save_failure", "activate", "take_back", "undo"}
      BY <2>1 DEF TakingBack, Undoing
    <3>3. Claims(mem) = Claims(file)
      BY <1>1, ClaimsOf
    <3> QED BY <1>1, <1>4, <3>1, <3>2, <3>3 DEF Inductive, ClaimsInv
  <2>5. WorldInv'
    <3>1. calm => Deployed(mem) /\ ~Problems(mem)
      BY <1>1 DEF Inductive, WorldInv, KnownInv, Adding
    <3>2. calm => Deployed(mem)'
      BY <1>1, <1>4, <3>1 DEF Deployed, GitHubQuiet, RepoVerifies, There, Template
    <3>3. calm => ~Problems(mem)'
      BY <1>1, <1>4, <3>1 DEF Problems, Who, provided
    <3>4. calm => KnownInv'
      <4> SUFFICES ASSUME calm PROVE KnownInv'
        OBVIOUS
      <4>1. Verified(mem)' /\ SameRepos'
        BY <1>4, <3>2 DEF Deployed, Verified, SameRepos
      <4>2. There("control")' /\ Template("control")'
        BY <3>2 DEF Deployed, RepoVerifies, Repos
      <4>3. ProjectVerifies(mem.project)'
        <5>1. PICK p \in ProjectEntry : p = mem'.project
          BY <2>2 DEF TypeOK, Receipt
        <5>2. p.right = TRUE /\ p.id \in Ids /\ projects'[p.id] = Done
          BY <3>2, <5>1 DEF Deployed, ProjectEntry
        <5>3. projects'[p.id].there = TRUE /\ projects'[p.id].right = TRUE /\ projects'[p.id].linked
          BY <5>2 DEF Done
        <5>4. ProjectRevalidates(mem.project)'
          BY <5>1, <5>2, <5>3 DEF ProjectRevalidates, OnGitHub
        <5>5. Link(projects[mem.project.id])'
          BY <4>2, <5>1, <5>3 DEF Link
        <5> QED BY <5>4, <5>5 DEF ProjectVerifies
      <4> QED BY <2>1, <3>3, <4>1, <4>3 DEF KnownInv, Reaches, Preparing, Creating, Mutating,
         Linking, Adding
    <3>5. Linked(mem)
      BY <1>1 DEF Inductive, PlaceInv, Adding
    <3>6. meddles = 0 => calm /\ mem.project.right
      BY <3>1 DEF Inductive, WorldInv, Deployed
    <3>7. Linked(file)'
      BY <1>4, <3>5 DEF Linked
    <3> QED BY <1>1, <1>4, <3>4, <3>6, <3>7 DEF WorldInv
  <2> QED BY <2>2, <2>3, <2>4, <2>5 DEF Inductive
<1> QED BY <1>3, <1>4 DEF Finish

-----------------------------------------------------------------------------
(* Taking back.                                                            *)

LEMMA NothingRemains ==
  ASSUME Inductive, cmd.pc \in TakingBack \cup Undoing, Remaining = {}
  PROVE  \A t \in Kept : t[1] # cmd.at
<1>1. Kept \subseteq Claims(mem)
  <2>1. CASE cmd.pc \in TakingBack
    BY <2>1 DEF Inductive, ClaimsInv
  <2>2. CASE cmd.pc \in Undoing
    <3>1. mem.providers = file.providers /\ mem \in Receipt /\ file \in Receipt
      BY <2>2 DEF Inductive, TypeOK, ClaimsInv, Agreeing
    <3> QED BY <3>1, ClaimsOf DEF Inductive, ClaimsInv
  <2> QED BY <2>1, <2>2
<1>2. \A t \in Kept : Present(t)
  BY DEF Kept, Ours, Present
<1> QED BY <1>1, <1>2 DEF Remaining

\* A step of the compensation or of Uninitialize that takes at most one thing.
LEMMA ReversingKeeps ==
  ASSUME Inductive, GitHubQuiet,
         UNCHANGED <<file, mem, crashes, meddles, uninits, calm, given>>,
         Fault \/ Fine, NEW t \in Things, UNCHANGED provided \/ Becomes(t, "none"),
         \/ cmd.pc \in TakingBack /\ cmd'.pc \in TakingBack
         \/ cmd.pc \in Undoing /\ cmd'.pc \in Undoing,
         cmd' \in Commands,
         cmd'.pc \in (TakingBack \ {"settle"}) \cup {"undo", "undo_market", "undo_check"} =>
           cmd'.at \in 1..Len(mem.providers),
         cmd'.pc \in {"settle", "remove_receipt"} => cmd'.at = 0,
         cmd'.pc \in {"take_back", "undo"} => cmd'.left \subseteq Claims(mem),
         \/ cmd'.pc \in TakingBack /\ cmd'.err
         \/ /\ cmd.pc # "check_sources" /\ cmd'.err = cmd.err
            /\ cmd'.at = cmd.at \/ (Remaining = {} /\ cmd'.at = cmd.at - 1)
         \/ cmd.pc = "check_sources" /\ cmd'.at = Len(mem.providers)
  PROVE  Inductive'
<1>1. ProvidedOK' /\ Theirs' \subseteq Theirs /\ Kept' \subseteq Kept
  BY Taken DEF Inductive, TypeOK, ProvidedOK
<1>2. mem \in Receipt /\ file \in Receipt /\ mem' = mem /\ file' = file /\ cmd \in Commands
  BY DEF Inductive, TypeOK
<1>3. PhaseInv' /\ PlaceInv'
  BY <1>2 DEF PhaseInv, PlaceInv, Reaches, Linked, Preparing, Creating, Mutating, Linking, Adding,
     TakingBack, Undoing
<1>4. /\ cmd.pc \in TakingBack => cmd.pc \notin Agreeing /\ cmd'.pc \notin Agreeing
      /\ cmd.pc \in Undoing => cmd.pc \in Agreeing /\ cmd'.pc \notin TakingBack
      /\ cmd.pc \in TakingBack => cmd'.pc \notin Undoing
      /\ cmd'.pc \notin {"intend", "save_failure", "activate"}
  BY DEF TakingBack, Agreeing, Undoing, Preparing, Creating, Mutating, Linking, Adding
<1>5. ASSUME (cmd'.pc \in TakingBack /\ ~cmd'.err) \/ cmd'.pc \in Undoing \ {"check_sources"}
      PROVE  \A u \in Kept : u[1] <= cmd'.at
  <2>1. /\ cmd.at \in Nat
        /\ Kept \subseteq Things /\ \A u \in Things : u[1] \in Nat
    BY <1>2, Lengths DEF Commands, Kept, Ours, Things
  <2>2. CASE cmd.pc = "check_sources" /\ cmd'.at = Len(mem.providers)
    <3>1. Claims(mem) = Claims(file)
      BY <1>2, <2>2, ClaimsOf DEF Inductive, ClaimsInv, Agreeing, Undoing
    <3> QED BY <2>2, <3>1 DEF Inductive, ClaimsInv, Claims
  <2>3. CASE /\ cmd.pc # "check_sources" /\ cmd'.err = cmd.err
             /\ cmd'.at = cmd.at \/ (Remaining = {} /\ cmd'.at = cmd.at - 1)
    <3>1. \A u \in Kept : u[1] <= cmd.at
      BY <1>4, <1>5, <2>3 DEF Inductive, ClaimsInv
    <3>2. Remaining = {} => \A u \in Kept : u[1] # cmd.at
      BY NothingRemains
    <3> QED BY <2>1, <2>3, <3>1, <3>2
  <2> QED BY <1>4, <1>5, <2>2, <2>3
<1>6. ClaimsInv'
  <2>1. Claims(file)' = Claims(file) /\ Claims(mem)' = Claims(mem)
    BY DEF Claims
  <2> QED BY <1>1, <1>2, <1>4, <1>5, <2>1 DEF Inductive, ClaimsInv
<1>7. KnownInv'
  BY DEF KnownInv, Reaches, Preparing, Creating, Mutating, Linking, Adding, TakingBack, Undoing
<1> QED BY <1>1, <1>2, <1>3, <1>6, <1>7, ProviderKeeps

\* Where Compensate and Uninitialize are.
LEMMA At1 ==
  ASSUME Inductive, cmd.at \in 1..Len(mem.providers)
  PROVE  /\ cmd.at \in P /\ cmd.at - 1 \in 0..Len(Providers) /\ <<cmd.at, Shop>> \in Things
         /\ cmd.at - 1 # 0 => cmd.at - 1 \in 1..Len(mem.providers)
         /\ cmd.at - 1 = 0 => cmd.at = 1
<1>1. /\ Len(mem.providers) \in 0..Len(Providers) /\ Len(Providers) \in Nat
      /\ P = 1..Len(Providers)
  BY Lengths DEF Inductive, TypeOK
<1> QED BY <1>1 DEF Things

LEMMA ToProviderIs ==
  ASSUME Inductive, cmd.at \in 1..Len(mem.providers), NEW c \in Commands,
         ToProvider(c, cmd.at - 1)
  PROVE  /\ cmd' \in Commands /\ cmd'.err = c.err
         /\ cmd'.pc = IF cmd.at = 1 THEN "settle" ELSE "compensate"
         /\ cmd.at # 1 => cmd'.at \in 1..Len(mem.providers)
         /\ cmd'.at = cmd.at - 1 /\ (cmd.at = 1 => cmd'.at = 0)
<1>1. PICK i \in 0..Len(Providers) : i = cmd.at - 1
  BY At1
<1>2. i = 0 <=> cmd.at = 1
  <2>1. Len(mem.providers) \in Nat
    BY Lengths DEF Inductive, TypeOK
  <2> QED BY <1>1, <2>1
<1>3. cmd' = [c EXCEPT !.at = i, !.left = {}, !.pc = IF i = 0 THEN "settle" ELSE "compensate"]
  BY <1>1 DEF ToProvider
<1>4. cmd' \in Commands /\ cmd'.err = c.err /\ cmd'.at = i
      /\ cmd'.pc = IF i = 0 THEN "settle" ELSE "compensate"
  BY <1>3 DEF Commands, Pcs
<1> QED BY <1>1, <1>2, <1>4, At1

LEMMA CompensateProviderKeeps ==
  ASSUME Inductive, CompensateProvider, UNCHANGED <<crashes, meddles, calm, given>> PROVE Inductive'
<1>1. /\ cmd.pc = "compensate" /\ GitHubQuiet /\ cmd \in Commands /\ mem \in Receipt
      /\ UNCHANGED <<file, mem, crashes, meddles, uninits, calm, given, provided>>
      /\ cmd.pc \in TakingBack /\ cmd.at \in 1..Len(mem.providers)
  BY DEF CompensateProvider, Quiet, At, Inductive, TypeOK, TakingBack, PlaceInv
<1>2. Fault \/ Fine
  BY DEF CompensateProvider, FailsOr
<1>3. CASE ToProvider(Failed, cmd.at - 1)
  <2>1. Failed \in Commands /\ Failed.err = TRUE
    BY <1>1 DEF Failed, Commands
  <2>2. /\ cmd' \in Commands /\ cmd'.err = TRUE
        /\ cmd'.pc = IF cmd.at = 1 THEN "settle" ELSE "compensate"
        /\ cmd.at # 1 => cmd'.at \in 1..Len(mem.providers)
        /\ cmd.at = 1 => cmd'.at = 0
    BY <1>1, <1>3, <2>1, ToProviderIs
  <2> QED BY <1>1, <1>2, <2>2, At1, ReversingKeeps DEF TakingBack
<1>4. CASE cmd' = [cmd EXCEPT !.pc = "take_back", !.left = {t \in Remaining : t[2] # Shop}]
  <2>1. PICK left : left = {t \in Remaining : t[2] # Shop}
    OBVIOUS
  <2>2. left \subseteq Claims(mem) /\ left \in SUBSET Things
    BY <1>1, <2>1, ClaimsOf DEF Remaining
  <2>3. /\ cmd' \in Commands /\ cmd'.pc = "take_back" /\ cmd'.left = left /\ cmd'.at = cmd.at
        /\ cmd'.err = cmd.err
    BY <1>1, <1>4, <2>1, <2>2 DEF Commands, Pcs
  <2> QED BY <1>1, <1>2, <2>2, <2>3, At1, ReversingKeeps DEF TakingBack
<1> QED BY <1>3, <1>4 DEF CompensateProvider

LEMMA TakeBackPluginKeeps ==
  ASSUME Inductive, TakeBackPlugin, UNCHANGED <<crashes, meddles, calm, given>> PROVE Inductive'
<1>1. /\ cmd.pc = "take_back" /\ GitHubQuiet /\ cmd \in Commands /\ mem \in Receipt
      /\ UNCHANGED <<file, mem, crashes, meddles, uninits, calm, given>>
      /\ cmd.pc \in TakingBack /\ cmd.at \in 1..Len(mem.providers)
      /\ cmd.left \subseteq Claims(mem) /\ cmd.left \subseteq Things
  BY DEF TakeBackPlugin, Quiet, At, Inductive, TypeOK, TakingBack, PlaceInv, ClaimsInv, Commands
<1>2. Fault \/ Fine
  BY DEF TakeBackPlugin
<1>3. CASE Goto("take_market") /\ UNCHANGED provided
  <2>1. cmd' \in Commands /\ cmd'.pc = "take_market" /\ cmd'.at = cmd.at /\ cmd'.err = cmd.err
    BY <1>1, <1>3 DEF Goto, Commands, Pcs
  <2> QED BY <1>1, <1>2, <1>3, <2>1, At1, ReversingKeeps DEF TakingBack
<1>4. ASSUME NEW t \in cmd.left, UNCHANGED provided \/ Becomes(t, "none"),
             \/ cmd' = [cmd EXCEPT !.left = @ \ {t}]
             \/ cmd' = [Failed EXCEPT !.left = @ \ {t}]
      PROVE  Inductive'
  <2>1. /\ cmd' \in Commands /\ cmd'.pc = "take_back" /\ cmd'.at = cmd.at
        /\ cmd'.left \subseteq cmd.left /\ (cmd'.err \/ cmd'.err = cmd.err)
    <3>1. PICK left : left = cmd.left \ {t}
      OBVIOUS
    <3>2. left \subseteq cmd.left /\ left \in SUBSET Things
      BY <1>1, <3>1
    <3>3. CASE cmd' = [cmd EXCEPT !.left = @ \ {t}]
      BY <1>1, <3>1, <3>2, <3>3 DEF Commands
    <3>4. CASE cmd' = [Failed EXCEPT !.left = @ \ {t}]
      <4>1. Failed \in Commands /\ Failed.pc = cmd.pc /\ Failed.at = cmd.at /\ Failed.left = cmd.left
            /\ Failed.err = TRUE
        BY <1>1 DEF Failed, Commands
      <4>2. cmd' = [Failed EXCEPT !.left = left]
        BY <3>1, <3>4, <4>1
      <4> QED BY <1>1, <3>2, <4>1, <4>2 DEF Commands
    <3> QED BY <1>4, <3>3, <3>4
  <2>2. cmd'.left \subseteq Claims(mem)
    BY <1>1, <2>1
  <2> QED BY <1>1, <1>2, <1>4, <2>1, <2>2, ReversingKeeps DEF TakingBack
<1> QED BY <1>3, <1>4 DEF TakeBackPlugin

LEMMA TakeBackMarketKeeps ==
  ASSUME Inductive, TakeBackMarket, UNCHANGED <<crashes, meddles, calm, given>> PROVE Inductive'
<1>1. /\ cmd.pc = "take_market" /\ GitHubQuiet /\ cmd \in Commands /\ mem \in Receipt
      /\ UNCHANGED <<file, mem, crashes, meddles, uninits, calm, given>>
      /\ cmd.pc \in TakingBack /\ cmd.at \in 1..Len(mem.providers)
  BY DEF TakeBackMarket, Quiet, At, Inductive, TypeOK, TakingBack, PlaceInv
<1>2. Fault \/ Fine
  BY DEF TakeBackMarket
<1>3. UNCHANGED provided \/ Becomes(<<cmd.at, Shop>>, "none")
  BY DEF TakeBackMarket
<1>4. CASE ToProvider(Failed, cmd.at - 1)
  <2>1. Failed \in Commands /\ Failed.err = TRUE
    BY <1>1 DEF Failed, Commands
  <2>2. /\ cmd' \in Commands /\ cmd'.err = TRUE
        /\ cmd'.pc = IF cmd.at = 1 THEN "settle" ELSE "compensate"
        /\ cmd.at # 1 => cmd'.at \in 1..Len(mem.providers)
        /\ cmd.at = 1 => cmd'.at = 0
    BY <1>1, <1>4, <2>1, ToProviderIs
  <2> QED BY <1>1, <1>2, <1>3, <2>2, At1, ReversingKeeps DEF TakingBack
<1>5. CASE Goto("read_back") \/ cmd' = [Failed EXCEPT !.pc = "read_back"]
  <2>1. /\ cmd' \in Commands /\ cmd'.pc = "read_back" /\ cmd'.at = cmd.at
        /\ cmd'.err \/ cmd'.err = cmd.err
    BY <1>1, <1>5 DEF Goto, Failed, Commands, Pcs
  <2> QED BY <1>1, <1>2, <1>3, <2>1, At1, ReversingKeeps DEF TakingBack
<1> QED BY <1>4, <1>5 DEF TakeBackMarket

LEMMA ReadBackProviderKeeps ==
  ASSUME Inductive, ReadBackProvider, UNCHANGED <<crashes, meddles, calm, given>> PROVE Inductive'
<1>1. /\ cmd.pc = "read_back" /\ GitHubQuiet /\ cmd \in Commands /\ mem \in Receipt
      /\ UNCHANGED <<file, mem, crashes, meddles, uninits, calm, given, provided>>
      /\ cmd.pc \in TakingBack /\ cmd.at \in 1..Len(mem.providers)
  BY DEF ReadBackProvider, Quiet, At, Inductive, TypeOK, TakingBack, PlaceInv
<1>2. Fault \/ Fine
  BY DEF ReadBackProvider, FailsOr
<1>3. PICK c \in {cmd, Failed} : /\ ToProvider(c, cmd.at - 1)
                                 /\ c = Failed \/ Remaining = {}
  BY DEF ReadBackProvider
<1>4. c \in Commands /\ (c.err \/ (Remaining = {} /\ c.err = cmd.err))
  BY <1>1, <1>3 DEF Failed, Commands
<1>5. /\ cmd' \in Commands /\ cmd'.err = c.err
      /\ cmd'.pc = IF cmd.at = 1 THEN "settle" ELSE "compensate"
      /\ cmd.at # 1 => cmd'.at \in 1..Len(mem.providers)
      /\ cmd'.at = cmd.at - 1 /\ (cmd.at = 1 => cmd'.at = 0)
  BY <1>1, <1>3, <1>4, ToProviderIs
<1> QED BY <1>1, <1>2, <1>4, <1>5, At1, ReversingKeeps DEF TakingBack

LEMMA SettleKeeps ==
  ASSUME Inductive, Settle, UNCHANGED <<crashes, meddles, calm, given>> PROVE Inductive'
<1>1. /\ cmd.pc = "settle" /\ GitHubQuiet /\ cmd \in Commands /\ mem \in Receipt
      /\ UNCHANGED <<file, crashes, meddles, uninits, calm, given, provided>> /\ ProvidedOK' /\ Fine
      /\ cmd.pc \in TakingBack
  BY DEF Settle, Quiet, At, Inductive, TypeOK, TakingBack, ProvidedOK, provided, Fine
<1>2. cmd' \in Commands /\ cmd'.pc = "save_failure"
  BY <1>1 DEF Settle, Goto, Commands, Pcs
<1>3. /\ mem' \in Receipt /\ mem'.phase \in {"needs_resume", "needs_manual_cleanup"}
      /\ Claims(mem') = Claims(mem) \/ (~cmd.err /\ Claims(mem') = {})
  <2>1. CASE cmd.err
    <3>1. mem' = [mem EXCEPT !.phase = "needs_manual_cleanup"]
      BY <2>1 DEF Settle
    <3>2. mem' \in Receipt /\ mem'.phase = "needs_manual_cleanup" /\ mem'.providers = mem.providers
      BY <1>1, <3>1 DEF Receipt, Phases
    <3> QED BY <1>1, <3>2, ClaimsOf
  <2>2. CASE ~cmd.err
    <3>1. mem' = [mem EXCEPT !.phase = "needs_resume", !.providers = <<>>]
      BY <2>2 DEF Settle
    <3>2. <<>> \in UNION {[1..n -> Ownership] : n \in 0..Len(Providers)}
      BY NoReceiptIs DEF Receipt
    <3>3. mem' \in Receipt /\ mem'.phase = "needs_resume" /\ mem'.providers = <<>>
      BY <1>1, <3>1, <3>2 DEF Receipt, Phases
    <3> QED BY <2>2, <3>3, ClaimsOf
  <2> QED BY <2>1, <2>2
<1>4. PhaseInv' /\ PlaceInv'
  BY <1>2, <1>3 DEF PhaseInv, PlaceInv, Reaches, Linked, Preparing, Creating, Mutating, Linking, Adding, TakingBack
<1>5. ClaimsInv'
  <2>1. Theirs' = Theirs /\ Kept' = Kept
    BY <1>1 DEF Theirs, Kept, Ours, Who, provided
  <2>2. /\ cmd'.pc \notin Agreeing \cup TakingBack \cup Undoing
        /\ cmd'.pc \notin {"intend", "activate", "take_back", "undo"}
    BY <1>2 DEF Agreeing, Preparing, Creating, Mutating, Linking, Adding, Undoing, TakingBack
  <2>3. ~cmd.err => Kept = {}
    <3>1. ASSUME ~cmd.err, NEW t \in Kept PROVE t[1] <= 0
      BY <1>1, <3>1 DEF Inductive, ClaimsInv, PlaceInv
    <3>2. \A t \in Kept : t[1] >= 1 /\ t[1] \in Nat
      BY Lengths DEF Kept, Ours, Things
    <3> QED BY <3>1, <3>2
  <2> QED BY <1>1, <1>2, <1>3, <2>1, <2>2, <2>3 DEF Inductive, ClaimsInv
<1>6. KnownInv'
  BY <1>2 DEF KnownInv, Reaches, Preparing, Creating, Mutating, Linking, Adding
<1> QED BY <1>1, <1>2, <1>3, <1>4, <1>5, <1>6, ProviderKeeps

-----------------------------------------------------------------------------
(* Uninitialize.                                                           *)

\* It ends, at most one thing taken.
LEMMA UndoExitKeeps ==
  ASSUME Inductive, Exit, GitHubQuiet, UNCHANGED <<file, crashes, meddles, uninits, calm, given>>,
         Fault \/ Fine, NEW t \in Things, UNCHANGED provided \/ Becomes(t, "none")
  PROVE  Inductive'
<1>1. ProvidedOK' /\ Theirs' \subseteq Theirs /\ Kept' \subseteq Kept
  BY Taken DEF Inductive, TypeOK, ProvidedOK
<1>2. BoundsOK' /\ FileOK'
  BY Faulty DEF Inductive, TypeOK, BoundsOK, FileOK
<1>3. Claims(file') \cap Theirs = {} /\ Kept' \subseteq Claims(file')
  BY <1>1 DEF Inductive, ClaimsInv
<1> QED BY <1>1, <1>2, <1>3, ExitKeeps

LEMMA AThing == <<1, Shop>> \in Things
BY Lengths DEF Things

LEMMA UndoIs ==
  ASSUME Inductive, NEW i \in 0..Len(mem.providers), NEW retained \in BOOLEAN,
         Undo(i, retained)
  PROVE  /\ cmd' \in Commands /\ cmd'.pc = IF i = 0 THEN "remove_receipt" ELSE "undo"
         /\ cmd'.at = i /\ cmd'.left \subseteq Claims(mem) /\ cmd'.err = cmd.err
<1>1. /\ mem \in Receipt /\ cmd \in Commands /\ Len(mem.providers) \in 0..Len(Providers)
      /\ mem.providers \in [1..Len(mem.providers) -> Ownership]
      /\ Len(Providers) \in Nat /\ P = 1..Len(Providers)
  BY Lengths DEF Inductive, TypeOK
<1>2. PICK left : left = IF i = 0 THEN {} ELSE PluginsOf(i, mem.providers[i].added)
  OBVIOUS
<1>3. left \subseteq Claims(mem)
  <2>1. CASE i = 0
    BY <1>2, <2>1
  <2>2. CASE i # 0
    <3>1. i \in P /\ i \in 1..Len(mem.providers)
      BY <1>1, <2>2
    <3>2. mem.providers[i] \in Ownership /\ mem.providers[i].added \subseteq Plugins
      BY <1>1, <3>1 DEF Ownership
    <3>3. ASSUME NEW g \in mem.providers[i].added PROVE <<i, g>> \in Claims(mem)
      <4>1. <<i, g>> \in Things /\ g # Shop
        BY <3>1, <3>2, InitializationAssumption DEF Things, Shop
      <4> QED BY <3>1, <4>1 DEF Claims
    <3> QED BY <1>2, <2>2, <3>3 DEF PluginsOf
  <2> QED BY <2>1, <2>2
<1>4. left \in SUBSET Things /\ i \in 0..Len(Providers)
  BY <1>1, <1>3, ClaimsOf
<1>5. cmd' = [cmd EXCEPT !.at = i, !.retained = retained,
                !.pc = IF i = 0 THEN "remove_receipt" ELSE "undo", !.left = left]
  BY <1>2 DEF Undo
<1>6. (IF i = 0 THEN "remove_receipt" ELSE "undo") \in Pcs
  BY DEF Pcs
<1> QED BY <1>1, <1>3, <1>4, <1>5, <1>6 DEF Commands

LEMMA CheckSourcesKeeps ==
  ASSUME Inductive, CheckSources, UNCHANGED <<crashes, meddles, calm, given>> PROVE Inductive'
<1>1. /\ cmd.pc = "check_sources" /\ GitHubQuiet /\ cmd \in Commands /\ mem \in Receipt
      /\ UNCHANGED <<file, crashes, meddles, uninits, calm, given, provided>> /\ file \in Receipt
      /\ cmd.pc \in Undoing /\ mem.providers = file.providers
  BY DEF CheckSources, Quiet, At, Inductive, TypeOK, Undoing, Agreeing, ClaimsInv
<1>2. Fault \/ Fine
  BY DEF CheckSources, FailsOr
<1>3. CASE Exit
  BY <1>1, <1>2, <1>3, UndoExitKeeps, AThing
<1>4. CASE Undo(Len(mem.providers), FALSE) /\ UNCHANGED mem
  <2>1. Len(mem.providers) \in 0..Len(mem.providers) /\ Len(mem.providers) \in Nat
    BY <1>1, Lengths
  <2>2. /\ cmd' \in Commands
        /\ cmd'.pc = IF Len(mem.providers) = 0 THEN "remove_receipt" ELSE "undo"
        /\ cmd'.at = Len(mem.providers) /\ cmd'.left \subseteq Claims(mem)
    BY <1>4, <2>1, UndoIs
  <2> QED BY <1>1, <1>2, <1>4, <2>1, <2>2, AThing, ReversingKeeps DEF Undoing, TakingBack
<1> QED BY <1>3, <1>4 DEF CheckSources

LEMMA UndoPluginKeeps ==
  ASSUME Inductive, UndoPlugin, UNCHANGED <<crashes, meddles, calm, given>> PROVE Inductive'
<1>1. /\ cmd.pc = "undo" /\ GitHubQuiet /\ cmd \in Commands /\ mem \in Receipt
      /\ UNCHANGED <<file, crashes, meddles, uninits, calm, given>> /\ (Fault \/ Fine)
      /\ cmd.pc \in Undoing /\ cmd.at \in 1..Len(mem.providers)
      /\ cmd.left \subseteq Claims(mem) /\ cmd.left \subseteq Things
  BY DEF UndoPlugin, Quiet, At, FailsOr, Inductive, TypeOK, Undoing, PlaceInv, ClaimsInv, Commands
<1>2. CASE Exit /\ UNCHANGED provided
  BY <1>1, <1>2, UndoExitKeeps, AThing
<1>3. ASSUME NEW t \in cmd.left, Exit, Becomes(t, "none") PROVE Inductive'
  BY <1>1, <1>3, UndoExitKeeps
<1>4. CASE Goto("undo_market") /\ UNCHANGED <<mem, provided>>
  <2>1. cmd' \in Commands /\ cmd'.pc = "undo_market" /\ cmd'.at = cmd.at /\ cmd'.err = cmd.err
    BY <1>1, <1>4 DEF Goto, Commands, Pcs
  <2> QED BY <1>1, <1>4, <2>1, AThing, ReversingKeeps DEF Undoing, TakingBack
<1>5. ASSUME NEW t \in cmd.left, UNCHANGED provided \/ Becomes(t, "none"), UNCHANGED mem,
             cmd' = [cmd EXCEPT !.left = @ \ {t}]
      PROVE  Inductive'
  <2>1. /\ cmd' \in Commands /\ cmd'.pc = "undo" /\ cmd'.at = cmd.at
        /\ cmd'.left \subseteq cmd.left /\ cmd'.err = cmd.err
    BY <1>1, <1>5 DEF Commands
  <2>2. cmd'.left \subseteq Claims(mem)
    BY <1>1, <2>1
  <2> QED BY <1>1, <1>5, <2>1, <2>2, ReversingKeeps DEF Undoing, TakingBack
<1> QED BY <1>2, <1>3, <1>4, <1>5 DEF UndoPlugin

LEMMA UndoMarketKeeps ==
  ASSUME Inductive, UndoMarket, UNCHANGED <<crashes, meddles, calm, given>> PROVE Inductive'
<1>1. /\ cmd.pc = "undo_market" /\ GitHubQuiet /\ cmd \in Commands /\ mem \in Receipt
      /\ UNCHANGED <<file, crashes, meddles, uninits, calm, given>> /\ (Fault \/ Fine)
      /\ cmd.pc \in Undoing /\ cmd.at \in 1..Len(mem.providers)
  BY DEF UndoMarket, Quiet, At, FailsOr, Inductive, TypeOK, Undoing, PlaceInv
<1>2. UNCHANGED provided \/ Becomes(<<cmd.at, Shop>>, "none")
  BY DEF UndoMarket
<1>3. CASE Exit
  BY <1>1, <1>2, <1>3, UndoExitKeeps, At1
<1>4. CASE Goto("undo_check") /\ UNCHANGED mem
  <2>1. cmd' \in Commands /\ cmd'.pc = "undo_check" /\ cmd'.at = cmd.at /\ cmd'.err = cmd.err
    BY <1>1, <1>4 DEF Goto, Commands, Pcs
  <2> QED BY <1>1, <1>2, <1>4, <2>1, At1, ReversingKeeps DEF Undoing, TakingBack
<1> QED BY <1>3, <1>4 DEF UndoMarket

LEMMA UndoCheckKeeps ==
  ASSUME Inductive, UndoCheck, UNCHANGED <<crashes, meddles, calm, given>> PROVE Inductive'
<1>1. /\ cmd.pc = "undo_check" /\ GitHubQuiet /\ cmd \in Commands /\ mem \in Receipt
      /\ UNCHANGED <<file, crashes, meddles, uninits, calm, given, provided>> /\ (Fault \/ Fine)
      /\ cmd.pc \in Undoing /\ cmd.at \in 1..Len(mem.providers)
  BY DEF UndoCheck, Quiet, At, FailsOr, Inductive, TypeOK, Undoing, PlaceInv
<1>2. CASE Exit
  BY <1>1, <1>2, UndoExitKeeps, AThing
<1>3. CASE ~Exit
  <2>1. PICK b \in BOOLEAN : b = (cmd.retained \/ market[cmd.at] # "none")
    <3>1. (cmd.retained \/ market[cmd.at] # "none") \in BOOLEAN
      OBVIOUS
    <3> QED BY <3>1, Zenon
  <2>2. Remaining = {} /\ Undo(cmd.at - 1, b) /\ mem' = mem
    BY <1>3, <2>1 DEF UndoCheck
  <2>3. PICK i \in 0..Len(mem.providers) : i = cmd.at - 1
    BY <1>1, Lengths
  <2>4. (i = 0 => cmd.at = 1) /\ (i # 0 => i \in 1..Len(mem.providers))
    BY <1>1, <2>3, Lengths
  <2>5. /\ cmd' \in Commands /\ cmd'.pc = IF i = 0 THEN "remove_receipt" ELSE "undo"
        /\ cmd'.at = i /\ cmd'.left \subseteq Claims(mem) /\ cmd'.err = cmd.err
    BY <2>2, <2>3, UndoIs
  <2> QED BY <1>1, <2>2, <2>3, <2>4, <2>5, AThing, ReversingKeeps DEF Undoing, TakingBack
<1> QED BY <1>2, <1>3

LEMMA RemoveReceiptKeeps ==
  ASSUME Inductive, RemoveReceipt, UNCHANGED <<crashes, meddles, calm, given>> PROVE Inductive'
<1>1. /\ cmd.pc = "remove_receipt" /\ GitHubQuiet /\ Exit /\ (Fault \/ Fine)
      /\ UNCHANGED <<crashes, meddles, uninits, provided, calm, given>> /\ ProvidedOK' /\ BoundsOK'
  BY Faulty DEF RemoveReceipt, At, FailsOr, Inductive, TypeOK, ProvidedOK, provided, BoundsOK
<1>2. CASE UNCHANGED file
  BY <1>1, <1>2, UndoExitKeeps, AThing
<1>3. CASE file' = NoReceipt
  <2>1. FileOK' /\ Claims(file') = {} /\ file'.phase # "initialized"
    BY <1>3, NoReceiptIs, ClaimsOf DEF FileOK
  <2>2. Theirs' = Theirs /\ Kept' = Kept
    BY <1>1 DEF Theirs, Kept, Ours, Who, provided
  <2>3. \A t \in Kept : t[1] <= 0
    BY <1>1 DEF Inductive, ClaimsInv, PlaceInv, Undoing
  <2>4. \A t \in Kept : t[1] >= 1 /\ t[1] \in Nat
    BY Lengths DEF Kept, Ours, Things
  <2>5. Kept' = {}
    BY <2>2, <2>3, <2>4
  <2> QED BY <1>1, <2>1, <2>2, <2>5, ExitKeeps
<1> QED BY <1>2, <1>3 DEF RemoveReceipt

-----------------------------------------------------------------------------
(* The user.                                                               *)

\* What the user does to the settings of a repository or of a Project.
LEMMA FlipIssues ==
  ASSUME NEW x \in Repo PROVE [x EXCEPT !.issues = ~@] \in Repo
<1>1. (~x.issues) \in BOOLEAN
  OBVIOUS
<1>2. PICK b \in BOOLEAN : b = (~x.issues)
  BY <1>1, Zenon
<1>3. [x EXCEPT !.issues = ~@] = [x EXCEPT !.issues = b]
  BY <1>2, Zenon
<1>4. [x EXCEPT !.issues = b] \in Repo
  BY DEF Repo
<1> QED BY <1>3, <1>4

LEMMA FlipProject ==
  ASSUME NEW x \in Project
  PROVE  [x EXCEPT !.linked = ~@] \in Project /\ [x EXCEPT !.right = ~@] \in Project
<1>1. (~x.linked) \in BOOLEAN /\ (~x.right) \in BOOLEAN
  OBVIOUS
<1>2. PICK b \in BOOLEAN : b = (~x.linked)
  BY <1>1, Zenon
<1>3. PICK c \in BOOLEAN : c = (~x.right)
  BY <1>1, Zenon
<1>4. /\ [x EXCEPT !.linked = ~@] = [x EXCEPT !.linked = b]
      /\ [x EXCEPT !.right = ~@] = [x EXCEPT !.right = c]
  BY <1>2, <1>3, Zenon
<1>5. [x EXCEPT !.linked = b] \in Project /\ [x EXCEPT !.right = c] \in Project
  BY DEF Project
<1> QED BY <1>4, <1>5

\* The user takes nothing that AGX claims for his own.
LEMMA UserIs ==
  ASSUME Inductive, Meddle
  PROVE  /\ ProvidedOK' /\ Ours' \subseteq Ours /\ Kept' \subseteq Kept
         /\ \A t \in Theirs' : t \in Theirs \/ t \notin Claims(file) \cup Claims(mem)
<1>1. /\ meddles' = meddles + 1 /\ UNCHANGED <<file, mem, cmd, faults, crashes, uninits, given>>
      /\ meddles' \in 0..MaxMeddles /\ meddles' # 0 /\ ProvidedOK /\ GitHubOK
      /\ mem \in Receipt /\ file \in Receipt
  BY InitializationAssumption DEF Meddle, Inductive, TypeOK, ProvidedOK, GitHubOK
<1>2. CASE UNCHANGED provided
  BY <1>1, <1>2 DEF provided, ProvidedOK, Ours, Theirs, Kept, Who
<1>3. CASE UserAdds
  <2>1. PICK t \in Things, who \in Markets \cup States :
          /\ Becomes(t, who) /\ who # "agx"
          /\ IF t[2] = Shop THEN who \in Markets ELSE who \in States
          /\ who = "user" => t \notin Claims(file) \cup Claims(mem)
    BY <1>3 DEF UserAdds, Markets, States
  <2>2. ProvidedOK' /\ \A u \in Things : Who(u)' = IF u = t THEN who ELSE Who(u)
    BY <1>1, <2>1, BecomesIs
  <2> QED BY <1>1, <2>1, <2>2 DEF Ours, Theirs, Kept
<1>4. CASE UserRemoves
  <2>1. PICK t \in Things, who \in Markets \cup States :
          /\ Becomes(t, who) /\ who \in {"none", "off"}
          /\ IF t[2] = Shop THEN who \in Markets ELSE who \in States
    BY <1>4 DEF UserRemoves, Markets, States
  <2>2. ProvidedOK' /\ \A u \in Things : Who(u)' = IF u = t THEN who ELSE Who(u)
    BY <1>1, <2>1, BecomesIs
  <2> QED BY <1>1, <2>1, <2>2 DEF Ours, Theirs, Kept
<1> QED BY <1>2, <1>3, <1>4 DEF Meddle

LEMMA MeddleKeeps == ASSUME Inductive, Meddle PROVE Inductive'
<1>1. /\ meddles' = meddles + 1 /\ UNCHANGED <<file, mem, cmd, faults, crashes, uninits, given>>
      /\ meddles' \in 0..MaxMeddles /\ meddles' # 0 /\ ProvidedOK /\ GitHubOK
      /\ mem \in Receipt /\ file \in Receipt /\ calm' = FALSE
  BY InitializationAssumption DEF Meddle, Inductive, TypeOK, ProvidedOK, GitHubOK
<1>2. /\ ProvidedOK' /\ Ours' \subseteq Ours /\ Kept' \subseteq Kept
      /\ \A t \in Theirs' : t \in Theirs \/ t \notin Claims(file) \cup Claims(mem)
  BY UserIs
<1>3. GitHubOK' /\ OnGitHub' \subseteq OnGitHub
  <2>1. CASE GitHubQuiet
    BY <1>1, <2>1 DEF GitHubQuiet, GitHubOK, OnGitHub
  <2>2. CASE UserOnGitHub
    <3>1. NoRepo \in Repo /\ GoneProject \in Project /\ ~GoneProject.there
      BY DEF NoRepo, Repo, GoneProject, Project
    <3>2. ASSUME UNCHANGED projects,
                 NEW r \in Repos,
                 NEW new \in IF repo[r].there THEN {NoRepo, [repo[r] EXCEPT !.issues = ~@]}
                            ELSE {[there |-> TRUE, commit |-> 0, issues |-> TRUE]},
                 repo' = [repo EXCEPT ![r] = new]
          PROVE  GitHubOK' /\ OnGitHub' \subseteq OnGitHub
      <4>1. repo[r] \in Repo
        BY <1>1, <3>2 DEF GitHubOK
      <4>2. [repo[r] EXCEPT !.issues = ~@] \in Repo
        BY <4>1, FlipIssues
      <4>3. [there |-> TRUE, commit |-> 0, issues |-> TRUE] \in Repo
        BY DEF Repo
      <4>4. new \in Repo
        BY <3>1, <3>2, <4>2, <4>3
      <4> QED BY <1>1, <3>2, <4>4 DEF GitHubOK, OnGitHub
    <3>3. ASSUME UNCHANGED repo,
                 NEW i \in OnGitHub,
                 NEW new \in {GoneProject, [projects[i] EXCEPT !.linked = ~@],
                             [projects[i] EXCEPT !.right = ~@]},
                 projects' = [projects EXCEPT ![i] = new]
          PROVE  GitHubOK' /\ OnGitHub' \subseteq OnGitHub
      <4>1. projects[i] \in Project /\ i \in Ids /\ projects \in [Ids -> Project]
        BY <1>1, <3>3 DEF GitHubOK, OnGitHub
      <4>2. new \in Project
        BY <3>1, <3>3, <4>1, FlipProject
      <4>3. projects' \in [Ids -> Project]
            /\ \A j \in Ids : j # i => projects'[j] = projects[j]
        BY <3>3, <4>1, <4>2
      <4> QED BY <1>1, <3>3, <4>3 DEF GitHubOK, OnGitHub
    <3> QED BY <2>2, <3>2, <3>3 DEF UserOnGitHub
  <2> QED BY <2>1, <2>2 DEF Meddle
<1>4. TypeOK'
  BY <1>1, <1>2, <1>3 DEF Inductive, TypeOK, ProvidedOK, GitHubOK
<1>5. PhaseInv' /\ PlaceInv'
  BY <1>1, <1>3 DEF Inductive, PhaseInv, PlaceInv, Reaches, Linked, Missing
<1>6. ClaimsInv'
  BY <1>1, <1>2 DEF Inductive, ClaimsInv
<1>7. WorldInv'
  BY <1>1 DEF Meddle, Inductive, WorldInv, Linked
<1> QED BY <1>4, <1>5, <1>6, <1>7 DEF Inductive

-----------------------------------------------------------------------------
(* The invariant, and what follows from it.                                *)

LEMMA InitInductive == ASSUME Init PROVE Inductive
<1>1. /\ file = NoReceipt /\ mem = NoReceipt /\ cmd = Idle /\ faults = 0
      /\ repo = [r \in Repos |-> NoRepo] /\ projects = [i \in Ids |-> GoneProject]
      /\ crashes = 0 /\ meddles = 0 /\ uninits = 0 /\ given = {} /\ calm = TRUE
      /\ market \in [P -> {"none", "user"}] /\ plugin \in [P -> [Plugins -> {"none", "user"}]]
  BY DEF Init, GitHubInit
<1>2. NoRepo \in Repo /\ GoneProject \in Project
  BY DEF NoRepo, Repo, GoneProject, Project
<1>3. TypeOK
  BY <1>1, <1>2, NoReceiptIs, IdleIs, ProvisioningAssumption, InitializationAssumption
     DEF TypeOK, Markets, States
<1>4. PhaseInv /\ PlaceInv
  BY <1>1, IdleIs, NoReceiptIs DEF PhaseInv, PlaceInv, Reaches, Linked, Preparing, Creating, Mutating, Linking, Adding,
     TakingBack
<1>5. ClaimsInv
  <2>1. Claims(file) = {} /\ Claims(mem) = {}
    BY <1>1, NoReceiptIs, ClaimsOf
  <2>2. Kept = {}
    BY <1>1 DEF Kept, Ours, Who, Things, Shop
  <2> QED BY <1>1, <2>1, <2>2, IdleIs DEF ClaimsInv, Agreeing, Preparing, Creating, Mutating, Linking,
     Adding, TakingBack, Undoing
<1>6. WorldInv
  <2>1. file.phase # "initialized"
    BY <1>1, NoReceiptIs
  <2>2. KnownInv
    BY <1>1, IdleIs DEF KnownInv, Reaches, Preparing, Creating, Mutating, Linking, Adding
  <2> QED BY <1>1, <2>1, <2>2 DEF WorldInv
<1> QED BY <1>3, <1>4, <1>5, <1>6 DEF Inductive

LEMMA WorkKeeps == ASSUME Inductive, Work PROVE Inductive'
<1>1. CASE OnGitHubSide /\ UNCHANGED given
  BY <1>1, VerifyKeeps, PreflightKeeps, CheckProjectKeeps, NextRepositoryKeeps,
     CreateRepositoryKeeps, ReadBackKeeps, EnableKeeps, InspectKeeps, SaveRepositoryKeeps,
     StartProjectKeeps, CreateProjectKeeps, FindProjectKeeps, WriteJournalKeeps,
     ConfirmProjectKeeps, EditProjectKeeps, ReadEditKeeps, LinkProjectKeeps, ReadLinkKeeps,
     SaveFailureKeeps
     DEF Work, OnGitHubSide, GitHubStep, Prepare, OnRepositories, OnProject
<1>2. CASE OnProviders /\ UNCHANGED given
  BY <1>2, CheckProvidersKeeps, FirstWriteKeeps, ConfirmKeeps, SucceedKeeps, RecheckKeeps,
     FinishKeeps
     DEF Work, OnProviders
<1>3. CASE Compensation /\ UNCHANGED given
  BY <1>3, CompensateProviderKeeps, TakeBackPluginKeeps, TakeBackMarketKeeps,
     ReadBackProviderKeeps, SettleKeeps
     DEF Work, Compensation
<1>4. CASE Uninitialize /\ UNCHANGED given
  BY <1>4, CheckSourcesKeeps, UndoPluginKeeps, UndoMarketKeeps, UndoCheckKeeps, RemoveReceiptKeeps
     DEF Work, Uninitialize
<1>5. CASE Activation
  BY <1>5, IntendKeeps, ActivateKeeps, CheckActivationKeeps DEF Work, Activation
<1> QED BY <1>1, <1>2, <1>3, <1>4, <1>5 DEF Work

LEMMA StutterKeeps == ASSUME Inductive, UNCHANGED vars PROVE Inductive'
<1>1. UNCHANGED <<repo, projects, file, mem, cmd, faults, market, plugin, crashes, meddles,
                uninits, given, calm>>
  BY DEF vars
<1>2. TypeOK' /\ PhaseInv' /\ PlaceInv'
  BY <1>1 DEF Inductive, TypeOK, PhaseInv, PlaceInv, Reaches, Linked, Missing, OnGitHub
<1>3. ClaimsInv'
  BY <1>1 DEF Inductive, ClaimsInv, Theirs, Kept, Ours, Who
<1>4. WorldInv'
  BY <1>1 DEF Inductive, WorldInv, KnownInv, Linked, SameRepos, ProjectVerifies, Link, Verified,
     Deployed, RepoVerifies, There, Template,
     ProjectRevalidates, OnGitHub, Reaches, Problems, Who
<1> QED BY <1>2, <1>3, <1>4 DEF Inductive

LEMMA NextKeeps == ASSUME Inductive, [Next]_vars PROVE Inductive'
BY WorkKeeps, RunKeeps, UnclaimKeeps, MeddleKeeps, CrashKeeps, StutterKeeps DEF Next

\* The receipt, on the disk and in memory, agrees with the providers and, while
\* the user keeps away from a command, with GitHub, at every step of it.
THEOREM InductiveInvariant == Spec => []Inductive
<1>1. Init => Inductive
  BY InitInductive
<1>2. Inductive /\ [Next]_vars => Inductive'
  BY NextKeeps
<1> QED BY <1>1, <1>2, PTL DEF Spec

\* The types; and agx never leaves a receipt behind that it refuses to read.
THEOREM TypeCorrect == Spec => []TypeOK
BY InductiveInvariant, PTL DEF Inductive

\* Nothing that AGX has added is forgotten, whatever fails and whenever the
\* command is killed, for any number of providers, except what is given up
\* when adding to a provider before fails; on the first provider, nothing is.
THEOREM NothingIsLost == Spec => []NothingLost
<1>1. Inductive => NothingLost
  BY DEF Inductive, ClaimsInv, NothingLost, Kept, Ours
<1> QED BY <1>1, InductiveInvariant, PTL

\* What a success means while the user keeps away from the command.
LEMMA Succeeded ==
  ASSUME Inductive, At("succeed"), calm
  PROVE  /\ file.phase = "initialized" /\ file # NoReceipt /\ file.project # NoProject
         /\ Linked(file) /\ ProjectVerifies(file.project)
         /\ Verified(mem) /\ SameRepos /\ ~Problems(file)
         /\ Len(file.providers) = Len(Providers)
         /\ \A r \in Repos : file.repos[r] # NoEntry
         /\ projects[file.project.id] \in Project
<1>1. /\ file.phase = "initialized" /\ Linked(file) /\ ~Problems(mem) /\ Verified(mem)
      /\ SameRepos /\ ProjectVerifies(mem.project) /\ mem.project = file.project
      /\ mem.providers = file.providers /\ file \in Receipt /\ file # NoReceipt /\ Valid(file)
      /\ projects \in [Ids -> Project]
  BY NoReceiptIs DEF Inductive, At, PhaseInv, WorldInv, KnownInv, ClaimsInv, Agreeing, TypeOK
<1>2. Len(file.providers) = Len(Providers)
  BY <1>1, Lengths DEF Valid, BindingMatches
<1>3. ~Problems(file)
  BY <1>1 DEF Problems
<1>4. file.project # NoProject /\ projects[file.project.id] \in Project
  BY <1>1 DEF Linked, NoProject, Ids
<1> QED BY <1>1, <1>2, <1>3, <1>4 DEF Valid

\* When the command reports success, and the user has kept away from it, the
\* repositories, the Project and the providers are there and `agx status` says
\* so, but for a contract repository that was never confirmed and has vanished,
\* of which `agx status` reports drift.
THEOREM SuccessIsReal == Spec => []SuccessIsTrue
<1>1. ASSUME Inductive, At("succeed"), calm
      PROVE  SuccessIsTrue
  <2>1. There("control") /\ Template("control")
    BY <1>1, Succeeded DEF ProjectVerifies, Link
  <2>2. \A r \in Repos : \/ RepoVerifies(r, file.repos[r])
                         \/ mem.repos[r] = NoEntry /\ ~file.repos[r].sure /\ ~There(r)
    BY <1>1, Succeeded DEF Verified, SameRepos
  <2>3. \A r \in Repos : r \in Vanished <=> ~RepoVerifies(r, file.repos[r])
    BY <1>1, <2>2, Succeeded DEF Vanished, RepoVerifies
  <2>4. /\ Vanished \subseteq {"contracts"} /\ \A r \in Vanished : mem.repos[r] = NoEntry
    BY <2>1, <2>2, <2>3 DEF Vanished, Repos, RepoVerifies
  <2>5. projects[file.project.id] =
          [there |-> TRUE, right |-> file.project.right, linked |-> TRUE]
    <3>1. /\ projects[file.project.id].there /\ projects[file.project.id].linked
          /\ projects[file.project.id].right = file.project.right
          /\ projects[file.project.id] \in Project
      BY <1>1, Succeeded DEF ProjectVerifies, ProjectRevalidates, Link, OnGitHub
    <3> QED BY <3>1 DEF Project
  <2>6. meddles = 0 => file.project.right
    BY <1>1, Succeeded DEF Inductive, WorldInv
  <2>7. Status = IF Vanished = {} THEN "initialized" ELSE "drifted"
    <3>1. CASE Vanished = {}
      <4>1. \A r \in Repos : RepoVerifies(r, file.repos[r])
        BY <2>3, <3>1
      <4> QED BY <1>1, <3>1, <4>1, Succeeded DEF Status, Linked
    <3>2. CASE Vanished # {}
      <4>1. PICK r \in Repos : file.repos[r] # NoEntry /\ ~RepoVerifies(r, file.repos[r])
        BY <2>3, <3>2 DEF Vanished
      <4> QED BY <1>1, <3>2, <4>1, Succeeded DEF Status, Linked
    <3> QED BY <3>1, <3>2
  <2> QED BY <1>1, <2>3, <2>4, <2>5, <2>6, <2>7, Succeeded DEF SuccessIsTrue
<1>2. Inductive => SuccessIsTrue
  BY <1>1 DEF SuccessIsTrue
<1> QED BY <1>2, InductiveInvariant, PTL

-----------------------------------------------------------------------------
(* The ledger of OwnershipLedger.                                          *)

LedgerStep == \/ Ledger!Claim \/ Ledger!Add \/ Ledger!GiveUp \/ Ledger!TakeBack
              \/ Ledger!Release \/ Ledger!UserActs

\* A step that touches no provider only claims or only releases.
LEMMA ReceiptStep ==
  ASSUME Inductive, Inductive', UNCHANGED <<provided, meddles>>,
         \/ given' = given /\ Claims(file)' \subseteq Claims(file)
         \/ given' = given \ Claims(file)' /\ Claims(file) \subseteq Claims(file)'
  PROVE  LedgerStep
<1>1. Ours' = Ours /\ Theirs' = Theirs /\ meddles' = meddles
  BY DEF Ours, Theirs, Who, provided
<1>2. Claims(file)' \cap Theirs' = {} /\ Kept' \subseteq Claims(file)'
  BY DEF Inductive, ClaimsInv
<1>3. CASE given' = given /\ Claims(file)' \subseteq Claims(file)
  <2>1. Ours \cap (Claims(file) \ Claims(file)') \subseteq given
    BY <1>1, <1>2, <1>3 DEF Kept
  <2>2. Ledger!Release
    BY <1>1, <1>3, <2>1 DEF Ledger!Release, Ours, Theirs
  <2> QED BY <2>2 DEF LedgerStep
<1>4. CASE given' = given \ Claims(file)' /\ Claims(file) \subseteq Claims(file)'
  <2>1. Ledger!Claim
    BY <1>1, <1>2, <1>4 DEF Ledger!Claim, Ours, Theirs
  <2> QED BY <2>1 DEF LedgerStep
<1> QED BY <1>3, <1>4

\* A step that keeps the receipt adds or takes back one thing that it claims.
LEMMA ThingStep ==
  ASSUME Inductive, Inductive', UNCHANGED <<file, meddles, given>>,
         \/ UNCHANGED provided
         \/ \E t \in Claims(file) : \/ ~Present(t) /\ Becomes(t, "agx")
                                    \/ Becomes(t, "none")
  PROVE  LedgerStep
<1>1. Claims(file)' = Claims(file) /\ ProvidedOK /\ Claims(file) \cap Theirs = {}
      /\ Claims(file) \subseteq Things
  BY DEF Claims, Inductive, TypeOK, ProvidedOK, ClaimsInv
<1>2. CASE UNCHANGED provided
  BY <1>1, <1>2, ReceiptStep
<1>3. ASSUME NEW t \in Claims(file), ~Present(t), Becomes(t, "agx") PROVE LedgerStep
  <2>1. t \in Things /\ Who(t) = "none"
    BY <1>1, <1>3 DEF Present
  <2>2. \A u \in Things : Who(u)' = IF u = t THEN "agx" ELSE Who(u)
    BY <1>1, <1>3, <2>1, BecomesIs DEF Markets, States
  <2>3. Ours' = Ours \cup {t} /\ Theirs' = Theirs /\ t \notin Ours
    BY <2>1, <2>2 DEF Ours, Theirs
  <2>4. Ledger!Add
    BY <1>1, <1>3, <2>3 DEF Ledger!Add, Ours, Theirs
  <2> QED BY <2>4 DEF LedgerStep
<1>4. ASSUME NEW t \in Claims(file), Becomes(t, "none") PROVE LedgerStep
  <2>1. t \in Things /\ t \notin Theirs
    BY <1>1, <1>4
  <2>2. \A u \in Things : Who(u)' = IF u = t THEN "none" ELSE Who(u)
    BY <1>1, <1>4, <2>1, BecomesIs DEF Markets, States
  <2>3. Ours' = Ours \ {t} /\ Theirs' = Theirs
    BY <2>1, <2>2 DEF Ours, Theirs
  <2>4. CASE t \in Ours
    <3>1. Ledger!TakeBack
      BY <1>1, <2>3, <2>4 DEF Ledger!TakeBack, Ours, Theirs
    <3> QED BY <3>1 DEF LedgerStep
  <2>5. CASE t \notin Ours
    <3>1. Ours' = Ours
      BY <2>3, <2>5
    <3>2. Ledger!Release
      BY <1>1, <2>3, <3>1 DEF Ledger!Release, Ours, Theirs
    <3> QED BY <3>2 DEF LedgerStep
  <2> QED BY <2>4, <2>5
<1> QED BY <1>2, <1>3, <1>4

\* When adding t fails the claims on the providers after it are given up.
LEMMA GiveUpStep ==
  ASSUME Inductive, UNCHANGED <<file, meddles>>, NEW t \in Claims(file),
         UNCHANGED provided \/ (~Present(t) /\ Becomes(t, "agx")),
         given' = given \cup {u \in Claims(file) : u[1] > t[1]}
  PROVE  LedgerStep
<1>1. Claims(file)' = Claims(file) /\ ProvidedOK /\ Claims(file) \subseteq Things
  BY DEF Claims, Inductive, TypeOK, ProvidedOK
<1>2. Ours' \in {Ours, Ours \cup {t}} /\ Theirs' = Theirs
  <2>1. CASE UNCHANGED provided
    BY <2>1 DEF provided, Ours, Theirs, Who
  <2>2. CASE ~Present(t) /\ Becomes(t, "agx")
    <3>1. t \in Things /\ Who(t) = "none"
      BY <1>1, <2>2 DEF Present
    <3>2. \A u \in Things : Who(u)' = IF u = t THEN "agx" ELSE Who(u)
      BY <1>1, <2>2, <3>1, BecomesIs DEF Markets, States
    <3>3. Ours' = Ours \cup {t} /\ Theirs' = Theirs
      BY <3>1, <3>2 DEF Ours, Theirs
    <3> QED BY <3>3
  <2> QED BY <2>1, <2>2
<1>3. PICK place : place = [u \in Things |-> u[1]]
  OBVIOUS
<1>4. \A u \in Claims(file) : place[u] = u[1]
  BY <1>1, <1>3
<1>5. given' = given \cup {u \in Claims(file) : place[u] > place[t]}
  BY <1>4
<1>6. Ledger!GiveUp
  BY <1>1, <1>2, <1>3, <1>5 DEF Ledger!GiveUp, Ours, Theirs
<1> QED BY <1>6 DEF LedgerStep

LEMMA UserStep ==
  ASSUME Inductive, Meddle PROVE LedgerStep
<1>1. meddles' = meddles + 1 /\ Claims(file)' = Claims(file) /\ Ours' \subseteq Ours
      /\ given' = given
  BY UserIs DEF Meddle, Claims
<1>2. Ledger!UserActs
  BY <1>1 DEF Ledger!UserActs, Ours
<1> QED BY <1>2 DEF LedgerStep

Writing == \/ OnGitHubSide \/ CheckProviders \/ FirstWrite \/ Confirm \/ Succeed \/ Recheck
           \/ Finish \/ Settle \/ RemoveReceipt
Changing == \/ CompensateProvider \/ TakeBackPlugin \/ TakeBackMarket \/ ReadBackProvider
            \/ CheckSources \/ UndoPlugin \/ UndoMarket \/ UndoCheck

\* Where the receipt is written, and what then becomes of the claims.
LEMMA WritingIs ==
  ASSUME Inductive, Inductive',
         \/ Writing /\ UNCHANGED given
         \/ Intend \/ CheckActivation,
         UNCHANGED meddles
  PROVE  /\ UNCHANGED provided
         /\ \/ given' = given /\ Claims(file)' \subseteq Claims(file)
            \/ given' = given \ Claims(file)' /\ Claims(file) \subseteq Claims(file)'
<1>1. mem \in Receipt /\ file \in Receipt /\ file' \in Receipt /\ NoReceipt \in Receipt
  BY NoReceiptIs DEF Inductive, TypeOK
<1>2. UNCHANGED provided
  BY DEF Writing, OnGitHubSide, CheckProviders, FirstWrite, Confirm, Succeed, Recheck, Intend,
     CheckActivation, Finish, Settle, RemoveReceipt
<1>3. \A a \in Receipt : file' = a => Claims(file)' = Claims(a)
  BY DEF Claims
<1>4. CASE Intend
  <2>1. \/ UNCHANGED <<file, given>>
        \/ file' = mem /\ given' = given \ Claims(mem) /\ Claims(file) \subseteq Claims(mem)
    BY <1>4 DEF Intend, At, Inductive, ClaimsInv
  <2> QED BY <1>1, <1>2, <1>3, <2>1
<1>5. CASE CheckActivation
  <2>1. Len(mem.providers) \in Nat /\ \A t \in Claims(mem) : t[1] <= Len(mem.providers) /\ t[1] \in Nat
    BY <1>1, Lengths DEF Claims, Things
  <2>2. {t \in Claims(mem) : t[1] > Len(mem.providers)} = {}
    BY <2>1
  <2>3. given' = given \/ given' = given \cup {t \in Claims(mem) : t[1] > Len(mem.providers)}
    BY <1>5 DEF CheckActivation, Compensate
  <2>4. UNCHANGED file
    BY <1>5 DEF CheckActivation
  <2> QED BY <1>1, <1>2, <1>3, <2>2, <2>3, <2>4
<1>6. ASSUME Writing, UNCHANGED given PROVE Claims(file)' \subseteq Claims(file)
  <2>1. CASE UNCHANGED file
    BY <1>1, <1>3, <2>1
  <2>2. CASE FirstWrite \/ Finish \/ SaveRepository
    <3>1. (file' = file \/ file' = mem) /\ mem.providers = file.providers
      BY <2>2 DEF FirstWrite, Finish, SaveRepository, At, Inductive, ClaimsInv, Agreeing, Creating,
         Adding
    <3> QED BY <1>1, <1>3, <3>1, ClaimsOf
  <2>3. CASE WriteJournal
    <3>1. /\ file' = file \/ file'.providers = mem.providers
          /\ mem.providers = file.providers
      BY <1>1, <2>3 DEF WriteJournal, At, Inductive, ClaimsInv, Agreeing, Linking, Receipt
    <3> QED BY <1>1, <1>3, <3>1, ClaimsOf
  <2>4. CASE SaveFailure
    <3>1. (file' = file \/ file' = mem) /\ Claims(mem) \subseteq Claims(file)
      BY <2>4 DEF SaveFailure, At, Inductive, ClaimsInv
    <3> QED BY <1>1, <1>3, <3>1
  <2>5. CASE RemoveReceipt
    <3>1. file' = file \/ file' = NoReceipt
      BY <2>5 DEF RemoveReceipt
    <3> QED BY <1>1, <1>3, <3>1, NoReceiptIs, ClaimsOf
  <2>6. UNCHANGED file \/ FirstWrite \/ Finish \/ SaveRepository \/ WriteJournal \/ SaveFailure
        \/ RemoveReceipt
    BY <1>6 DEF Writing, OnGitHubSide, GitHubStep, Prepare, OnRepositories, OnProject,
       CheckProviders, Confirm, Succeed, Recheck, Settle, Quiet, VerifyRepositories,
       PreflightRepositories, CheckProject, NextRepository, CreateRepository, ReadBack,
       EnableIssues, InspectRepository, StartProject, CreateProject, FindProject, ConfirmProject,
       EditProject, ReadEdit, LinkProject, ReadLink
  <2> QED BY <2>1, <2>2, <2>3, <2>4, <2>5, <2>6
<1> QED BY <1>2, <1>4, <1>5, <1>6

\* What is added or taken back has been claimed on the disk.
LEMMA ChangingIs ==
  ASSUME Inductive, Changing
  PROVE  /\ UNCHANGED file
         /\ UNCHANGED provided \/ \E t \in Claims(file) : Becomes(t, "none")
<1>1. mem \in Receipt /\ file \in Receipt
  BY DEF Inductive, TypeOK
<1>2. UNCHANGED file
  BY DEF Changing, CompensateProvider, TakeBackPlugin, TakeBackMarket, ReadBackProvider,
     CheckSources, UndoPlugin, UndoMarket, UndoCheck, Quiet
<1>3. CASE CompensateProvider \/ ReadBackProvider \/ CheckSources \/ UndoCheck
  BY <1>2, <1>3 DEF CompensateProvider, ReadBackProvider, CheckSources, UndoCheck
<1>5. CASE TakeBackPlugin \/ UndoPlugin
  <2>1. cmd.left \subseteq Claims(file)
    BY <1>1, <1>5, ClaimsOf DEF TakeBackPlugin, UndoPlugin, At, Inductive, ClaimsInv, Agreeing,
       TakingBack, Undoing
  <2>2. UNCHANGED provided \/ \E t \in cmd.left : Becomes(t, "none")
    BY <1>5 DEF TakeBackPlugin, UndoPlugin
  <2> QED BY <1>2, <2>1, <2>2
<1>6. CASE TakeBackMarket \/ UndoMarket
  <2>1. /\ Claims(mem) \subseteq Claims(file) /\ cmd.at \in 1..Len(mem.providers)
    BY <1>1, <1>6, ClaimsOf DEF TakeBackMarket, UndoMarket, At, Inductive, ClaimsInv, PlaceInv,
       Agreeing, TakingBack, Undoing
  <2>2. <<cmd.at, Shop>> \in Things /\ cmd.at <= Len(mem.providers)
    BY <1>1, <2>1, Lengths DEF Things
  <2>3. UNCHANGED provided \/ (Owned.market /\ Becomes(<<cmd.at, Shop>>, "none"))
    BY <1>6 DEF TakeBackMarket, UndoMarket
  <2>4. Owned.market => <<cmd.at, Shop>> \in Claims(mem)
    BY <2>2 DEF Owned, Claims
  <2> QED BY <1>2, <2>1, <2>3, <2>4
<1> QED BY <1>3, <1>5, <1>6 DEF Changing

LEMMA ActivatingIs ==
  ASSUME Inductive, Inductive', Activate, UNCHANGED meddles PROVE LedgerStep
<1>1. /\ mem \in Receipt /\ file \in Receipt /\ UNCHANGED file
      /\ Claims(mem) = Claims(file) /\ cmd.left \subseteq Claims(file)
  BY ClaimsOf DEF Activate, At, Inductive, TypeOK, ClaimsInv, Agreeing, Adding
<1>2. CASE /\ UNCHANGED given
           /\ UNCHANGED provided \/ \E t \in cmd.left : ~Present(t) /\ Becomes(t, "agx")
  BY <1>1, <1>2, ThingStep
<1>3. ASSUME NEW t \in cmd.left, Compensate(t[1]),
             UNCHANGED provided \/ (~Present(t) /\ Becomes(t, "agx"))
      PROVE  LedgerStep
  <2>1. given' = given \cup {u \in Claims(file) : u[1] > t[1]}
    BY <1>1, <1>3 DEF Compensate
  <2> QED BY <1>1, <1>3, <2>1, GiveUpStep
<1> QED BY <1>2, <1>3 DEF Activate

LEMMA LedgerInitial == ASSUME Init PROVE Ledger!Init
<1>1. Claims(file) = {} /\ meddles = 0 /\ given = {}
  BY NoReceiptIs, ClaimsOf DEF Init, GitHubInit
<1>2. Ours = {}
  BY DEF Init, Ours, Who, Things, Shop
<1> QED BY <1>1, <1>2 DEF Ledger!Init, Ours

LEMMA LedgerNext ==
  ASSUME Inductive, Inductive', [Next]_vars
  PROVE  LedgerStep
<1>1. CASE Work
  <2>1. UNCHANGED meddles
    BY <1>1 DEF Work
  <2>2. \/ Writing /\ UNCHANGED given
        \/ Changing /\ UNCHANGED given
        \/ Intend \/ Activate \/ CheckActivation
    BY <1>1 DEF Work, OnProviders, Compensation, Uninitialize, Activation, Writing, Changing
  <2>3. CASE (Writing /\ UNCHANGED given) \/ Intend \/ CheckActivation
    BY <2>1, <2>3, WritingIs, ReceiptStep
  <2>4. CASE Changing /\ UNCHANGED given
    BY <2>1, <2>4, ChangingIs, ThingStep
  <2>5. CASE Activate
    BY <2>1, <2>5, ActivatingIs
  <2> QED BY <2>2, <2>3, <2>4, <2>5
<1>2. CASE Meddle
  BY <1>2, UserStep
<1>3. CASE UNCHANGED <<file, provided, meddles, given>>
  BY <1>3, ThingStep
<1>4. CASE Run \/ Unclaim
  BY <1>3, <1>4 DEF Run, Unclaim, BeginInit, BeginUninit, provided
<1>5. CASE Crash \/ UNCHANGED vars
  BY <1>3, <1>5 DEF Crash, vars, provided
<1> QED BY <1>1, <1>2, <1>4, <1>5 DEF Next

\* `agx init` and `agx uninstall` keep the ledger, for any number of providers:
\* every thing is claimed before it is added, taken back only by its claim, and
\* the claim on it is dropped only when it is gone or when adding to a provider
\* before it has failed.
THEOREM RefinesLedger == Spec => ImplementsLedger
<1>1. Init => Ledger!Init
  BY LedgerInitial
<1>2. Inductive /\ Inductive' /\ [Next]_vars => [LedgerStep]_(Ledger!vars)
  BY LedgerNext
<1> QED BY <1>1, <1>2, InductiveInvariant, PTL
        DEF Spec, ImplementsLedger, Ledger!Spec, LedgerStep
=============================================================================
