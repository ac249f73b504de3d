---------------------------- MODULE Initialization ----------------------------
(***************************************************************************)
(* `agx init` and the provider half of `agx uninstall` as a whole          *)
(* (internal/activation): after the steps of Provisioning the plugins of   *)
(* the profile are added to each provider (internal/provider), and the     *)
(* receipt says what AGX has added, so that only that is taken back.       *)
(*                                                                         *)
(* One command runs at a time.  It may be killed, each of its commands may *)
(* fail, and the user works with GitHub and with the providers meanwhile.  *)
(***************************************************************************)
EXTENDS Provisioning

CONSTANTS MaxCrashes, MaxMeddles, MaxUninits  \* bounds

ASSUME InitializationAssumption ==
  /\ MaxCrashes \in Nat /\ MaxMeddles \in Nat /\ MaxUninits \in Nat
  /\ "marketplace" \notin Plugins  \* the tag of a Marketplace, see Things

VARIABLES
  market,      \* per provider, the Marketplace under the name of AGX
  plugin,      \* per provider, the plugins of the profile
  crashes, meddles, uninits,
  \* History, kept for the properties alone:
  given,       \* the things on which AGX has given up its claim, see Compensate
  calm         \* the user has not acted since the command began

provided == <<market, plugin>>
bounds   == <<crashes, meddles, uninits>>
vars == <<repo, projects, file, mem, cmd, faults, market, plugin,
          crashes, meddles, uninits, given, calm>>

P == DOMAIN Providers
\* Who has added it.  raced: the user has, while AGX claimed it or was about to,
\* see UserAdds.  other: the Marketplace is bound to another source.  off: the
\* plugin is disabled.
Markets == {"none", "agx", "user", "raced", "other"}
States  == {"none", "agx", "user", "raced", "off"}

\* A thing is the Marketplace of a provider or a plugin of it.
Shop     == "marketplace"
Things   == P \X (Plugins \cup {Shop})
Claims(receipt) ==
  {t \in Things : /\ t[1] <= Len(receipt.providers)
                  /\ IF t[2] = Shop THEN receipt.providers[t[1]].market
                     ELSE t[2] \in receipt.providers[t[1]].added}
Who(t)     == IF t[2] = Shop THEN market[t[1]] ELSE plugin[t[1]][t[2]]
Present(t) == Who(t) # "none"
Becomes(t, who) ==
  IF t[2] = Shop THEN market' = [market EXCEPT ![t[1]] = who] /\ UNCHANGED plugin
  ELSE plugin' = [plugin EXCEPT ![t[1]][t[2]] = who] /\ UNCHANGED market
PluginsOf(i, names) == {<<i, g>> : g \in names}
Bound(i) == market[i] \in {"agx", "user", "raced"}

Init ==
  /\ GitHubInit
  /\ market \in [P -> {"none", "user"}]
  /\ plugin \in [P -> [Plugins -> {"none", "user"}]]
  /\ \A t \in Things : Present(t) => Bound(t[1])
  /\ crashes = 0 /\ meddles = 0 /\ uninits = 0 /\ given = {} /\ calm = TRUE

-----------------------------------------------------------------------------
(* prepareProviderTargets and verifyReceipt.                               *)

Conflict == \E t \in Things : Who(t) \in {"other", "off"}
Problems(receipt) == \E t \in Things :
  t[1] <= Len(receipt.providers) /\ Who(t) \in {"none", "other", "off"}

\* An unfinished uninitialization does not stop it, manual cleanup does.
BeginInit ==
  /\ At("idle") /\ file.phase # "needs_manual_cleanup"
  /\ mem' = file /\ cmd' = [Idle EXCEPT !.pc = "verify"]
  /\ UNCHANGED <<file, faults, uninits>> /\ GitHubQuiet /\ UNCHANGED provided

CheckProviders ==
  /\ At("check_providers") /\ GitHubQuiet /\ UNCHANGED <<file, uninits, provided>>
  /\ \/ FailsOr(Conflict) /\ Exit
     \/ /\ ~Conflict /\ Fine
        /\ mem' = [mem EXCEPT !.phase = IF @ = "absent" THEN "provisioning" ELSE @]
        /\ Goto(CASE mem.phase = "absent" -> "first_write"
                  [] mem.phase = "initialized" /\ mem.project # NoProject -> "confirm_all"
                  [] OTHER -> "repositories")

FirstWrite ==
  /\ At("first_write") /\ GitHubQuiet /\ UNCHANGED <<uninits, provided>>
  /\ \/ file' = mem /\ Fine /\ Goto("repositories") /\ UNCHANGED mem
     \/ Fault /\ UNCHANGED file /\ Exit

\* Mistaken: a deployment that was complete is not verified again.
ConfirmNothing ==
  /\ At("confirm_all") /\ GitHubQuiet /\ UNCHANGED <<file, uninits, provided>>
  /\ Fine /\ Goto("succeed") /\ UNCHANGED mem

\* The deployment was complete before: it is only verified.
Confirm ==
  /\ At("confirm_all") /\ GitHubQuiet /\ UNCHANGED <<file, uninits, provided>>
  /\ \/ ~Problems(mem) /\ Fine /\ Goto("succeed") /\ UNCHANGED mem
     \/ FailsOr(Problems(mem)) /\ Exit

Succeed ==
  /\ At("succeed") /\ Exit
  /\ GitHubQuiet /\ UNCHANGED <<file, faults, uninits, provided>>

-----------------------------------------------------------------------------
(* The activation of the providers.                                        *)

\* Mistaken: what the profile selects is taken for what AGX has added.
RecheckSelected ==
  /\ At("recheck") /\ GitHubQuiet /\ UNCHANGED <<file, uninits, provided>>
  /\ ~Conflict /\ Fine
  /\ mem' = [mem EXCEPT !.phase = "provisioning",
       !.providers = [i \in P |-> [market |-> market[i] = "none", added |-> Plugins]]]
  /\ cmd' = [cmd EXCEPT !.pc = "intend", !.left = {t \in Things : ~Present(t)}]

\* The inventory once more, then mergeProviderOwnership.  left: what is to be
\* added.  A Marketplace the receipt does not claim is not added again.
Recheck ==
  LET before(i) == IF i <= Len(mem.providers) THEN mem.providers[i]
                   ELSE [market |-> market[i] = "none", added |-> {}]
      absent(i) == {g \in Plugins : plugin[i][g] = "none"} IN
  /\ At("recheck") /\ GitHubQuiet /\ UNCHANGED <<file, uninits, provided>>
  /\ \/ FailsOr(Conflict) /\ Fail
     \/ /\ ~Conflict /\ Fine
        /\ mem' = [mem EXCEPT !.phase = "provisioning",
             !.providers = [i \in P |->
                [market |-> before(i).market, added |-> before(i).added \cup absent(i)]]]
        /\ cmd' = [cmd EXCEPT !.pc = "intend",
             !.left = {t \in Claims(mem') : ~Present(t)}]

\* Mistaken: the intent is kept in memory.
IntendSilently ==
  /\ At("intend") /\ GitHubQuiet /\ UNCHANGED <<file, uninits, provided, given>>
  /\ Fine /\ Goto("activate") /\ UNCHANGED mem

\* The intent is on the disk before the first provider is touched.
Intend ==
  /\ At("intend") /\ GitHubQuiet /\ UNCHANGED <<uninits, provided>>
  /\ \/ /\ file' = mem /\ Fine /\ Goto("activate") /\ UNCHANGED mem
        /\ given' = given \ Claims(mem)
     \/ Fault /\ UNCHANGED <<file, given>> /\ Exit

\* compensate, for the providers up to i: candidateReceipts.  The claims on the
\* providers after it are given up, those that an earlier command made too.
Compensate(i) ==
  /\ mem' = [mem EXCEPT !.providers = SubSeq(@, 1, i)]
  /\ given' = given \cup {t \in Claims(mem) : t[1] > i}
  /\ cmd' = [cmd EXCEPT !.pc = "compensate", !.at = i, !.left = {}, !.err = FALSE]

\* activateDeploymentProviders: provider by provider, the Marketplace first.
\* A plugin needs the Marketplace.
Activate ==
  LET first == {t \in cmd.left : \A u \in cmd.left : t[1] <= u[1]}
      turn  == {t \in first : t[2] # Shop => \A u \in first : u[2] # Shop} IN
  /\ At("activate") /\ GitHubQuiet /\ UNCHANGED <<file, uninits>>
  /\ \/ /\ cmd.left = {} /\ Goto("check_activation")
        /\ Fine /\ UNCHANGED <<mem, provided, given>>
     \/ \E t \in turn :
          LET able == IF t[2] = Shop THEN market[t[1]] # "other" ELSE Bound(t[1])
              add  == IF Present(t) THEN UNCHANGED provided ELSE Becomes(t, "agx") IN
          \/ /\ able /\ add /\ Fine /\ UNCHANGED <<mem, given>>
             /\ cmd' = [cmd EXCEPT !.left = @ \ {t}]
          \/ /\ IF able THEN Fault /\ (UNCHANGED provided \/ add)
                ELSE Fine /\ UNCHANGED provided
             /\ Compensate(t[1])

CheckActivation ==
  /\ At("check_activation") /\ GitHubQuiet /\ UNCHANGED <<file, uninits, provided>>
  /\ \/ /\ ~Problems(mem) /\ Fine /\ Goto("finish")
        /\ mem' = [mem EXCEPT !.phase = "initialized"] /\ UNCHANGED given
     \/ FailsOr(Problems(mem)) /\ Compensate(Len(mem.providers))

Finish ==
  /\ At("finish") /\ GitHubQuiet /\ UNCHANGED <<uninits, provided>>
  /\ \/ Valid(mem) /\ file' = mem /\ Fine /\ Goto("succeed") /\ UNCHANGED mem
     \/ FailsOr(~Valid(mem)) /\ UNCHANGED file /\ Exit

-----------------------------------------------------------------------------
(* compensate: from the last provider to the first, past every failure.    *)

Failed    == [cmd EXCEPT !.err = TRUE]
Owned     == mem.providers[cmd.at]
Remaining == {t \in Claims(mem) : t[1] = cmd.at /\ Present(t)}
ToProvider(c, i) == cmd' = [c EXCEPT !.at = i, !.left = {},
                              !.pc = IF i = 0 THEN "settle" ELSE "compensate"]
Quiet == GitHubQuiet /\ UNCHANGED <<file, uninits>>

CompensateProvider ==
  /\ At("compensate") /\ Quiet /\ UNCHANGED <<mem, provided>>
  /\ \/ FailsOr(market[cmd.at] = "other") /\ ToProvider(Failed, cmd.at - 1)
     \/ /\ market[cmd.at] # "other" /\ Fine
        /\ cmd' = [cmd EXCEPT !.pc = "take_back",
                     !.left = {t \in Remaining : t[2] # Shop}]

\* A plugin that the user has removed meanwhile cannot be removed.
TakeBackPlugin ==
  /\ At("take_back") /\ Quiet /\ UNCHANGED mem
  /\ \/ cmd.left = {} /\ Goto("take_market") /\ Fine /\ UNCHANGED provided
     \/ \E t \in cmd.left :
          \/ /\ Present(t) /\ Becomes(t, "none") /\ Fine
             /\ cmd' = [cmd EXCEPT !.left = @ \ {t}]
          \/ /\ IF Present(t) THEN Fault /\ (UNCHANGED provided \/ Becomes(t, "none"))
                ELSE Fine /\ UNCHANGED provided
             /\ cmd' = [Failed EXCEPT !.left = @ \ {t}]

\* Here the source is not looked at again.
TakeBackMarket ==
  LET t == <<cmd.at, Shop>> IN
  /\ At("take_market") /\ Quiet /\ UNCHANGED mem
  /\ \/ Fault /\ ToProvider(Failed, cmd.at - 1) /\ UNCHANGED provided
     \/ ~(Owned.market /\ Present(t)) /\ Goto("read_back") /\ Fine /\ UNCHANGED provided
     \/ /\ Owned.market /\ Present(t)
        /\ \/ Becomes(t, "none") /\ Fine /\ Goto("read_back")
           \/ /\ Fault /\ (UNCHANGED provided \/ Becomes(t, "none"))
              /\ cmd' = [Failed EXCEPT !.pc = "read_back"]

ReadBackProvider ==
  /\ At("read_back") /\ Quiet /\ UNCHANGED <<mem, provided>>
  /\ \/ Remaining = {} /\ Fine /\ ToProvider(cmd, cmd.at - 1)
     \/ FailsOr(Remaining # {}) /\ ToProvider(Failed, cmd.at - 1)

\* Either everything is taken back, or the receipt stays for the user.
Settle ==
  /\ At("settle") /\ Quiet /\ UNCHANGED <<faults, provided>>
  /\ Goto("save_failure")
  /\ mem' = IF cmd.err THEN [mem EXCEPT !.phase = "needs_manual_cleanup"]
            ELSE [mem EXCEPT !.phase = "needs_resume", !.providers = <<>>]

-----------------------------------------------------------------------------
(* Uninitialize: it stops at the first failure.                            *)

Undo(i, retained) ==
  cmd' = [cmd EXCEPT !.at = i, !.retained = retained,
            !.pc = IF i = 0 THEN "remove_receipt" ELSE "undo",
            !.left = IF i = 0 THEN {} ELSE PluginsOf(i, mem.providers[i].added)]

BeginUninit ==
  /\ At("idle") /\ file # NoReceipt
  /\ uninits < MaxUninits /\ uninits' = uninits + 1
  /\ mem' = file /\ cmd' = [Idle EXCEPT !.pc = "check_sources"]
  /\ GitHubQuiet /\ UNCHANGED <<file, faults, provided>>

CheckSources ==
  LET changed == \E i \in 1..Len(mem.providers) : market[i] = "other" IN
  /\ At("check_sources") /\ Quiet /\ UNCHANGED provided
  /\ \/ ~changed /\ Undo(Len(mem.providers), FALSE) /\ Fine /\ UNCHANGED mem
     \/ FailsOr(changed) /\ Exit

\* The inventory is read before each removal.
UndoPlugin ==
  /\ At("undo") /\ Quiet
  /\ \/ cmd.left = {} /\ Goto("undo_market") /\ Fine /\ UNCHANGED <<mem, provided>>
     \/ /\ cmd.left # {} /\ FailsOr(market[cmd.at] = "other")
        /\ Exit /\ UNCHANGED provided
     \/ \E t \in cmd.left :
          /\ market[cmd.at] # "other"
          /\ \/ /\ IF Present(t) THEN Becomes(t, "none") ELSE UNCHANGED provided
                /\ cmd' = [cmd EXCEPT !.left = @ \ {t}] /\ Fine /\ UNCHANGED mem
             \/ Present(t) /\ Fault /\ Becomes(t, "none") /\ Exit

UndoMarket ==
  LET t == <<cmd.at, Shop>> IN
  /\ At("undo_market") /\ Quiet
  /\ \/ FailsOr(Who(t) = "other") /\ Exit /\ UNCHANGED provided
     \/ /\ Who(t) # "other" /\ Fine /\ Goto("undo_check") /\ UNCHANGED mem
        /\ IF Owned.market THEN Becomes(t, "none") ELSE UNCHANGED provided
     \/ Who(t) # "other" /\ Owned.market /\ Fault /\ Becomes(t, "none") /\ Exit

UndoCheck ==
  LET present == market[cmd.at] # "none"
      wrong == market[cmd.at] = "other" \/ Remaining # {} IN
  /\ At("undo_check") /\ Quiet /\ UNCHANGED provided
  /\ \/ ~wrong /\ Undo(cmd.at - 1, cmd.retained \/ present) /\ Fine /\ UNCHANGED mem
     \/ FailsOr(wrong) /\ Exit

\* A Marketplace that AGX found there still refers to the installation.
RemoveReceipt ==
  /\ At("remove_receipt") /\ GitHubQuiet /\ UNCHANGED <<uninits, provided>> /\ Exit
  /\ \/ ~cmd.retained /\ file' = NoReceipt /\ Fine
     \/ FailsOr(cmd.retained) /\ UNCHANGED file

-----------------------------------------------------------------------------
(* The user and the machine.                                               *)

\* What it adds between the inventory of Recheck and the writing of Intend is
\* claimed on the disk all the same: it is raced too.
UserAdds == \E t \in Things :
  /\ ~Present(t) /\ (t[2] # Shop => Bound(t[1]))
  /\ \/ Becomes(t, IF t \in Claims(file) \cup Claims(mem) THEN "raced" ELSE "user")
     \/ t[2] = Shop /\ Becomes(t, "other")
UserRemoves == \E t \in Things :
  /\ Present(t)
  /\ Becomes(t, "none") \/ (t[2] # Shop /\ Becomes(t, "off"))
UserOnGitHub ==
  \/ /\ UNCHANGED projects
     /\ \E r \in Repos :
          \E new \in IF repo[r].there THEN {NoRepo, [repo[r] EXCEPT !.issues = ~@]}
                     ELSE {[there |-> TRUE, commit |-> 0, issues |-> TRUE]} :
            repo' = [repo EXCEPT ![r] = new]
  \/ /\ UNCHANGED repo
     /\ \E i \in OnGitHub :
          \E new \in {GoneProject, [projects[i] EXCEPT !.linked = ~@],
                     [projects[i] EXCEPT !.right = ~@]} :
            projects' = [projects EXCEPT ![i] = new]

Meddle ==
  /\ meddles < MaxMeddles /\ meddles' = meddles + 1
  /\ calm' = FALSE /\ UNCHANGED <<file, mem, cmd, faults, crashes, uninits, given>>
  /\ \/ (UserAdds \/ UserRemoves) /\ GitHubQuiet
     \/ UserOnGitHub /\ UNCHANGED provided

Crash ==
  /\ cmd # Idle /\ crashes < MaxCrashes /\ crashes' = crashes + 1 /\ Exit
  /\ GitHubQuiet /\ UNCHANGED <<file, faults, provided, meddles, uninits, given, calm>>

-----------------------------------------------------------------------------
OnGitHubSide == GitHubStep /\ UNCHANGED <<provided, uninits>>
OnProviders == CheckProviders \/ FirstWrite \/ Confirm \/ Succeed \/ Recheck \/ Finish
Activation  == Intend \/ Activate \/ CheckActivation
Compensation == CompensateProvider \/ TakeBackPlugin \/ TakeBackMarket
                \/ ReadBackProvider \/ Settle
Uninitialize == CheckSources \/ UndoPlugin \/ UndoMarket \/ UndoCheck \/ RemoveReceipt

Work ==
  /\ \/ (OnGitHubSide \/ OnProviders \/ Compensation \/ Uninitialize) /\ UNCHANGED given
     \/ Activation
  /\ UNCHANGED <<crashes, meddles, calm>>
Run     == BeginInit /\ calm' = TRUE /\ UNCHANGED <<crashes, meddles, given>>
Unclaim == BeginUninit /\ calm' = TRUE /\ UNCHANGED <<crashes, meddles, given>>
Next == Work \/ Run \/ Unclaim \/ Meddle \/ Crash

Spec == Init /\ [][Next]_vars
\* A command goes on, and the operator runs `agx init` again.
FairSpec == Spec /\ WF_vars(Work) /\ WF_vars(Run)

-----------------------------------------------------------------------------
(* Properties.                                                             *)

Pcs == {"idle", "save_failure", "verify", "preflight", "check_project",
  "repositories", "create", "readback", "enable", "inspect", "save_repository",
  "project", "create_project", "find_project", "journal", "confirm", "edit",
  "read_edit", "link", "read_link", "check_providers", "first_write",
  "confirm_all", "succeed", "recheck", "intend", "activate", "check_activation",
  "finish", "compensate", "take_back", "take_market", "read_back", "settle",
  "check_sources", "undo", "undo_market", "undo_check", "remove_receipt"}

Commands == [pc : Pcs, err : BOOLEAN, next : Pcs, commit : Commits \cup {0},
             at : 0..Len(Providers), left : SUBSET Things, retained : BOOLEAN]

\* The types; and the receipt on the disk is one that readReceipt accepts.
TypeOK ==
  /\ repo \in [Repos -> Repo] /\ projects \in [Ids -> Project]
  /\ file \in Receipt /\ mem \in Receipt
  /\ file # NoReceipt => file.phase # "absent" /\ Valid(file)
  /\ cmd \in Commands
  /\ market \in [P -> Markets] /\ plugin \in [P -> [Plugins -> States]]
  /\ faults \in 0..MaxFaults /\ crashes \in 0..MaxCrashes
  /\ meddles \in 0..MaxMeddles /\ uninits \in 0..MaxUninits
  /\ given \subseteq Things /\ calm \in BOOLEAN

\* What AGX has added to a provider is claimed by the receipt on the disk, in
\* every state: whenever the command is killed, and whatever fails, `agx
\* uninstall` still knows what to take back.  The one exception: when adding to
\* a provider fails, the claims that an earlier command made on the providers
\* after it are given up (activation.go:720-725), although nothing there is
\* taken back (README.md, section 5).  The first provider is never affected.
NothingLost ==
  /\ {t \in Things : Who(t) = "agx"} \subseteq Claims(file) \cup given
  /\ \A t \in given : t[1] > 1

\* `agx status`.  An uncertain repository that is not there is no drift while
\* the deployment is unfinished.
Status ==
  LET unfinished == file.phase \in {"needs_resume", "provisioning"}
      repoDrift(r) == /\ file.repos[r] # NoEntry /\ ~RepoVerifies(r, file.repos[r])
                      /\ file.repos[r].sure \/ ~unfinished \/ There(r)
      projectDrift ==
        /\ file.project # NoProject
        /\ IF file.project.linked THEN ~ProjectVerifies(file.project)
           ELSE ~ProjectRevalidates(file.project) \/ ~unfinished
      drift == \/ projectDrift \/ (\E r \in Repos : repoDrift(r))
               \/ file.phase # "needs_manual_cleanup" /\ Problems(file) IN
  IF file = NoReceipt THEN "absent"
  ELSE IF drift THEN "drifted"
  ELSE IF file.phase = "initialized" /\ file.project = NoProject THEN "needs_resume"
  ELSE file.phase

\* The uncertain repositories that are not there.
Vanished == {r \in Repos :
  file.repos[r] # NoEntry /\ ~file.repos[r].sure /\ ~There(r)}

\* When the command reports success, also if the phase was "initialized" before,
\* the repositories, the linked Project and all providers are as the receipt on
\* the disk has them, whatever the user did before the command began, and `agx
\* status` agrees.  What the user does while the command runs it may not see.
\* Two successes are false (README.md, section 5).  A contract repository that
\* was never confirmed and is gone is left out and not made again, while `agx
\* status` reports drift.  And a visibility that the user changed while a
\* command was linking the Project is recorded and confirmed ever after.
SuccessIsTrue ==
  At("succeed") /\ calm =>
    /\ \A r \in Repos \ Vanished : RepoVerifies(r, file.repos[r])
    /\ Vanished \subseteq {"contracts"} /\ \A r \in Vanished : mem.repos[r] = NoEntry
    /\ projects[file.project.id] =
         [there |-> TRUE, right |-> file.project.right, linked |-> TRUE]
    /\ meddles = 0 => file.project.right
    /\ Len(file.providers) = Len(Providers) /\ ~Problems(file)
    /\ Status = IF Vanished = {} THEN "initialized" ELSE "drifted"

\* What still stands in the way of a command that is run again and again: the
\* user must clean up, or something is there that no receipt claims, or what
\* is recorded has changed.
Blocked ==
  \/ file.phase = "needs_manual_cleanup" \/ Conflict
  \/ \E r \in Repos : IF file.repos[r] = NoEntry THEN repo[r].there
                      ELSE /\ ~RepoVerifies(r, file.repos[r])
                           /\ file.repos[r].sure \/ repo[r].there
  \/ IF file.project = NoProject THEN OnGitHub # {}
     ELSE \/ ~ProjectRevalidates(file.project)
          \/ file.project.linked /\ ~ProjectVerifies(file.project)
  \/ file.phase = "initialized" /\ Problems(file)

\* Faults, crashes and the user being finite, running the same command again
\* completes the deployment, unless one of the named obstacles remains.
Resumes == <>[](file.phase = "initialized" \/ Blocked)

\* The promise of the package (activation.go:1): see OwnershipLedger.
Ledger == INSTANCE OwnershipLedger WITH
  Objects <- Things,
  Place   <- [t \in Things |-> t[1]],
  claimed <- Claims(file),
  ours    <- {t \in Things : Who(t) = "agx"},
  theirs  <- {t \in Things : Who(t) = "user"},
  user    <- meddles
ImplementsLedger == Ledger!Spec
=============================================================================
