---------------------------- MODULE ClaudeContent ----------------------------
(***************************************************************************)
(* What a fresh launch of Claude Code hands to the client: the probe of    *)
(* its capabilities (capability-probe.ts), the assembly manifest and the   *)
(* adapter plan (assembly-manifest.ts, adapter-plan.ts), the content of    *)
(* the revision, checked against its fingerprints and copied file by file  *)
(* in three concurrent groups (content-materializer.ts), and the decision  *)
(* whether to start the client (application/claude-launch.ts).  Module     *)
(* Launch has the plan around it; here it is a job.                        *)
(*                                                                         *)
(* The library is that of module Supply, edited and scanned meanwhile; the *)
(* client is a program that its owner may replace at any time.             *)
(***************************************************************************)
EXTENDS Supply

CONSTANTS
  Segment,        \* sanitizePathSegment: the directory of a skill of that name
  NotJson,        \* texts that are no JSON
  Versions,       \* of the client: what its help says of its options
  MaxUpgrades, MaxFaults  \* bounds, also on the failed writes

Delivering == {"instruction", "skill", "mcp"}
MainFlags  == {"--permission-mode", "--strict-mcp-config", "--setting-sources",
               "--plugin-dir", "--append-system-prompt"}

\* What the help says of an option: nothing, the values that are expected, or
\* others.  scope: of the option of `claude mcp add`.
Readings == {"absent", "exact", "other"}
Valueless == {"--strict-mcp-config", "--plugin-dir", "--append-system-prompt"}

ASSUME ContentAssumption ==
  /\ NotJson \subseteq Texts /\ DOMAIN Segment = Range(NameOf)
  /\ \A v \in Versions :
       /\ v.main \in [MainFlags -> Readings] /\ v.scope \in Readings
       /\ \A flag \in Valueless : v.main[flag] # "other"
  /\ MaxUpgrades \in Nat /\ MaxFaults \in Nat

VARIABLES
  client,         \* the version installed
  job,            \* the launch
  group,          \* the progress of its three groups
  out,            \* what they have written, by kind and key
  mishaps         \* upgrades, also since the probe began, and faults

contentVars == <<library, author, revisions, edits, edited, client, job, group, out, mishaps>>
jobVars == <<client, job, group, out, mishaps>>

\* now: the reference in work, checked or copied; left: its files still to
\* read; print: what has been read.  failed: the references that failed.
NoGroup == [todo |-> {}, now |-> Unknown, step |-> "check", left |-> {},
            print |-> Nothing, failed |-> {}]
NoJob == [pc |-> "idle", rev |-> {}, main |-> Unknown, scope |-> Unknown,
          argv |-> {}, blamed |-> {}, verdict |-> "none"]
Keys == Range(NameOf) \cup Range(Segment)

ContentInit ==
  /\ SupplyInit
  /\ client \in Versions
  /\ job = NoJob
  /\ group = [kind \in Delivering |-> NoGroup]
  /\ out = [kind \in Delivering |-> [key \in Keys |-> Nothing]]
  /\ mishaps = [upgrades |-> 0, upgraded |-> FALSE, faults |-> 0]

Of(rev, kind) == {ref \in rev : ref.kind = kind}
Uses(rev, kind) == Of(rev, kind) # {}

-----------------------------------------------------------------------------
(* Capabilities: probe, manifest, argv.                                    *)

Capabilities == {"permission-mode", "mcp-scope", "setting-sources",
                 "hook-deny", "plugin-dir", "append-prompt"}
Required(c)  == c # "hook-deny"

Relevant(rev) ==
  {c \in Capabilities :
     \/ c = "permission-mode"
     \/ c = "mcp-scope" /\ Uses(rev, "mcp")
     \/ c \in {"setting-sources", "plugin-dir"} /\ Uses(rev, "skill")
     \/ c = "hook-deny" /\ Uses(rev, "hook")
     \/ c = "append-prompt" /\ Uses(rev, "instruction")}

\* Mistaken: the option is there, whatever its values.
EnumeratedLoosely(reading) ==
  IF reading = "absent" THEN "unsupported" ELSE "supported"
Enumerated(reading) ==
  CASE reading = "absent" -> "unsupported" [] reading = "exact" -> "supported"
    [] OTHER -> "degraded"
Present(reading) == IF reading = "absent" THEN "unsupported" ELSE "supported"

\* The evidence is what the two help texts say; what could not be captured is
\* unknown, and so is always whether a hook can deny.
McpScope(main, scope) ==
  LET strict == main["--strict-mcp-config"] # "absent"
      exact  == scope = "exact"
  IN IF strict /\ exact THEN "supported"
     ELSE IF strict \/ exact THEN "degraded" ELSE "unsupported"

Status(c, main, scope) ==
  IF main = Unknown \/ c = "hook-deny" \/ (c = "mcp-scope" /\ scope = Unknown) THEN "unknown"
  ELSE CASE c = "permission-mode" -> Enumerated(main["--permission-mode"])
         [] c = "setting-sources" -> Enumerated(main["--setting-sources"])
         [] c = "mcp-scope"       -> McpScope(main, scope)
         [] c = "plugin-dir"      -> Present(main["--plugin-dir"])
         [] c = "append-prompt"   -> Present(main["--append-system-prompt"])

CapabilityStatus(c) == Status(c, job.main, job.scope)

\* compileClaudeAssemblyManifest.
Blocking == {c \in Relevant(job.rev) : Required(c) /\ CapabilityStatus(c) \in {"unsupported", "unknown"}}

Degraded == {c \in Relevant(job.rev) : CapabilityStatus(c) # "supported"} \ Blocking

\* buildClaudeAdapterPlanArgv.
FlagOf(c) ==
  CASE c = "permission-mode" -> {"--permission-mode"}
    [] c = "mcp-scope"       -> {"--strict-mcp-config"}
    [] c = "setting-sources" -> {"--setting-sources"}
    [] OTHER                 -> {}
PlannedFlags ==
  UNION {FlagOf(c) : c \in {d \in Relevant(job.rev) : CapabilityStatus(d) \in {"supported", "degraded"}}}

-----------------------------------------------------------------------------
KeepLibrary == UNCHANGED supplyVars

BeginLaunch ==
  /\ job.pc = "idle" /\ job.verdict = "none"
  /\ \E rev \in revisions : job' = [NoJob EXCEPT !.pc = "probe", !.rev = rev]
  /\ edited' = [edited EXCEPT !["launch"] = {}]
  /\ mishaps' = [mishaps EXCEPT !.upgraded = FALSE]
  /\ UNCHANGED <<library, author, revisions, edits, client, group, out>>

\* Two runs of the client with --help, at the same time; each may fail.
ProbeMain ==
  /\ job.pc = "probe"
  /\ \E main \in {client.main, Unknown} :
       job' = [job EXCEPT !.main = main, !.pc = "mainProbed"]
  /\ UNCHANGED <<client, group, out, mishaps>> /\ KeepLibrary

ProbeScope ==
  /\ job.pc = "mainProbed"
  /\ \E scope \in {client.scope, Unknown} :
       job' = [job EXCEPT !.scope = scope, !.pc = "compile"]
  /\ UNCHANGED <<client, group, out, mishaps>> /\ KeepLibrary

\* A relevant capability that is required and not there ends the launch before
\* anything is written.  The invocation directory is module Launch's.
Compile ==
  /\ job.pc = "compile"
  /\ IF Blocking # {}
       THEN /\ job' = [job EXCEPT !.pc = "idle", !.verdict = "incapable", !.blamed = Blocking]
            /\ UNCHANGED group
       ELSE /\ job' = [job EXCEPT !.pc = "content", !.argv = PlannedFlags]
            /\ group' = [kind \in Delivering |-> [NoGroup EXCEPT !.todo = Of(job.rev, kind)]]
  /\ UNCHANGED <<client, out, mishaps>> /\ KeepLibrary

-----------------------------------------------------------------------------
(* materializeInstructions, materializeSkills and materializeMcp.          *)

Working(kind) == job.pc = "content" /\ group[kind].now # Unknown
Fails(kind, ref) ==
  group' = [group EXCEPT ![kind].now = Unknown, ![kind].failed = @ \cup {ref}]
KeepJob == UNCHANGED <<client, job, mishaps>>

Copying(g, ref) == [g EXCEPT !.now = ref, !.step = "list", !.left = {}, !.print = Nothing]

\* Mistaken: the fingerprint is that of SKILL.md.
TakeEntry(kind) ==
  /\ job.pc = "content" /\ group[kind].now = Unknown /\ group[kind].todo # {}
  /\ \E ref \in group[kind].todo :
       LET g == [group[kind] EXCEPT !.todo = @ \ {ref}] IN
       IF ref.at \notin Things \/ Listing(ref.at) = {} \/ Linked(Files, ref.at)
         THEN group' = [group EXCEPT ![kind] = [g EXCEPT !.failed = @ \cup {ref}]]
       ELSE IF ref.print = Unknown
         THEN group' = [group EXCEPT ![kind] = Copying(g, ref)]
       ELSE group' = [group EXCEPT ![kind] =
              [g EXCEPT !.now = ref, !.step = "check", !.left = {Entry},
                        !.print = [ref.print EXCEPT ![Entry] = Missing]]]
  /\ UNCHANGED out /\ KeepJob /\ KeepLibrary

\* The next reference: a path inside the library, that exists.  Then its
\* fingerprint is computed as supply does it, unless it is unknown.
Take(kind) ==
  /\ job.pc = "content" /\ group[kind].now = Unknown /\ group[kind].todo # {}
  /\ \E ref \in group[kind].todo :
       LET g == [group[kind] EXCEPT !.todo = @ \ {ref}] IN
       IF ref.at \notin Things \/ Listing(ref.at) = {}
         THEN group' = [group EXCEPT ![kind] = [g EXCEPT !.failed = @ \cup {ref}]]
       ELSE IF ref.print = Unknown
         THEN group' = [group EXCEPT ![kind] = Copying(g, ref)]
       ELSE IF Linked(Files, ref.at)
         THEN group' = [group EXCEPT ![kind] = [g EXCEPT !.failed = @ \cup {ref}]]
       ELSE group' = [group EXCEPT ![kind] =
              [g EXCEPT !.now = ref, !.step = "check", !.left = Listing(ref.at),
                        !.print = Nothing]]
  /\ UNCHANGED out /\ KeepJob /\ KeepLibrary

\* fingerprintDirectory, file by file.
CheckFile(kind) ==
  /\ Working(kind) /\ group[kind].step = "check" /\ group[kind].left # {}
  /\ LET ref  == group[kind].now
         f    == Min(group[kind].left)
         text == library[ref.at][f]
     IN IF text \notin Texts THEN Fails(kind, ref)
        ELSE group' = [group EXCEPT ![kind].left = @ \ {f}, ![kind].print[f] = text]
  /\ UNCHANGED out /\ KeepJob /\ KeepLibrary

Compare(kind) ==
  /\ Working(kind) /\ group[kind].step = "check" /\ group[kind].left = {}
  /\ LET g == group[kind] IN
     IF g.print # g.now.print THEN Fails(kind, g.now)
     ELSE group' = [group EXCEPT ![kind] = Copying(g, g.now)]
  /\ UNCHANGED out /\ KeepJob /\ KeepLibrary

\* Where the content goes: a directory, a server, a part of the prompt.
Key(ref) == IF ref.kind = "skill" THEN Segment[ref.name] ELSE ref.name

\* copyTree makes the directory and lists the source once more; instructions
\* and servers are files, which are read once more.
List(kind) ==
  /\ Working(kind) /\ group[kind].step = "list"
  /\ LET ref == group[kind].now IN
     IF (kind = "skill") # (ref.at \in Skills) \/ Listing(ref.at) = {}
       THEN Fails(kind, ref)
       ELSE group' = [group EXCEPT ![kind].step = "copy", ![kind].left = Listing(ref.at)]
  /\ UNCHANGED out /\ KeepJob /\ KeepLibrary

\* Mistaken: an entry that has gone meanwhile is waited for.
CopyPatiently(kind) ==
  /\ Working(kind) /\ group[kind].step = "copy" /\ group[kind].left # {}
  /\ \E f \in group[kind].left :
       LET ref  == group[kind].now
           text == library[ref.at][f]
       IN /\ text \in Texts
          /\ group' = [group EXCEPT ![kind].left = @ \ {f}]
          /\ out' = [out EXCEPT ![kind][Key(ref)][f] = text]
  /\ KeepJob /\ KeepLibrary

\* One entry, in the order of the directory.  What is no file any more, or no
\* JSON where that is needed, fails the reference; what has been copied stays.
Copy(kind) ==
  /\ Working(kind) /\ group[kind].step = "copy" /\ group[kind].left # {}
  /\ \E f \in group[kind].left :
       LET ref  == group[kind].now
           text == library[ref.at][f]
       IN IF text \notin Texts \/ (kind = "mcp" /\ text \in NotJson)
            THEN Fails(kind, ref) /\ UNCHANGED out
          ELSE /\ group' = [group EXCEPT ![kind].left = @ \ {f}]
               /\ out' = [out EXCEPT ![kind][Key(ref)][f] = text]
  /\ KeepJob /\ KeepLibrary

Copied(kind) ==
  /\ Working(kind) /\ group[kind].step = "copy" /\ group[kind].left = {}
  /\ group' = [group EXCEPT ![kind].now = Unknown, ![kind].step = "check"]
  /\ UNCHANGED out /\ KeepJob /\ KeepLibrary

\* plugin.json or mcp.json cannot be written: a failure like any other.
Manifest == [kind |-> "manifest"]
WriteFails(kind) ==
  /\ job.pc = "content" /\ kind # "instruction" /\ mishaps.faults < MaxFaults
  /\ group[kind].now = Unknown /\ group[kind].todo = {}
  /\ Of(job.rev, kind) \ group[kind].failed # {}
  /\ group' = [group EXCEPT ![kind].failed = @ \cup {Manifest}]
  /\ mishaps' = [mishaps EXCEPT !.faults = @ + 1]
  /\ UNCHANGED <<client, job, out>> /\ KeepLibrary

-----------------------------------------------------------------------------
Governing(kind) ==
  CASE kind = "instruction" -> "append-prompt" [] kind = "skill" -> "plugin-dir"
    [] OTHER -> "mcp-scope"
DeliveryFlags(kind) ==
  CASE kind = "instruction" -> {"--append-system-prompt"} [] kind = "skill" -> {"--plugin-dir"}
    [] OTHER -> {"--mcp-config", "--strict-mcp-config"}

Failing == {kind \in Delivering : group[kind].failed # {}}

\* computeClaudeKnownDifferences.
Differences == Degraded # {} \/ Uses(job.rev, "hook") \/ Uses(job.rev, "plugin")

\* Mistaken: a group is delivered if anything of it is there.
DecideLenient ==
  /\ job.pc = "content"
  /\ \A kind \in Delivering : group[kind].now = Unknown /\ group[kind].todo = {}
  /\ LET failing == {kind \in Failing : Of(job.rev, kind) \subseteq group[kind].failed} IN
     IF failing # {}
       THEN job' = [job EXCEPT !.pc = "idle", !.verdict = "undelivered",
                               !.blamed = {Governing(kind) : kind \in failing}]
     ELSE job' = [job EXCEPT !.pc = "spawn",
            !.argv = @ \cup UNION {DeliveryFlags(kind) : kind \in {k \in Delivering : Uses(job.rev, k)}}]
  /\ UNCHANGED <<client, group, out, mishaps>> /\ KeepLibrary

\* resolveContentGroupDelivery, when all three groups have settled: if
\* anything of a group failed, the launch fails, and names every such group.
DecideDelivery ==
  /\ job.pc = "content"
  /\ \A kind \in Delivering : group[kind].now = Unknown /\ group[kind].todo = {}
  /\ IF Failing # {}
       THEN job' = [job EXCEPT !.pc = "idle", !.verdict = "undelivered",
                               !.blamed = {Governing(kind) : kind \in Failing}]
     ELSE job' = [job EXCEPT !.pc = "spawn",
            !.argv = @ \cup UNION {DeliveryFlags(kind) : kind \in {k \in Delivering : Uses(job.rev, k)}}]
  /\ UNCHANGED <<client, group, out, mishaps>> /\ KeepLibrary

SpawnClient ==
  /\ job.pc = "spawn"
  /\ job' \in {[job EXCEPT !.pc = "idle", !.verdict = IF Differences THEN "degraded" ELSE "applied"],
               [job EXCEPT !.pc = "idle", !.verdict = "unspawned"]}
  /\ UNCHANGED <<client, group, out, mishaps>> /\ KeepLibrary

\* Another version of the client is installed.  (Only a launch looks at it: what
\* it was before is a matter of the initial states.)
Upgrade ==
  /\ mishaps.upgrades < MaxUpgrades /\ job.pc # "idle"
  /\ client' \in Versions \ {client}
  /\ mishaps' = [mishaps EXCEPT !.upgrades = @ + 1, !.upgraded = TRUE]
  /\ UNCHANGED <<job, group, out>> /\ KeepLibrary

MaterializeGroup(kind) ==
  Take(kind) \/ CheckFile(kind) \/ Compare(kind) \/ List(kind) \/ Copy(kind) \/ Copied(kind)

Launching ==
  \/ ProbeMain \/ ProbeScope \/ Compile \/ DecideDelivery \/ SpawnClient
  \/ \E kind \in Delivering : MaterializeGroup(kind)

ContentNext ==
  \/ Supplying /\ UNCHANGED jobVars
  \/ job.verdict = "none" /\ Edit /\ UNCHANGED jobVars
  \/ BeginLaunch \/ Launching \/ Upgrade
  \/ \E kind \in Delivering : WriteFails(kind)

ContentSpec == ContentInit /\ [][ContentNext]_contentVars
FairContentSpec == ContentSpec /\ WF_contentVars(Launching)

-----------------------------------------------------------------------------
ClientStarted == job.verdict \in {"applied", "degraded"}

\* What of a thing is delivered: a document is its one file.
Delivered(ref) ==
  out[ref.kind][Key(ref)] = IF ref.print = Unknown THEN library[ref.at] ELSE ref.print

\* No other reference is delivered to the same place.
Apart(ref) == \A other \in Of(job.rev, ref.kind) : Key(other) = Key(ref) => other = ref

\* A client that is started gets everything its revision references, in full,
\* and as it was when the revision was supplied, unless somebody edits that
\* very thing during the launch or it goes to the same place as another: an
\* older edit is found out, whichever file it was in and whatever else is
\* edited meanwhile.
DeliveredIsRecorded ==
  ClientStarted =>
    \A ref \in job.rev : ref.kind \in Delivering =>
      /\ DeliveryFlags(ref.kind) \subseteq job.argv
      /\ ref.at \in Things
      /\ ref.at \notin edited["launch"] /\ Apart(ref) => Delivered(ref)

\* What the help said of a capability's options, when it was probed.  A scope
\* with other values is no evidence that there is one for projects.
Evidence(c) ==
  CASE c = "permission-mode" -> {job.main["--permission-mode"]}
    [] c = "setting-sources" -> {job.main["--setting-sources"]}
    [] c = "mcp-scope"       -> {job.main["--strict-mcp-config"],
                                  IF job.scope = "exact" THEN "exact" ELSE "absent"}
    [] c = "plugin-dir"      -> {job.main["--plugin-dir"]}
    [] c = "append-prompt"   -> {job.main["--append-system-prompt"]}
    [] OTHER                 -> {}

\* "applied" is said only of a launch whose every control the probed client
\* has in full and is told to use, and that delivers all there is; a launch
\* with less is called degraded, or is none.  And every option it passes was in
\* the help of the client that was probed, which is the client that is started
\* unless it has been replaced since; but for two.  The probe does not look for
\* --mcp-config; and it finds no --strict-mcp-config in a client with a scope
\* for projects, which makes the launch a degraded one that passes it all the
\* same.
ClaimsAreTrue ==
  ClientStarted =>
    /\ \A c \in Relevant(job.rev) \ {"hook-deny"} :
         /\ Evidence(c) # {"absent"} /\ FlagOf(c) \subseteq job.argv
         /\ job.verdict = "applied" => Evidence(c) = {"exact"}
    /\ job.verdict = "applied" => \A ref \in job.rev : ref.kind \in Delivering
    /\ \A flag \in job.argv :
         \/ flag \in MainFlags /\ job.main[flag] # "absent"
         \/ flag = "--mcp-config" /\ Uses(job.rev, "mcp")
         \/ flag = "--strict-mcp-config" /\ job.scope = "exact" /\ job.verdict = "degraded"
    /\ mishaps.upgraded \/ job.main = client.main

\* What a launch blames is to blame: the capability is not known to be there,
\* or something of its group cannot be delivered as recorded.  A revision
\* supplied from a library that is unchanged since is never refused for its
\* content: both sides fingerprint the same way.
HasCause(ref) ==
  \/ ref.at \notin Things
  \/ ref.at \in edited["launch"]
  \/ ref.print # Unknown /\ library[ref.at] # ref.print
  \/ (ref.kind = "skill") # (ref.at \in Skills)
  \/ Listing(ref.at) = {} \/ Linked(Files, ref.at)
  \/ ref.kind = "mcp" /\ library[ref.at][Entry] \in NotJson
BlamedForCause ==
  /\ job.verdict = "incapable" =>
       \A c \in job.blamed :
         /\ c \in Relevant(job.rev)
         /\ job.main = Unknown \/ job.scope = Unknown \/ Evidence(c) = {"absent"}
  /\ job.verdict = "undelivered" =>
       \A c \in job.blamed :
         \E kind \in Delivering :
           /\ Governing(kind) = c
           /\ mishaps.faults > 0 \/ \E ref \in Of(job.rev, kind) : HasCause(ref)
  /\ job.verdict \in {"incapable", "undelivered"} => job.blamed # {}

\* Every launch comes to a verdict, whatever the library does meanwhile.
Settles == job.pc # "idle" ~> job.pc = "idle"

-----------------------------------------------------------------------------
(* Why they hold.  What a group has made of a thing is right as long as    *)
(* nobody has edited the thing since the launch began.                     *)

Jobs ==
  [pc : {"idle", "probe", "mainProbed", "compile", "content", "spawn"}, rev : SUBSET References,
   main : [MainFlags -> Readings] \cup {Unknown}, scope : Readings \cup {Unknown},
   argv : SUBSET (MainFlags \cup {"--mcp-config"}), blamed : SUBSET Capabilities,
   verdict : {"none", "incapable", "undelivered", "applied", "degraded", "unspawned"}]
GroupStates ==
  [todo : SUBSET References, now : References \cup {Unknown}, step : {"check", "list", "copy"},
   left : SUBSET Files, print : Prints, failed : SUBSET (References \cup {Manifest})]

ContentTypeOK ==
  /\ client \in Versions /\ job \in Jobs
  /\ group \in [Delivering -> GroupStates]
  /\ out \in [Delivering -> [Keys -> Prints]]
  /\ mishaps \in [upgrades : 0..MaxUpgrades, upgraded : BOOLEAN, faults : 0..MaxFaults]

Kept(thing) == thing \notin edited["launch"]

\* The reference in work, of which left is still to be read or copied.
ButFor(left, thing) == [f \in Files |-> IF f \in left THEN Missing ELSE library[thing][f]]
Checking(g) ==
  /\ ~Linked(Files, g.now.at) /\ g.left \subseteq Listing(g.now.at)
  /\ g.print = ButFor(g.left, g.now.at)
InWork(kind, g) ==
  /\ g.now \in Of(job.rev, kind) \ g.todo /\ g.now.at \in Things
  /\ g.step = "check" => g.now.print # Unknown
  /\ g.step = "copy" => ((kind = "skill") <=> (g.now.at \in Skills))
  /\ g.step # "copy" /\ Apart(g.now) => out[kind][Key(g.now)] = Nothing
  /\ Kept(g.now.at) =>
       /\ g.step = "check" => Checking(g)
       /\ g.step # "check" /\ g.now.print # Unknown => library[g.now.at] = g.now.print
       /\ g.step = "copy" => g.left \subseteq Listing(g.now.at)
       /\ g.step = "copy" /\ Apart(g.now) =>
            out[kind][Key(g.now)] = ButFor(g.left, g.now.at)

\* What is neither to do, in work nor failed is delivered.
Delivers(kind, g) ==
  /\ g.todo \subseteq Of(job.rev, kind)
  /\ \A ref \in g.todo : Apart(ref) => out[kind][Key(ref)] = Nothing
  /\ \A ref \in Of(job.rev, kind) \ (g.todo \cup {g.now} \cup g.failed) :
       ref.at \in Things /\ (Kept(ref.at) /\ Apart(ref) => Delivered(ref))
  /\ g.failed # {} => mishaps.faults > 0 \/ \E ref \in Of(job.rev, kind) : HasCause(ref)
GroupOK(kind) ==
  /\ Delivers(kind, group[kind])
  /\ group[kind].now # Unknown => InWork(kind, group[kind])

Groups ==
  /\ job.pc \in {"idle", "probe", "mainProbed", "compile"} /\ job.verdict = "none" =>
       \A kind \in Delivering : group[kind] = NoGroup /\ \A key \in Keys : out[kind][key] = Nothing
  /\ job.pc \in {"content", "spawn"} \/ job.verdict \notin {"none", "incapable"} =>
       \A kind \in Delivering : GroupOK(kind)
  /\ job.pc = "spawn" \/ ClientStarted =>
       \A kind \in Delivering :
         /\ group[kind].todo = {} /\ group[kind].now = Unknown /\ group[kind].failed = {}
         /\ Uses(job.rev, kind) => DeliveryFlags(kind) \subseteq job.argv

Verdicts ==
  /\ job.verdict # "none" => job.pc = "idle"
  /\ job.verdict = "incapable" => job.blamed = Blocking /\ Blocking # {}
  /\ job.verdict = "undelivered" =>
       job.blamed = {Governing(kind) : kind \in Failing} /\ Failing # {}
  /\ job.verdict = "applied" => ~Differences

Options ==
  /\ ~mishaps.upgraded /\ job.main # Unknown => job.main = client.main
  /\ job.main # Unknown => \A flag \in Valueless : job.main[flag] # "other"
  /\ job.pc \in {"content", "spawn"} \/ ClientStarted =>
       /\ Blocking = {} /\ PlannedFlags \subseteq job.argv
       /\ job.argv \subseteq
            PlannedFlags \cup UNION {DeliveryFlags(kind) : kind \in {k \in Delivering : Uses(job.rev, k)}}

ContentInductive ==
  /\ SupplyInductive /\ ContentTypeOK
  /\ Groups /\ Verdicts /\ Options
=============================================================================
