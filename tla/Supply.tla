-------------------------------- MODULE Supply --------------------------------
(***************************************************************************)
(* Supplying content to a configuration: `configs supply` fingerprints the *)
(* skills of a library, file by file (adapters/sources/supply-fs.ts), and  *)
(* `configs establish` stores the candidate it prints, or one written by   *)
(* hand, as a revision (application/establish.ts, cli/index.ts).           *)
(*                                                                         *)
(* The library is a directory that its owner edits whenever he likes: the  *)
(* program takes no lock on it.  Between two steps anything in it may have *)
(* changed; a single file is read in one step.                             *)
(***************************************************************************)
EXTENDS Naturals, Sequences, FiniteSets, FiniteSetsExt, Functions

CONSTANTS
  Skills,         \* directories of the library that may hold a skill
  Docs,           \* its other files: instructions, definitions of MCP servers
  GroupOf,        \* the group of a skill, a number: groups are sorted
  NameOf,         \* what a skill or document is called
  Texts,          \* contents of a file
  MaxFile,        \* the files of a skill; file 1 is SKILL.md
  Unknown,        \* what a candidate does not say
  Outside,        \* a reference that leaves the library, or is no relative path
  Wrong,          \* a field of a candidate that has not its type
  Declarations,   \* the groups named on a command line, in order
  HandWritten,    \* candidates that are not the output of supply
  InitialLibraries,
  MaxEdits, MaxRevisions  \* bounds

Things == Skills \cup Docs
Files  == 1..MaxFile
Entry  == 1

\* A directory entry: a file with its text, none, or a link or the like.
Missing == "missing"
Link    == "link"
Contents == [Files -> Texts \cup {Missing, Link}]
Prints   == [Files -> Texts \cup {Missing}]
Nothing  == [f \in Files |-> Missing]

Kinds == {"instruction", "skill", "mcp", "hook", "plugin"}
References == [kind : Kinds, name : Range(NameOf), at : Things \cup {Unknown, Outside},
               print : Prints \cup {Unknown}]

\* Documents are plain files.
Plain(content) == content[Entry] # Link /\ \A f \in Files \ {Entry} : content[f] = Missing

ASSUME SupplyAssumption ==
  /\ Skills \cap Docs = {} /\ MaxFile \in Nat \ {0}
  /\ GroupOf \in [Skills -> Nat] /\ DOMAIN NameOf = Things
  /\ {Unknown, Outside, Wrong} \cap (Things \cup Prints \cup References) = {}
  /\ \A declared \in Declarations : Range(declared) \subseteq Nat \cup {Outside}
  /\ InitialLibraries \subseteq [Things -> Contents]
  /\ \A l \in InitialLibraries, doc \in Docs : Plain(l[doc])
  /\ MaxEdits \in Nat /\ MaxRevisions \in Nat

VARIABLES
  library,        \* what is on the disk
  author,         \* the command of the author
  revisions,      \* the revisions stored: sets of references
  edits,          \* how often the library has been edited
  edited          \* what, since the scan and since the launch began

supplyVars == <<library, author, revisions, edits, edited>>

\* groups: still to scan.  todo: skills of the group still to fingerprint.
\* at, left, print: the skill in work, its files still to read, and what has
\* been read.  found: the references so far.
Idle == [pc |-> "idle", declared |-> <<>>, groups |-> {}, todo |-> {},
         at |-> Unknown, left |-> {}, print |-> Nothing, found |-> {}]

SupplyInit ==
  /\ library \in InitialLibraries
  /\ author = Idle
  /\ revisions = {}
  /\ edits = 0
  /\ edited = [since \in {"scan", "launch"} |-> {}]

Has(thing, f)  == library[thing][f] # Missing
Listing(thing) == {f \in Files : Has(thing, f)}
Linked(files, thing) == \E f \in files : library[thing][f] = Link

-----------------------------------------------------------------------------
(* configs supply.  All errors end it: nothing is printed.                 *)

Refuse == author' = [author EXCEPT !.pc = "refused"]
QuietSupply == UNCHANGED <<library, revisions, edits>>

\* Before the disk is touched: every group is a path inside the library, and
\* none is named twice, in whatever spelling.
Lexical(declared) ==
  /\ Outside \notin Range(declared)
  /\ IsInjective(declared)

BeginSupply ==
  /\ author.pc = "idle" /\ Cardinality(revisions) < MaxRevisions
  /\ \E declared \in Declarations :
       author' = [Idle EXCEPT
         !.pc = IF Lexical(declared) THEN "list" ELSE "refused",
         !.declared = declared,
         !.groups = Range(declared) \ {Outside}]
  /\ edited' = [edited EXCEPT !["scan"] = {}]
  /\ QuietSupply

\* Mistaken: what cannot be read is no skill of the group.
ListGroupSkipping ==
  /\ author.pc = "list" /\ author.groups # {}
  /\ LET group == Min(author.groups)
         skills == {s \in Skills : GroupOf[s] = group /\ library[s][Entry] \in Texts
                                   /\ ~Linked(Files, s)}
     IN IF skills = {} THEN Refuse
        ELSE author' = [author EXCEPT !.pc = "open", !.todo = skills, !.groups = @ \ {group}]
  /\ UNCHANGED edited /\ QuietSupply

\* The directories with a SKILL.md.  A SKILL.md that is a link ends the scan;
\* so does a group that is not there, or has no skill.
ListGroup ==
  /\ author.pc = "list" /\ author.groups # {}
  /\ LET group == Min(author.groups)
         skills == {s \in Skills : GroupOf[s] = group /\ Has(s, Entry)}
     IN IF skills = {} \/ \E s \in skills : library[s][Entry] = Link THEN Refuse
        ELSE author' = [author EXCEPT !.pc = "open", !.todo = skills, !.groups = @ \ {group}]
  /\ UNCHANGED edited /\ QuietSupply

\* collectFilesRecursively, for the next skill of the directory.
OpenSkill ==
  /\ author.pc = "open" /\ author.todo # {}
  /\ \E s \in author.todo :
       IF Listing(s) = {} \/ Linked(Files, s) THEN Refuse
       ELSE author' = [author EXCEPT !.pc = "read", !.at = s, !.todo = @ \ {s},
                                     !.left = Listing(s), !.print = Nothing]
  /\ UNCHANGED edited /\ QuietSupply

\* readStableFile, in the order of the names.
ReadFile ==
  /\ author.pc = "read" /\ author.left # {}
  /\ LET f == Min(author.left)
         text == library[author.at][f]
     IN IF text \notin Texts THEN Refuse
        ELSE author' = [author EXCEPT !.left = @ \ {f}, !.print[f] = text]
  /\ UNCHANGED edited /\ QuietSupply

SkillRef(s, print) == [kind |-> "skill", name |-> NameOf[s], at |-> s, print |-> print]

CloseSkill ==
  /\ author.pc = "read" /\ author.left = {}
  /\ author' = [author EXCEPT !.pc = "open", !.at = Unknown, !.print = Nothing,
                  !.found = @ \cup {SkillRef(author.at, author.print)}]
  /\ UNCHANGED edited /\ QuietSupply

CloseGroup ==
  /\ author.pc = "open" /\ author.todo = {}
  /\ author' = [author EXCEPT !.pc = "list"]
  /\ UNCHANGED edited /\ QuietSupply

SameName(refs) == \E r, s \in refs : r # s /\ r.name = s.name

\* Two skills of one name would be delivered into one directory.  Otherwise
\* buildSupplyCandidate, and the candidate is printed.
PrintCandidate ==
  /\ author.pc = "list" /\ author.groups = {}
  /\ IF SameName(author.found) THEN Refuse
     ELSE author' = [author EXCEPT !.pc = "printed"]
  /\ UNCHANGED edited /\ QuietSupply

GiveUp ==
  /\ author.pc = "refused"
  /\ author' = Idle
  /\ UNCHANGED edited /\ QuietSupply

-----------------------------------------------------------------------------
(* configs establish.                                                      *)

\* parseCandidateRevision: a field that is absent is unknown; one that has
\* not its type fails the candidate as a whole.
Field(ref, field) == IF field \in DOMAIN ref THEN ref[field] ELSE Unknown
ParsedRef(ref) ==
  [kind |-> ref.kind, name |-> ref.name, at |-> Field(ref, "at"), print |-> Field(ref, "print")]
WellFormed(raw) ==
  \A ref \in raw :
    /\ {"kind", "name"} \subseteq DOMAIN ref
    /\ \A field \in DOMAIN ref : ref[field] # Wrong
Parsed(raw) == {ParsedRef(ref) : ref \in raw}

ASSUME CandidateAssumption ==
  \A raw \in HandWritten : WellFormed(raw) => Parsed(raw) \subseteq References

\* trigger, evidence: whether the flags are right.  They are checked first,
\* then the candidate; only then is the database opened.
Establish(raw, trigger, evidence) ==
  /\ revisions' = IF trigger /\ evidence /\ WellFormed(raw)
                  THEN revisions \cup {Parsed(raw)} ELSE revisions
  /\ author' = Idle
  /\ UNCHANGED <<library, edits, edited>>

EstablishSupplied ==
  /\ author.pc = "printed"
  /\ \E trigger, evidence \in BOOLEAN : Establish(author.found, trigger, evidence)

EstablishByHand ==
  /\ author.pc = "idle" /\ Cardinality(revisions) < MaxRevisions
  /\ \E raw \in HandWritten, trigger, evidence \in BOOLEAN : Establish(raw, trigger, evidence)

-----------------------------------------------------------------------------
\* The owner changes, adds or removes a file, or puts a link in its place.
Edit ==
  /\ edits < MaxEdits
  /\ \E thing \in Things, f \in Files, new \in Texts \cup {Missing, Link} :
       /\ thing \in Docs => f = Entry /\ new # Link
       /\ new # library[thing][f]
       /\ library' = [library EXCEPT ![thing][f] = new]
       /\ edited' = [since \in DOMAIN edited |-> edited[since] \cup {thing}]
  /\ edits' = edits + 1
  /\ UNCHANGED <<author, revisions>>

Supplying ==
  \/ BeginSupply \/ ListGroup \/ OpenSkill \/ ReadFile \/ CloseSkill
  \/ CloseGroup \/ PrintCandidate \/ GiveUp
  \/ EstablishSupplied \/ EstablishByHand

-----------------------------------------------------------------------------
Listed == Range(author.declared) \ {Outside}

\* The skills that a scan of these groups is about.
Supplied(groups) == {s \in Skills : GroupOf[s] \in groups /\ Has(s, Entry)}

CompleteIfPrinted ==
  LET found == {r.at : r \in author.found} IN
  author.pc = "printed" =>
    /\ found \subseteq {s \in Skills : GroupOf[s] \in Listed}
    /\ ~SameName(author.found)
    /\ \A s \in Supplied(Listed) \ edited["scan"] : SkillRef(s, library[s]) \in author.found
    /\ found \subseteq Supplied(Listed) \cup edited["scan"]

RefusedForCause ==
  author.pc = "refused" /\ edited["scan"] = {} =>
    \/ ~Lexical(author.declared)
    \/ \E s \in Supplied(Listed) : Linked(Files, s)
    \/ \E s, u \in Supplied(Listed) : s # u /\ NameOf[s] = NameOf[u]
    \/ \E g \in Listed : Supplied({g}) = {}

\* A candidate is complete or there is none: it has every skill of every
\* declared group with exactly its files, but for skills that were edited
\* while the library was scanned, and no two skills of one name.  A scan of a
\* library at rest that prints nothing has one of the reasons it may have.
CandidateIsComplete == CompleteIfPrinted /\ RefusedForCause

\* Why it holds.  What the scan has made of a thing is right as long as nobody
\* has edited the thing since.
Authors ==
  [pc : {"idle", "list", "open", "read", "printed", "refused"},
   declared : Declarations \cup {<<>>}, groups : SUBSET Nat, todo : SUBSET Skills,
   at : Skills \cup {Unknown}, left : SUBSET Files, print : Prints, found : SUBSET References]
SupplyTypeOK ==
  /\ library \in [Things -> Contents]
  /\ \A doc \in Docs : Plain(library[doc])
  /\ author \in Authors
  /\ revisions \subseteq SUBSET References
  /\ edits \in 0..MaxEdits
  /\ edited \in [{"scan", "launch"} -> SUBSET Things]

Begun  == {s \in Skills : GroupOf[s] \in Listed \ author.groups}
Still(thing) == thing \notin edited["scan"]

\* What has been read of the skill in work is what it has.
ReadSoFar ==
  /\ author.at \in Begun
  /\ Still(author.at) =>
       /\ Has(author.at, Entry) /\ ~Linked(Files, author.at)
       /\ author.left \subseteq Listing(author.at)
       /\ author.print = [f \in Files |-> IF f \in author.left THEN Missing
                                          ELSE library[author.at][f]]

\* Every skill of a group begun is to come, in work or found.
Scanning ==
  /\ author.groups \subseteq Listed
  /\ author.todo \subseteq Begun
  /\ \A s \in author.todo : Still(s) => Has(s, Entry)
  /\ \A r \in author.found :
       /\ r.at \in Begun /\ r = SkillRef(r.at, r.print)
       /\ Still(r.at) => Has(r.at, Entry) /\ r.print = library[r.at]
  /\ \A s \in Begun :
       Still(s) /\ Has(s, Entry) =>
         \/ s \in author.todo \/ s \in {r.at : r \in author.found}
         \/ author.pc = "read" /\ s = author.at

SupplyInductive ==
  /\ SupplyTypeOK
  /\ author.pc \in {"list", "open", "read", "printed"} => Scanning
  /\ author.pc \in {"list", "printed"} => author.todo = {}
  /\ author.pc = "printed" => author.groups = {} /\ ~SameName(author.found)
  /\ author.pc = "read" => ReadSoFar
  /\ RefusedForCause
=============================================================================
