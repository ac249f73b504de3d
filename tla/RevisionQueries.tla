--------------------------- MODULE RevisionQueries ---------------------------
(***************************************************************************)
(* What `configs list`, `show` and `compare` make of the revision store:   *)
(* the two ways to read a row (adapters/sqlite/repository.ts), the history *)
(* of a revision and the comparison of several (application/queries.ts,    *)
(* domain/config.ts).  They write nothing, and stored rows never change,   *)
(* so each command is a function of the rows.                              *)
(*                                                                         *)
(* A row has five lists of capability references; here it has one, with at *)
(* most one reference, of a name that all rows share.                      *)
(***************************************************************************)
EXTENDS ConfigRevisions, Functions

CONSTANTS
  Categories,   \* known source categories of a reference
  Unknown       \* one that is not known

\* The content of a row, as it may be found: of another schema version, no
\* list of references, without the reference, or with it: its category stored,
\* stored as unknown, or not stored at all, as by older versions.
Unreadable == {"unsupported", "malformed"}
Contents   == Unreadable \cup {"absent", "uncaptured", Unknown} \cup Categories

\* The name of a row is always known.
ASSUME QueryAssumption ==
  /\ Unknown \notin Categories \cup Names
  /\ ({Unknown} \cup Categories) \cap (Unreadable \cup {"absent", "uncaptured"}) = {}

StoredIds == {rows[i].id : i \in DOMAIN rows}
RowOf(id) == rows[CHOOSE i \in DOMAIN rows : rows[i].id = id]

\* normalizeCapabilityEntry, which reads what an old version left out.
Normalized(content) == IF content = "uncaptured" THEN Unknown ELSE content

\* findById: a row that cannot be read in full is an error.
FindById(id, content) ==
  IF id \notin StoredIds THEN "notFound"
  ELSE IF content[id] \in Unreadable THEN "unsupported" ELSE "found"

\* listAll: such a row keeps its place and loses its references.
ListAll(content) ==
  {[id |-> id, name |-> RowOf(id).name, sup |-> RowOf(id).sup,
    reference |-> IF content[id] \in Unreadable THEN "absent" ELSE Normalized(content[id])] :
   id \in StoredIds}

-----------------------------------------------------------------------------
(* buildSupersedesChain.                                                   *)

SupOf(id) == RowOf(id).sup

\* One step backwards, by the rows' own pointers, oldest first; a pointer to a
\* revision seen before ends the walk, and so does one that leads nowhere.
Precede(path) ==
  LET next == SupOf(path[1]) IN
  IF next \in StoredIds \ Range(path) THEN <<next>> \o path ELSE path
WalkBack(id) ==
  LET walk[k \in 0..Len(rows)] == IF k = 0 THEN <<id>> ELSE Precede(walk[k - 1])
  IN walk[Len(rows)]
Predecessors(id) == SubSeq(WalkBack(id), 1, Len(WalkBack(id)) - 1)

DanglingPredecessor(id) ==
  LET first == (Predecessors(id) \o <<id>>)[1] IN
  IF SupOf(first) \in StoredIds THEN NoId ELSE SupOf(first)

\* One step forwards, by the reverse index.  It has one entry for each revision
\* that is superseded: of several, the last one read.
SuccessorOf(id) ==
  IF \E other \in StoredIds : SupOf(other) = id
    THEN CHOOSE other \in StoredIds : SupOf(other) = id ELSE NoId
Follow(path) ==
  LET next == SuccessorOf(path[Len(path)]) IN
  IF next \in StoredIds \ Range(path) THEN Append(path, next) ELSE path
WalkOn(id) ==
  LET walk[k \in 0..Len(rows)] == IF k = 0 THEN <<id>> ELSE Follow(walk[k - 1])
  IN walk[Len(rows)]
Successors(id) == Tail(WalkOn(id))

\* getSupersedesChain, for a revision that is found.
Chain(id) == Predecessors(id) \o <<id>> \o Successors(id)

-----------------------------------------------------------------------------
(* compareConfigRevisions.                                                 *)

\* What can be resolved is compared; the rest is reported.
Resolved(ids, content) == {id \in ids : FindById(id, content) = "found"}
Failed(ids, content)   == [id \in ids \ Resolved(ids, content) |-> FindById(id, content)]

\* Mistaken: what is unknown is left out of the comparison.
AgreementOfKnown(values) ==
  IF \A u, v \in values \ {Unknown} : u = v THEN "same" ELSE "different"

\* scalarStatus, and the status of a reference's category: one unknown value
\* makes the whole unknown.
Agreement(values) ==
  IF Unknown \in values THEN "unknown"
  ELSE IF \A u, v \in values : u = v THEN "same" ELSE "different"

PresentIn(ids, content) == {id \in ids : content[id] # "absent"}
CompareReference(ids, content) ==
  [present |-> PresentIn(ids, content), missing |-> ids \ PresentIn(ids, content),
   status  |-> Agreement({Normalized(content[id]) : id \in PresentIn(ids, content)})]

CompareRevisions(ids, content) ==
  [name      |-> Agreement({RowOf(id).name : id \in ids}),
   revision  |-> Agreement(ids),
   reference |-> CompareReference(ids, content)]

-----------------------------------------------------------------------------
\* Show tells the whole history of a revision, from whichever of its members
\* one asks: it starts with a revision that supersedes nothing, each supersedes
\* the one before, whoever supersedes one of them is in it, all are of one
\* configuration, and no pointer leads out of the store.
ChainIsWhole ==
  ~late =>
    \A id \in StoredIds :
      LET chain == Chain(id) IN
      /\ DanglingPredecessor(id) = NoId /\ SupOf(chain[1]) = NoId
      /\ IsInjective(chain)
      /\ \A k \in 1..(Len(chain) - 1) : SupOf(chain[k + 1]) = chain[k]
      /\ \A other \in StoredIds : SupOf(other) \in Range(chain) => other \in Range(chain)
      /\ \A other \in Range(chain) : RowOf(other).name = RowOf(id).name

\* Nobody is at work and nothing has gone wrong: the stores to ask about.
AtRest == ~late /\ crashes = 0 /\ \A p \in Procs : run[p].pc = "idle"

\* All are listed, each that is asked for is compared or reported, and what is
\* compared is said to be the same, or different, by known values only.
HonestAbout(ids, content) ==
  LET good   == Resolved(ids, content)
      failed == Failed(ids, content)
      result == CompareRevisions(good, content)
      ref    == result.reference
  IN
  /\ {row.id : row \in ListAll(content)} = StoredIds
  /\ good \cup DOMAIN failed = ids
  /\ \A id \in DOMAIN failed : failed[id] = "notFound" <=> id \notin StoredIds
  /\ ref.present \cup ref.missing = good
  /\ \A row \in ListAll(content) :
       row.id \in good => (row.reference = "absent" <=> row.id \in ref.missing)
  /\ ref.status = "same" =>
       \A id, other \in ref.present : content[id] = content[other] /\ content[id] \in Categories
  /\ ref.status = "different" =>
       /\ \A id \in ref.present : content[id] \in Categories
       /\ \E id, other \in ref.present : content[id] # content[other]
  /\ result.name = "same" <=> \A id, other \in good : RowOf(id).name = RowOf(other).name

\* A revision whose content is damaged, unsupported or only partly captured
\* hides no other one and stands in nobody's way, and is never said to be the
\* same as another, or different, unless known values say so.
ComparisonIsHonest ==
  AtRest =>
    \A ids \in {set \in SUBSET Ids : Cardinality(set) >= 2} :
      \A content \in [Ids -> Contents] : HonestAbout(ids, content)
=============================================================================
