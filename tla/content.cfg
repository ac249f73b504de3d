SPECIFICATION FairContentSpec
CONSTANTS
  a = a
  b = b
  c = c
  prompt = prompt
  server = server
  t1 = t1
  t2 = t2
  Unknown = Unknown
  Outside = Outside
  Wrong = Wrong
  Skills <- ThreeSkills
  Docs <- TwoDocs
  GroupOf <- GroupsOf
  NameOf <- NamesOf
  Texts <- TwoTexts
  MaxFile = 2
  Declarations <- Spoken
  HandWritten <- Candidates
  InitialLibraries <- Libraries
  Segment <- Segments
  NotJson <- BadJson
  Versions <- SomeVersions
  MaxEdits = 1
  MaxRevisions = 1
  MaxUpgrades = 1
  MaxFaults = 1
INVARIANTS
  CandidateIsComplete
  DeliveredIsRecorded
  ClaimsAreTrue
  BlamedForCause
PROPERTIES
  Settles
CHECK_DEADLOCK FALSE
