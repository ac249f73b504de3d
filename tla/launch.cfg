SPECIFICATION Spec
CONSTANTS
  p1 = p1
  p2 = p2
  whole = whole
  part = part
  NoRevision = NoRevision
  Procs <- TwoProcs
  Revisions <- BothKinds
  Partial <- PartialOnes
  MaxPlans = 2
  MaxAccidents = 2
INVARIANTS
  Truthful
  DirWhileRunning
  NothingLeftBehind
  StatusIsTrue
PROPERTIES
  LegalSteps
SYMMETRY Symmetric
CHECK_DEADLOCK FALSE
