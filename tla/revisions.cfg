SPECIFICATION Spec
CONSTANTS
  p1 = p1
  p2 = p2
  n1 = n1
  n2 = n2
  r1 = r1
  r2 = r2
  r3 = r3
  Procs <- TwoProcs
  Names <- TwoNames
  Ids <- ThreeIds
  Columns <- TwoColumns
  NoId = NoId
  NoProc = NoProc
  MaxCrashes = 1
  MayBeLate = TRUE
  Unknown = Unknown
  Categories <- TwoCategories
INVARIANTS
  RaceIsNoError
  ChainIsWhole
  ComparisonIsHonest
PROPERTIES
  ImplementsHistory
SYMMETRY Symmetric
CHECK_DEADLOCK FALSE
