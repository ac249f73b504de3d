SPECIFICATION Spec
CONSTANTS
  p1 = p1
  p2 = p2
  f1 = f1
  f2 = f2
  f3 = f3
  f4 = f4
  v1 = v1
  v2 = v2
  garbage = garbage
  Processes <- TwoProcesses
  Inodes <- FourInodes
  Contents <- AllContents
  Profiles <- TwoProfiles
  Garbage = garbage
  NoInode = NoInode
  Torn = Torn
  RequireAbsent = TRUE
  Faulty <- OneFaulty
  MaxCrashes = 1
SYMMETRY Symmetric
INVARIANTS
  Truthful
PROPERTIES
  ImplementsWriteOnce
