SPECIFICATION Spec
CONSTANTS
  p1 = p1
  p2 = p2
  f1 = f1
  f2 = f2
  f3 = f3
  f4 = f4
  v1 = v1
  v2 = v2
  Processes <- TwoProcesses
  Inodes <- FourInodes
  Contents <- TwoContents
  NoInode = NoInode
  Torn = Torn
  RequireAbsent = FALSE
  Faulty <- OneFaulty
  MaxCrashes = 1
SYMMETRY Symmetric
PROPERTIES
  OnlyWholeReplacements
