SPECIFICATION FairSpec
CONSTANTS
  p1 = p1
  p2 = p2
  Processes = {p1, p2}
  Names = {"plugins", "configs"}
  Bundles = {"v1", "v2"}
  OwnedFiles <- Files
  Shared = {"plugins"}
  MaxApplies = 2
  MaxEdits = 1
  MaxMishaps = 1
INVARIANTS
  KeepsTheUsers
  ReportsAreTrue
PROPERTIES
  CleansUp
CHECK_DEADLOCK FALSE
