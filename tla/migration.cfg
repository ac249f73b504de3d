SPECIFICATION FairSpec
CONSTANTS
  r1 = r1
  r2 = r2
  Runs = {r1, r2}
  Files = {"configs", "plugins"}
  Shared = {"plugins"}
  MaxVersion = 2
  MaxEdits = 1
  MaxDeaths = 1
  MaxFaults = 1
INVARIANTS
  OutcomesAreTrue
  WholeAtOnce
PROPERTIES
  ImplementsOnce
  Settles
CHECK_DEADLOCK FALSE
