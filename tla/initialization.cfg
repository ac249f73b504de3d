SPECIFICATION FairSpec
CONSTANTS
  g1 = g1
  Public = TRUE
  Providers <- TwoProviders
  Plugins = {g1}
  MaxFaults = 2
  MaxCrashes = 1
  MaxMeddles = 1
  MaxUninits = 1
INVARIANTS
  NothingLost
  SuccessIsTrue
PROPERTIES
  ImplementsLedger
  Resumes
CHECK_DEADLOCK FALSE
