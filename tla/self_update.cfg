SPECIFICATION FairSpec
CONSTANTS
  u1 = u1
  u2 = u2
  Users = {u1, u2}
  MaxVersion = 2
  MaxPublished = 1
  MaxMishaps = 1
INVARIANTS
  BinarySurvives
  NeverDowngrades
  AnnouncedOnce
PROPERTIES
  ChecksGoOn
CHECK_DEADLOCK FALSE
