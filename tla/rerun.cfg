SPECIFICATION FairSpec
CONSTANTS
  p1 = p1
  p2 = p2
  N = 3
  Kind <- RepoProjectProvider
  Runners <- OneRunner
  Entry = {"init"}
  Reliable = TRUE
  Staged = {"planned"}
  Linked = {1}
  Foreign <- NoSteps
  MaxCrashes = 1
PROPERTIES
  InterruptedResumes
