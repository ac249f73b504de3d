SPECIFICATION Spec
CONSTANTS
  p1 = p1
  p2 = p2
  N = 3
  Kind <- RepoProjectProvider
  Runners <- OneRunner
  Entry = {"init", "apply", "resolve"}
  Reliable = FALSE
  Staged = {"planned", "other"}
  Linked = {1}
  Foreign <- AllSteps
  MaxCrashes = 3
INVARIANTS
  NoFalseSuccess
  NoDuplicate
PROPERTIES
  ImplementsSaga
