SPECIFICATION Spec
CONSTANTS
  p1 = p1
  p2 = p2
  N = 2
  Kind <- RepoProject
  Runners <- TwoRunners
  Entry = {"init", "apply", "resolve"}
  Reliable = FALSE
  Staged = {"planned", "other"}
  Linked = {1}
  Foreign <- NoSteps
  MaxCrashes = 1
SYMMETRY Symmetric
INVARIANTS
  PlanOrder
  SucceededIsBacked
