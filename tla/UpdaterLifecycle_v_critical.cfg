\* A service fails: main logs success without stopping anything.
SPECIFICATION Spec
CONSTANTS
  Launch = launch
  Requests = {}
  Signals = FALSE
  Criticals = TRUE
  GraceExpires = TRUE
INVARIANTS
  SuccessMeansStopped
CHECK_DEADLOCK FALSE
