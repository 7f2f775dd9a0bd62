\* A signal during a forced update: Stop hangs. The grace period is left out to show it.
SPECIFICATION FairSpec
CONSTANTS
  Launch = launch
  Requests = {}
  Signals = TRUE
  Criticals = FALSE
  GraceExpires = FALSE
PROPERTIES
  SignalStopsDatabase
CHECK_DEADLOCK FALSE
