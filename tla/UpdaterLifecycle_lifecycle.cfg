\* Forced updates of two requests and the launch goroutine, a signal, a critical error. os.Exit ends the system.
SPECIFICATION FairSpec
CONSTANTS
  Launch = launch
  Requests = {r1, r2}
  Signals = TRUE
  Criticals = TRUE
  GraceExpires = TRUE
INVARIANTS
  DatabaseStopsLast
PROPERTIES
  OwnResult
  ForceAnswered
CHECK_DEADLOCK FALSE
