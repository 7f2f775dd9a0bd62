\* The instance of RecordLookup_lookup.cfg with every property of its modules.
SPECIFICATION Spec
CONSTANTS
  Tries = 5
  Wanted = "ip4"
  Failing = TRUE
\* A lookup ends.
CHECK_DEADLOCK FALSE
INVARIANTS TypeOK NoneLeftBehind AbsenceConfirmed DecisionGrounded
PROPERTIES AlwaysDecides ImplementsContract
