\* Two lookups with five attempts each, of which any may fail.
SPECIFICATION Spec
CONSTANTS
  Tries = 5
  Wanted = "ip4"
  Failing = TRUE
\* A lookup ends.
CHECK_DEADLOCK FALSE
INVARIANT NoneLeftBehind
PROPERTIES AlwaysDecides ImplementsContract
