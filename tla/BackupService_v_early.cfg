SPECIFICATION BackupSpec
CONSTANTS
  Faults = {"early"}
  ReaderStays = TRUE
  MaxWrites = 1
CHECK_DEADLOCK FALSE
PROPERTY SignalStops
