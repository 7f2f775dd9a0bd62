\* Each service around the update cycle, one per behaviour.
SPECIFICATION ServicesSpec
CONSTANTS
  NotSet = NotSet
  HTTPLists <- URLLists
  DNSLists = {}
  FetcherLists = {}
  Setups <- ThreeSetups
  Resolvers = 2
  CounterSize = 4
  MaxFaults = 4
  Faults = {"zip", "early"}
  ReaderStays = TRUE
  MaxWrites = 4
\* The reading of the settings ends, and so do GetMultiple and a stopped service.
CHECK_DEADLOCK FALSE
INVARIANTS
  RefusedLate
  BackupInTime
PROPERTIES
  FailureNeedsAllMethods
  RoundRobin
  FoundInTheEnd
  AllEnd
  BackupsStop
  NothingAfterStop
