\* The instance of MCServices_services.cfg with every property of its modules.
SPECIFICATION ServicesSpec
CONSTANTS
  NotSet = NotSet
  HTTPLists <- URLLists
  DNSLists = {}
  FetcherLists = {}
  Setups <- ThreeSetups
  Resolvers = 2
  CounterSize = 4
  MaxFaults = 4
  Faults = {"zip", "early"}
  ReaderStays = TRUE
  MaxWrites = 4
\* The reading of the settings ends, and so do GetMultiple and a stopped service.
CHECK_DEADLOCK FALSE
INVARIANTS
  ServicesTypeOK
  FamilyFits
  CycledAlone
  RefusedLate
  NothingDropped
  OnlyChosenURLs
  ResultOrError
  CauseReported
  BackupInTime
PROPERTIES
  RoundRobin
  FailureNeedsAllMethods
  NothingAfterStop
  FoundInTheEnd
  AllEnd
  BackupsStop
  BackupsRetried
