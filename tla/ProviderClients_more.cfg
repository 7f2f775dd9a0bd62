\* The instance of ProviderClients_all.cfg with every property of its modules.
SPECIFICATION Spec
CONSTANTS
  a4 = a4
  b4 = b4
  a6 = a6
  parked = parked
  elsewhere = elsewhere
  Addrs4 <- Two4
  Addrs6 <- One6
  Parked <- parked
  Elsewhere <- elsewhere
  Entries <- AllEntries
  MaxDeeds = 2
  MaxRecords = 7
INVARIANTS
  TypeOK
  OkMeansServed
  NoPileUp
  UndisturbedSucceeds
  NoStaleLeft
PROPERTIES
  OthersUntouched
  KeepsContract
  Converges
