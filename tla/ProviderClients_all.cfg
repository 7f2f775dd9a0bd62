\* Every client, with the zones and the faults it may meet.
SPECIFICATION Spec
CONSTANTS
  a4 = a4
  b4 = b4
  a6 = a6
  parked = parked
  elsewhere = elsewhere
  Addrs4 <- Two4
  Addrs6 <- One6
  Parked <- parked
  Elsewhere <- elsewhere
  Entries <- AllEntries
  MaxDeeds = 2
  MaxRecords = 7
INVARIANTS
  OkMeansServed
  NoPileUp
  UndisturbedSucceeds
PROPERTIES
  OthersUntouched
  KeepsContract
  Converges
