\* Saving the configuration during a cycle loses the update in memory.
SPECIFICATION Spec
CONSTANTS
  net1 = net1
  net2 = net2
  host = host
  site = site
  NoHost = NoHost
  NoAddr <- None
  Nets <- TwoNets
  Hosts <- OneHost
  Keys <- OneKey
  Providers <- Single
  Configs <- SingleConfigs
  InitialConfig <- SingleConfig
  InitialPublic <- OnlyIPv4
  Handlers = {h1}
  Faults = {}
  Cooldown = 1
  BanPeriod = 2
  MaxTime = 1
  StableFrom = 9
  MaxCycle = 9
  MaxEvents = 3
INVARIANTS
  MemoryMatchesDisk
