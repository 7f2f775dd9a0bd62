\* A proxied IPv4 entry and an IPv6 entry of one domain share a history; the program is stopped and restarted.
SPECIFICATION Spec
CONSTANTS
  net1 = net1
  net2 = net2
  host = host
  site = site
  NoHost = NoHost
  NoAddr <- None
  Nets <- OneNet
  Hosts <- OneHost
  Keys <- OneKey
  Providers <- Pair
  Configs <- PairConfigs
  InitialConfig <- PairConfig
  InitialPublic <- DualStack
  Handlers = {}
  Faults = {"cancel"}
  Cooldown = 2
  BanPeriod = 2
  MaxTime = 3
  StableFrom = 9
  MaxCycle = 9
  MaxEvents = 9
INVARIANTS
  MemoryMatchesDisk
  StartupAccepted
PROPERTIES
  CooldownRespected
  DurableHistory
