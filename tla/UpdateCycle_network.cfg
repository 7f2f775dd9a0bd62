\* One entry of either family with an IPv6 suffix; every fault of the network.
SPECIFICATION Spec
CONSTANTS
  net1 = net1
  net2 = net2
  host = host
  site = site
  NoHost = NoHost
  NoAddr <- None
  Nets <- OneNet
  Hosts <- TwoHosts
  Keys <- OneKey
  Providers <- Suffixed
  Configs <- SuffixConfigs
  InitialConfig <- SuffixConfig
  InitialPublic <- DualStack
  Handlers = {}
  Faults = {"fetch", "resolve", "provider", "banned"}
  Cooldown = 2
  BanPeriod = 2
  MaxTime = 2
  StableFrom = 9
  MaxCycle = 9
  MaxEvents = 2
INVARIANTS
  TypeOK
  HistoryFaithful
PROPERTIES
  BanRespected
  UpToDateHonest
  FailureReported
