\* A clock correction makes the program refuse its own file.
SPECIFICATION Spec
CONSTANTS
  net1 = net1
  net2 = net2
  host = host
  site = site
  NoHost = NoHost
  NoAddr <- None
  Nets <- TwoNets
  Hosts <- OneHost
  Keys <- OneKey
  Providers <- Single
  Configs <- SingleConfigs
  InitialConfig <- SingleConfig
  InitialPublic <- OnlyIPv4
  Handlers = {}
  Faults = {"clock", "cancel"}
  Cooldown = 1
  BanPeriod = 2
  MaxTime = 3
  StableFrom = 9
  MaxCycle = 9
  MaxEvents = 3
INVARIANTS
  StartupAccepted
