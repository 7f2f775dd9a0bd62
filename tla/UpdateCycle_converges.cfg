\* The environment becomes quiet: every record converges.
SPECIFICATION FairSpec
CONSTANTS
  net1 = net1
  net2 = net2
  host = host
  site = site
  NoHost = NoHost
  NoAddr <- None
  Nets <- TwoNets
  Hosts <- OneHost
  Keys <- OneKey
  Providers <- Single
  Configs <- SingleConfigs
  InitialConfig <- SingleConfig
  InitialPublic <- OnlyIPv4
  Handlers = {}
  Faults = {"fetch", "resolve", "provider", "banned", "edit", "kill"}
  Cooldown = 1
  BanPeriod = 2
  MaxTime = 4
  StableFrom = 1
  MaxCycle = 1
  MaxEvents = 9
PROPERTIES
  Converges
