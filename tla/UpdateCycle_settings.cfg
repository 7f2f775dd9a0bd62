\* A user removes and restores the entries of one domain while cycles run, and
\* the program is killed, cannot write, has its clock set or its record edited.
SPECIFICATION Spec
CONSTANTS
  net1 = net1
  net2 = net2
  host = host
  site = site
  NoHost = NoHost
  NoAddr <- None
  Nets <- OneNet
  Hosts <- OneHost
  Keys <- OneKey
  Providers <- Pair
  Configs <- ResizeConfigs
  InitialConfig <- PairConfig
  InitialPublic <- DualStack
  Handlers = {h1}
  Faults = {"kill", "tear", "write", "clock", "edit"}
  Cooldown = 1
  BanPeriod = 2
  MaxTime = 1
  StableFrom = 9
  MaxCycle = 9
  MaxEvents = 2
INVARIANTS
  HistoryFaithful
