CONSTANTS
  Dev = {1}
  Event = {1}
  Pintid = {8192}
  Icid = {1, 2}
  Vcpu = {0, 1}
  Itt <- IttMC
  UnbackedItt <- UnbackedMC
  Gaps = {2}
  Size = 3
  InitTarget <- TargetMC
  MaxCommands = 3
  MaxMsi = 1
  NumVcpus = 2
  Configured = 1020
  Watched <- WatchedMC
  Values <- ValuesMC
  Near <- NearMC
  Cpu = {0, 1}
  Memory = {ram, rom}
  FlushOnReset = {ram}
SPECIFICATION RegistersSpec
INVARIANT NoIdTwice
PROPERTIES CommandsInOrder MsiTranslated FramesExact TogglesFlush
CHECK_DEADLOCK FALSE
