CONSTANTS
  Size = 2
  W = 4
  Arch = {"x86", "aarch64"}
SPECIFICATION FairSpec
INVARIANT EventReachesWaiter
PROPERTIES ImplementsExchange Served
CONSTRAINT Explored
CHECK_DEADLOCK FALSE
