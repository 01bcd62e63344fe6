SPECIFICATION ParallelSpec
CONSTANTS
  N = 3
  NoThread = NoThread
  Ext = {}
  Dev = {}
  Requestor = {VMM}
  Started = {0, 1, 2}
  VcpuOps = {"parallel", "roundup"}
  DevOps = {}
INVARIANTS ParallelStopsGuest CountIsStable NoTokenLeft
