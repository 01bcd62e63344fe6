SPECIFICATION Spec
CONSTANTS
  N = 3
  NoThread = NoThread
  Ext = {}
  Dev = {}
  Requestor = {VMM}
  Started = {0, 1, 2}
  VcpuOps = {"roundup"}
  DevOps = {}
INVARIANTS AssertsHold RoundupStopsGuest CountersExact
PROPERTIES NoStartOnceRecalled ImplementsStopTheWorld
