SPECIFICATION FairSpec
CONSTANTS
  N = 1
  NoThread = NoThread
  Ext = {e1}
  Dev = {d1}
  Requestor = {VMM, VMI}
  Started = {}
  VcpuOps = {"wfi", "wfi_timeout"}
  DevOps = {"on", "off", "irq"}
INVARIANT NoLostWakeup
PROPERTIES RoundupReturns
