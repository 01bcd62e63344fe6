SPECIFICATION Spec
CONSTANTS
  uart = uart
  gic = gic
  ram = ram
  view = view
  vcpu1 = vcpu1
  vcpu2 = vcpu2
  client = client
  Thread = {vcpu1, vcpu2, client}
  Client = {client}
  Reader = {vcpu2}
  None = None
  NoEntry = NoEntry
  EntryId = {e1, e2, e3}
  Device = {uart, gic, ram, view}
  IrqController = {gic}
  HostMapped = {view}
  ReadOnly = {}
  Place <- MCPlace
  Target <- MCTarget
  Removal <- MCRemoval
  Region <- MCRegion
SYMMETRY Addresses
INVARIANTS Exclusion CacheIsRegistered ResetReachesAll MappingsReturned
