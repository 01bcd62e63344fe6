CONSTANTS
  N = 3
  Started = {0, 1}
  Registers = {{r1}}
  Ranges = {{1}, {0, 2}}
  MaxCalls = 3
SPECIFICATION Spec
INVARIANTS NothingMissed StartsFromReset
CHECK_DEADLOCK FALSE
