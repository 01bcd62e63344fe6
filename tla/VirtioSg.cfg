SPECIFICATION SgSpec
CONSTANTS
  Buf = {b1, b2, b3}
  MaxLen = 2
  QueueSize = 2
  MaxBytes = 3
  SizeModulus = 8
  GuestLength = {0, 1, 2, 3}
  LinkLength = {1, 3}
  MaxLoad = 5
SYMMETRY Symmetry
INVARIANTS CopyExact WrittenIsLowerBound CopiesPaired
