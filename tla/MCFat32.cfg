CONSTANTS
  NClus = 5
  Spc = 2
  NSlots = 2
  FNames = {"a", "b"}
  FValues = {2}
  MaxSec = 4
  TruncSizes = {0, 1, 3}
  MaxFOps = 5
SPECIFICATION Fat32Spec
CHECK_DEADLOCK FALSE
INVARIANTS
  WrittenStays
