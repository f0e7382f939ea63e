CONSTANTS
  SlabUsers = {u1, u2}
  NCLASS = 2
  TOTAL <- TwoAndOne
  PERPAGE = 1
  INITMETA = 4
  MaxMeta = 6
  MaxSlabs = 5
  NoUser = NoUser
SPECIFICATION SlabSpec
CHECK_DEADLOCK FALSE
INVARIANTS
  PoolNeverEmpty
