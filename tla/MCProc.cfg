CONSTANTS
  NTASKS = 3
  Harts = {h1, h2}
  NoHart = NoHart
  MaxPid = 3
  MemFails = TRUE
  WaitArgs <- AnyOrTwo
SPECIFICATION Spec
SYMMETRY HartSymmetry
INVARIANTS
  HartSafe
  SlotSafe
  FamilySafe
  NoLostWakeup
  NoSpinCycle
PROPERTIES
  LifeCycle
