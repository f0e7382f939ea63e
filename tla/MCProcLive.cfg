CONSTANTS
  NTASKS = 2
  Harts = {h1, h2}
  NoHart = NoHart
  MaxPid = 3
  MemFails = TRUE
  WaitArgs <- AnyOrTwo
SPECIFICATION FairSpec
PROPERTY WaiterReturns
