CONSTANTS
  Tasks = {t1, t2, t3}
  None = None
  NHARTS = 2
  DUsers = {u1}
  DQSize = 3
  DevSize = 4
  UsedSlot <- MCUsedSlot
  DWord = 4
  IdxMod = 4
  Sectors = {1}
  DVals = {0, 1}
  MaxReqs = 4
  Lazy = TRUE
  KUsers = {u1}
  KBufs = 2
  KIdxMod = 4
  KRing = 5
  MaxKeys = 3
  PollAlone = TRUE
SPECIFICATION WaitsSpec
CHECK_DEADLOCK FALSE
INVARIANTS
  SleepersSafe
PROPERTIES
  ImplementsMutex
  SleepersWoken
  DReturns
  ReaderReturns
