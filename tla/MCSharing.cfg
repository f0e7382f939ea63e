CONSTANTS
  u1 = u1
  u2 = u2
  Tasks = {k1, u1, u2}
  None = None
  NHARTS = 2
  First = k1
  MaxFd = 2
  n1 = n1
  n2 = n2
  Callers = {u1, u2}
  Names <- MCNames
  Paths <- MCPaths
  MaxObj = 5
  MaxIno = 4
  MaxCalls = 3
  Images <- MCImages
  Targets <- MCTargets
  Quiet <- MCQuiet
  Nobody = Nobody
  HUsers = {u1, u2}
  HKeys = {1, 3, 4, 7}
  HVals = {1}
  MinSize = 2
  LoadFactor = 75
  MaxSize = 8
  Serial = FALSE
  SlabUsers = {u1, u2}
  NCLASS = 2
  TOTAL <- TwoAndOne
  PERPAGE = 1
  INITMETA = 4
  MaxMeta = 6
  MaxSlabs = 4
  NoUser = NoUser
  DUsers = {u1, u2}
  DQSize = 5
  DevSize = 6
  UsedSlot <- MCUsedSlot
  DWord = 4
  IdxMod = 6
  Sectors = {1}
  DVals = {0, 1}
  MaxReqs = 6
  Lazy = TRUE
  VUsers = {u1, u2}
  VQSize = 4
  VIdxMod = 4
  MaxSends = 4
  KUsers = {u1, u2}
  KBufs = 2
  KIdxMod = 4
  KRing = 5
  MaxKeys = 4
  PollAlone = TRUE
  TReaders = {u1, u2}
  LineMax = 4
  Counts = {1, 2, 4}
  MaxTyped = 6
  ReadAlone = TRUE
  Cols = 2
  Lines = 2
  Writers = {u1, u2}
  Glyphs = {"A"}
  Colours = {0}
  MaxOps = 4
SPECIFICATION SharingSpec
SYMMETRY TaskSymmetry
CHECK_DEADLOCK FALSE
INVARIANTS
  FileSound
  LockSafe
  InodesSound
  NamesSound
  TableSound
  SlabsSound
  DescsOwned
  RequestsServed
  CommandsServed
  KeysDelivered
  LinesDelivered
  OneCursor
