CONSTANTS
  u1 = u1
  u2 = u2
  u3 = u3
  p1 = p1
  p2 = p2
  p3 = p3
  Users = {u1, u2, u3}
  Pages = {p1, p2, p3}
  NULL = NULL
  InitList <- ThreePages
  Procs = {u1, u2}
  NPages = 14
  MaxSeg = 2
  LowTop = 3
  StackPages = 1
  Span = 1
  Deltas <- MCDeltas
  Stored = {1}
  MaxASteps = 5
  Hdr = 2
  Align = 2
  Requests = {1, 5}
  Tags = {1}
  MaxHeap = 22
  MaxLive = 4
  NameLen <- MCLen
  Tree <- MCTree
  PathBuf = 8
  CwdBuf = 7
  MaxSegs = 3
  CUsers = {u1, u2}
  Blks = {1, 2}
  Data = {0, 1}
  Blank = 0
  MaxFaults = 2
  NDirect = 1
  Ptrs = 2
  NBlocks = 6
  NInodes = 4
  ENames = {"a", "b"}
  NameSpace <- MCSpace
  BlockSpace = 10
  Values = {1, 2}
  MaxLblk = 3
  MaxEOps = 5
  NClus = 5
  Spc = 2
  NSlots = 2
  FNames = {"a", "b"}
  FValues = {2}
  MaxSec = 4
  TruncSizes = {0, 1, 3}
  MaxFOps = 5
  ClockDays <- MCDays
  ClockSecs = {0, 59, 3661, 86399}
SPECIFICATION LayoutsSpec
SYMMETRY TaskSymmetry
CHECK_DEADLOCK FALSE
INVARIANTS
  ListExact
  NoForeignData
  PagesSound
  HeapSound
  PathsResolve
  CacheSound
  BlocksOwned
  DataIntact
  DirsSound
  ClustersSound
  FFilesSound
  StampRoundTrip
PROPERTIES
  MemoryPrivate
