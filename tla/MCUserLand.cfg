CONSTANTS
  NTASKS = 4
  Harts = {h1}
  NoHart = NoHart
  MaxPid = 4
  MemFails = TRUE
  WaitArgs <- OnlyAny
SPECIFICATION BootedSpec
PROPERTIES
  ShellReaped
  RunnableRuns
