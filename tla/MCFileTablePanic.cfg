CONSTANTS
  Tasks = {t1, t2, t3}
  None = None
  NHARTS = 2
  First = t1
  MaxFd = 2
SPECIFICATION FSpec
INVARIANT NoPanic
CHECK_DEADLOCK FALSE
