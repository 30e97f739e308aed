SPECIFICATION FreeSpec
CONSTANTS
  t1 = t1  t2 = t2  a1 = a1  a2 = a2  p1 = p1  p2 = p2  p3 = p3
  Threads = {t1, t2}
  Areas = {a1, a2}
  Pages = {p1, p2, p3}
  AreaOf <- MCAreaOf
  PidOf <- TwoThreads_PidOf
  Values = {0, 1}
  Zero = 0
  Frames = {1, 2, 3, 4, 5, 6, 7}
  NONE = NONE
  GONE = GONE
  Faults = {}
  Shared = TRUE
CHECK_DEADLOCK FALSE
PROPERTY MemorySpec
