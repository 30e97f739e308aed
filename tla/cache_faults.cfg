SPECIFICATION Spec
CONSTANTS
  t1 = t1  t2 = t2  a1 = a1  a2 = a2  p1 = p1  p2 = p2  p3 = p3
  Threads = {t1}
  Areas = {a1, a2}
  Pages = {p1, p2, p3}
  AreaOf <- MCAreaOf
  PidOf <- OneThread_PidOf
  Values = {0, 1}
  Zero = 0
  Frames = {1, 2, 3, 4, 5}
  NONE = NONE
  GONE = GONE
  Faults = {"save", "load", "stored", "buffer"}
  Shared = FALSE
CHECK_DEADLOCK FALSE
INVARIANTS NoAlias MappedKnown
 
