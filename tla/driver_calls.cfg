SPECIFICATION Spec
CONSTANTS
  t1 = t1  t2 = t2  t3 = t3  p1 = p1  p2 = p2
  Threads = {t1, t2, t3}
  Procs = {p1, p2}
  ProcOf <- MCProcOf
  SEM = SEM
  Original <- MCOriginal
  NULL = NULL
  MaxSignals = 2
INVARIANTS TypeOK ExclusiveQuiet WriterAlone NoDeadlock TableRestored
PROPERTY CallsEnd
