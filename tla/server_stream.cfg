SPECIFICATION StorageSpec
CONSTANTS
  Pids = {p, q}
  Addresses = {1}
  Values = {1, 2}
  Zero = 0
  PageUnits = 2
  MaxConns = 2
  MaxUp = 3
  MaxDown = 2
  Overlap = FALSE
  Unlocked = FALSE
  UINT = 4
CHECK_DEADLOCK FALSE
INVARIANTS TypeOK Aligned CaughtUp KernelHolds
PROPERTIES LoadFresh LoadReturns
