SPECIFICATION Spec
CONSTANTS
  Pids = {t1, t2}
  PAGE_SIZE = 2
  Sizes = {1, 3}
  ForeignVmas <- OneForeign
  Faults = {"area", "region"}
  HeadFree = {FALSE}
  MaxAreas = 2
  MaxRegions = 3
  MaxFreeSpace = 3
CHECK_DEADLOCK FALSE
INVARIANTS
  TypeOK
  AreaMatchesVma
  VmasDisjoint
  FreeFindsRegion
SYMMETRY Symmetry
