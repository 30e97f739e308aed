SPECIFICATION LifoSpec
CONSTANTS
  Pids = {t1, t2}
  PAGE_SIZE = 2
  Sizes = {1, 2, 3}
  ForeignVmas <- OneForeign
  Faults = {}
  HeadFree = {FALSE}
  MaxAreas = 2
  MaxRegions = 3
  MaxFreeSpace = 8
INVARIANTS
  InBounds
  FreeSpaceExact
PROPERTIES
  HeapSpec
