SPECIFICATION NetSpec
CONSTANTS
  Pids = {t1}
  PAGE_SIZE = 2
  Sizes = {1, 2, 3}
  ForeignVmas <- NoForeign
  Faults = {}
  HeadFree = {FALSE}
  MaxAreas = 1
  MaxRegions = 4
  MaxFreeSpace = 3
INVARIANT StoredCovered
