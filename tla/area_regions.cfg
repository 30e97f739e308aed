SPECIFICATION Spec
CONSTANTS
  Pids = {t1}
  PAGE_SIZE = 2
  Sizes = {1, 2, 3}
  ForeignVmas <- NoForeign
  Faults = {}
  HeadFree = {FALSE}
  MaxAreas = 1
  MaxRegions = 5
  MaxFreeSpace = 6
INVARIANTS
  RegionsTile
  Coalesced
  FreeSpaceCovers
  NoEmptyArea
PROPERTIES
  LiveRegionsStable
