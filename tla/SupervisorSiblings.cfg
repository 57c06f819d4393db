SPECIFICATION FairSpec
CONSTANTS
  a = a
  b = b
  c1 = c1
  c2 = c2
  Targets <- Two
  Calls = {c1}
  Fragile = {a}
  ChunkSize = 2
  MaxBoundary = 2
  MaxFaults = 1
  MaxFailures = 0
PROPERTIES SafeSiblingsGoOn
CHECK_DEADLOCK FALSE
