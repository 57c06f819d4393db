SPECIFICATION FairSpec
CONSTANTS
  a = a
  b = b
  c1 = c1
  c2 = c2
  Targets = {a}
  Calls <- TwoCalls
  Fragile = {a}
  ChunkSize = 1
  MaxBoundary = 2
  MaxFaults = 2
  MaxFailures = 1
INVARIANTS TypeOK FileStaysValid CursorIsTrue BegunIsPursued
PROPERTIES CursorAdvances DueIsDelivered ImplementsLedger
CHECK_DEADLOCK FALSE
