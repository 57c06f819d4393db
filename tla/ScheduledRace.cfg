\* Two wakes race on one key: leases, timeouts, late settlements, crashes.
SPECIFICATION Spec
CONSTANTS
  k1 = k1
  k2 = k2
  k3 = k3
  w1 = w1
  w2 = w2
  Keys = {k1}
  Wakes = {w1, w2}
  SystemKeys = {k1}
  SchedAt <- Together
  ChunkOf <- OneChunk
  NumChunks = 1
  HandlerSlots = 1
  TimeoutMs = 1
  LeaseMs = 2
  RetentionMs = 5
  PruneLimit = 1
  Redelivery = 2
  Lifetime = 3
  MaxFailures = 1
  MaxTime = 5
INVARIANTS TypeOK OneHandlerPerKey AtMostOneSuccess SettlementFindsItsClaim RowTellsTheTruth CompleteReportIsTrue
PROPERTIES RetryOnlyAfterFailure ImplementsLedger
SYMMETRY WakeSymmetry
CHECK_DEADLOCK FALSE
