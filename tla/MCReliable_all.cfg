SPECIFICATION Spec
CONSTANTS
  r1 = r1
  r2 = r2
  k1 = k1
  k2 = k2
  Readers = {r1, r2}
  Keys = {k1, k2}
  MaxSeq = 2
  PrimaryMax = 8
  SecondaryMax = 8
  All = all
  SetUps <- AllSetUps
INVARIANTS
  AckedMeansReceived
  HistoryComplete
  StoredOnce
CHECK_DEADLOCK FALSE
