SPECIFICATION FairSpec
CONSTANTS
  App = {t1, t2}
  Readers = {r1}
  None = None
  WhcLow = 0
  HighMark = 0
  Adaptive = TRUE
  Blockings = {"infinite"}
  MaxSeq = 2
  MaxCalls = 3
PROPERTIES
  DeletionUnblocks
CHECK_DEADLOCK FALSE
