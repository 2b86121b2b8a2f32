SPECIFICATION FairSpec
CONSTANTS
  App = {t1, t2}
  Readers = {r1}
  None = None
  WhcLow = 0
  HighMark = 1
  Adaptive = TRUE
  Blockings = {"finite", "infinite"}
  MaxSeq = 3
  MaxCalls = 4
INVARIANTS
  NoUseAfterFree
  NoLostWakeup
  ThrottledAlone
PROPERTIES
  CallsReturn
CHECK_DEADLOCK FALSE
