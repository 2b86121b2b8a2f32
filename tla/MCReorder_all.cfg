SPECIFICATION Spec
CONSTANTS
  MaxSeq = 6
  Params <- AllParams
  InteriorGaps = TRUE
  MaxAlways = 2
INVARIANTS
  TreeWellFormed
  NothingSkippedWithRoom
  DeliveredInOrder
PROPERTIES
  EvictsHighest
