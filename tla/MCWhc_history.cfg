SPECIFICATION Spec
CONSTANTS
  Keys = {k1, k2}
  Readers = {r1}
  Kinds = {"data", "unregister", "empty"}
  Qos <- AllQos
  MaxSeq = 4
  NoInst = noinst
INVARIANTS
  UnackedBytesExact
  IntervalsExact
  UnackedKept
  TransientLocalKept
  HistoryBounded
  ContentsFreedOnce
SYMMETRY Symmetry
CHECK_DEADLOCK FALSE
