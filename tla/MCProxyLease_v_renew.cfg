SPECIFICATION Spec
CONSTANTS
  PP = p
  Writers = {w1}
  PPDur = 2
  QoS <- Liveliness
  Clones = {c1, c2, c3, c4}
  Late = 1
  MaxRetired = 0
  None = None
INVARIANTS
  RenewalsOnLiveLeases
