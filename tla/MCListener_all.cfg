SPECIFICATION Spec
CONSTANTS
  App = {t1, t2}
  Mid = {m1, m2}
  None = None
  Callbacks = {f, g}
  ResetOn = {g}
  MaxEvents = 3
  MaxCalls = 4
SYMMETRY Symmetry
INVARIANTS
  ListenerStable
  NoMissedTrigger
CHECK_DEADLOCK FALSE
