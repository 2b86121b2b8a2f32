SPECIFICATION FairSpec
CONSTANTS
  Threads = {gc, t1}
  GcThread = gc
  Objects = {o1}
  TwoPhase = {o1}
  NoOp = noop
  NoReq = noreq
  Domains = {dA, dB}
  Gv = dA
  TimeMod = 6
  MaxNest = 2
  StartTime = 5
  StopTime = 1
  CrossDomain = FALSE
INVARIANTS
  TypeOK
  CountsOutstanding
  ShutdownClean
  NoUseAfterFree
PROPERTIES
  ImplementsReclaim
  UnlinkedIsFreed
  ShutdownCompletes
CHECK_DEADLOCK FALSE
