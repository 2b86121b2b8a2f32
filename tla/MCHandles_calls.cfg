SPECIFICATION Spec
CONSTANTS
  pp = pp
  sub = sub
  rd1 = rd1
  rd2 = rd2
  top = top
  Threads = {t1, t2, t3}
  Entities <- MCEntities
  Topics = {top}
  Root = pp
  Nobody = nobody
  None = none
  Parent <- MCParent
  TopicOf <- MCTopicOf
  Iid <- MCIid
  Scenarios <- SafeScenarios
  MaxOps = 3
INVARIANTS
  DeletedOnce
  NoUseAfterFree
  CountsExact
  NoOrphans
PROPERTIES
  CallsReturn
CHECK_DEADLOCK FALSE
