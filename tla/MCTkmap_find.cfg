SPECIFICATION FairSpec
CONSTANTS
  Threads = {t1, t2}
  Caches = {c1}
  Keys = {k1}
  Instances = {1, 2, 3}
  None = None
INVARIANTS
  RefcExact
  NoUseAfterFree
PROPERTIES
  ImplementsKeyMap
  FindReturns
