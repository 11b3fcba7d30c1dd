SPECIFICATION FairSpec
CONSTANTS
  w1 = w1
  w2 = w2
  Workers = {w1, w2}
  Main = main
  Files = {f}
  Keys = {k1, k2}
  None = None
  Backends = {"RamCache", "MemcachedCache"}
  MaxSize = 4
  Size <- MCSize
  MaxChanges = 2
  MaxCalls = 2
CHECK_DEADLOCK FALSE
INVARIANTS CacheTypeOK StaleIsRemoved
PROPERTY CallsReturn
