SPECIFICATION FairSpec
CONSTANTS
  Procs = {p1}
  Conns = {c1}
  None = None
  Hosts <- ShutdownHosts
  Configurations = {}
  Databases = {}
  Word = 2
CHECK_DEADLOCK FALSE
PROPERTY ModifiedEnds
