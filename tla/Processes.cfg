SPECIFICATION FairSpec
CONSTANTS
  Procs = {p1, p2}
  Conns = {c1, c2}
  None = None
  Hosts <- MCHosts
  Configurations <- MCConfigurations
  Databases <- MCDatabases
  Word = 2
CHECK_DEADLOCK FALSE
INVARIANTS ProcessTypeOK ListensAsTold
PROPERTY RequestsServed
