SPECIFICATION Spec
CONSTANTS
  i1 = i1
  i2 = i2
  Modes = {"threaded"}
  KeepConn = FALSE
  Multiplex = FALSE
  Ids = {i1}
  MaxRequests = 1
  BodyRecords = 1
INVARIANT LateInputIgnored
