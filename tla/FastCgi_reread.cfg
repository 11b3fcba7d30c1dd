SPECIFICATION Spec
CONSTANTS
  i1 = i1
  i2 = i2
  Modes = {"blocking"}
  KeepConn = FALSE
  Multiplex = FALSE
  Ids = {i1}
  MaxRequests = 1
  BodyRecords = 2
INVARIANT PostDataAsSent
