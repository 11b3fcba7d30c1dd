SPECIFICATION Spec
CONSTANTS
  i1 = i1
  i2 = i2
  Modes = {"blocking"}
  KeepConn = TRUE
  Multiplex = TRUE
  Ids = {i1, i2}
  MaxRequests = 2
  BodyRecords = 1
INVARIANT SocketOutlivesRequests
