SPECIFICATION FairSpec
CONSTANTS
  i1 = i1
  i2 = i2
  Modes = {"direct", "blocking", "threaded"}
  KeepConn = FALSE
  Multiplex = FALSE
  Ids = {i1}
  MaxRequests = 1
  BodyRecords = 2
INVARIANTS TypeOK Defined RecordHeaderIsCurrent WaitingIsFed SocketInSlotThread
PROPERTIES EndDelivered ClosesConnection
