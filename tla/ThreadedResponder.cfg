SPECIFICATION FairSpec
CONSTANTS
  MaxRequests = 4
  ThreadCount = 2
  Persist = TRUE
INVARIANTS TypeOK NoLostWakeup OwnThread MutexHolder OrderedStart StartedIsFinished Placement
PROPERTIES ImplementsService EveryRequestAnswered
