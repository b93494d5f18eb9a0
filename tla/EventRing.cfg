\* The ring under main, one more thread, two sleeps and FINISH.
CONSTANTS
  RING_BUF_SIZE = 2
  Client <- Clients
  LogFileMayFail = TRUE
  MaxCalls = 4
  MaxSleeps = 2
SPECIFICATION FairSpec
INVARIANTS
  TypeOK
  PostsCover
PROPERTIES
  ImplementsQueue
  EventsReachFile
  CallsReturn
  FinishGoesOff
CHECK_DEADLOCK FALSE
