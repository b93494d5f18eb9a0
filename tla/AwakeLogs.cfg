\* A log file that always opens, and a sleep that is called off.
CONSTANTS
  RING_BUF_SIZE = 2
  Client <- Clients
  LogFileMayFail = FALSE
  MaxCalls = 4
  MaxSleeps = 2
SPECIFICATION Spec
INVARIANT AwakeLogs
CHECK_DEADLOCK FALSE
