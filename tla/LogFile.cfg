\* The log over six events and three crashes, its end reached and passed.
CONSTANTS
  MEGABYTE <- FileSize
  LOG_ENTRY_SIZE <- EntrySize
  MaxEvents = 6
  MaxCrashes = 3
SPECIFICATION Spec
INVARIANTS
  TypeOK
  RemovalLosesNothing
PROPERTIES
  KeepsSaved
CHECK_DEADLOCK FALSE
