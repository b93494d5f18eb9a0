\* Two hosts, the radio, captures, sleeps, cuts of power, failed writes.
CONSTANTS
  h1 = h1
  h2 = h2
  Host <- Hosts
  Master <- Masters
  Data <- Requests
  Value <- Values
  Period = 1
SPECIFICATION Spec
INVARIANTS
  TypeOK
  NoChangeForgotten
  AsleepAlone
PROPERTIES
  NoStealing
  ChangesSaved
  SilentHostReleased
  SleepIsReached
CHECK_DEADLOCK FALSE
