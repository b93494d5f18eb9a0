CONSTANTS
  CapThread <- BothCaptures
  EncThread <- BothEncoders
  DigitalCamera = FALSE
  LiveClient = TRUE
  MaxChanges = 2
  MaxFaults = 1
SPECIFICATION Spec
INVARIANTS TypeOK GroupsOutliveReaders NoStaleFinishing SleepsAlone
CHECK_DEADLOCK FALSE
