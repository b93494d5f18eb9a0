CONSTANTS
  CapThread <- BothCaptures
  EncThread <- BothEncoders
  DigitalCamera = FALSE
  LiveClient = TRUE
  MaxChanges = 2
  MaxFaults = 0
SPECIFICATION FairSpec
PROPERTIES PowersOff
CHECK_DEADLOCK FALSE
