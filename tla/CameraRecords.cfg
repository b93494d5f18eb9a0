CONSTANTS
  CapThread <- BothCaptures
  EncThread <- BothEncoders
  DigitalCamera = FALSE
  LiveClient = FALSE
  MaxChanges = 2
  MaxFaults = 1
SPECIFICATION FairSpec
PROPERTIES HandlersReturn RecordingStarts AllStops PowersOff
CHECK_DEADLOCK FALSE
