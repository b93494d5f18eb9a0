CONSTANTS
  Starts <- MCStarts
  Orders <- MCOrders
  MaxEvents = 3
SPECIFICATION Spec
INVARIANTS
  TypeOK
  OrderAnnounced
PROPERTIES
  DeviceSleeps
CHECK_DEADLOCK FALSE
