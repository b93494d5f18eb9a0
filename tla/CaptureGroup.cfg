\* eVCAPTURE_SRC and eACAPTURE_SRC: a capture thread writes, an encoder reads.
CONSTANTS
  TBUF_NUMBER = 3
  FirstTable = 2
  StreamB = StreamB
  Reader = {VEncode}
  LiveReader = {}
  Compressed = FALSE
  GetAnyway = {TRUE, FALSE}
  MayLoseBuffer = TRUE
  TimeStep <- CapturePeriods
  Gop = 0
  MaxWriting = 2
  MaxFrame = 4
  MaxAbandoned = 2
SPECIFICATION Spec
INVARIANTS
  OrderAgrees
CHECK_DEADLOCK FALSE
