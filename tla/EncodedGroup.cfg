\* eVENCODER_SRC: the encoder writes, the recorder and the live library read.
CONSTANTS
  TBUF_NUMBER = 3
  FirstTable = 3
  StreamB = StreamB
  Reader = {AVRec, StreamB}
  LiveReader = {StreamB}
  Compressed = TRUE
  GetAnyway = {FALSE}
  MayLoseBuffer = FALSE
  TimeStep = {1}
  Gop = 2
  MaxWriting = 1
  MaxFrame = 4
  MaxAbandoned = 1
SPECIFICATION Spec
INVARIANTS
  TypeOK
  NoTornFrame
  ReadsAccounted
  TestsStillHold
PROPERTIES
  TakesOldest
  ImplementsExchange
CHECK_DEADLOCK FALSE
