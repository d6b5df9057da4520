CONSTANTS
  MaxPayload = 2
  Window = 2
  SeqMod = 16
  MaxRead = 2
  MaxBytes <- ThreeAndOne
SPECIFICATION FairSpec
INVARIANTS
  TypeOK
  WindowRespected
  AcksAreHonest
  FinIsLast
  AssertsHold
PROPERTIES DataIsDelivered IsByteStream
CHECK_DEADLOCK FALSE
