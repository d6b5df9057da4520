CONSTANTS
  MaxPayload = 2
  Window = 3
  SeqMod = 32
  MaxRead = 2
  MaxBytes <- Unused
  MaxRequests = 2
  RequestLen = 2
  ReplyLen = 2
  FileLens = {0, 3}
  ReadSize = 2
SPECIFICATION FTSpec
INVARIANTS
  PromptInStep
  NoEarlyEnd
PROPERTIES
  RequestIsAnswered
  BothClose
CHECK_DEADLOCK FALSE
