CONSTANTS
  MaxPayload = 2
  Window = 3
  SeqMod = 16
  MaxRead = 2
  MaxBytes <- ThreeAndOne
SPECIFICATION Spec
INVARIANT AllIsPassedDown
CHECK_DEADLOCK FALSE
