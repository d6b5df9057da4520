SPECIFICATION Spec
CONSTANTS
    LenSize = 2
    HeaderSize = 3
    MaxLength = 4
    Sizes = {3, 4, 5}
    MaxMessages = 2
INVARIANT Aligned
PROPERTY MessagesFramed
CHECK_DEADLOCK FALSE
