SPECIFICATION Spec
CONSTANTS
    Connections = {c1, c2}
    Threads = {pox, reactor}
    Pox = pox
    Size = 2
    MaxMessages = 2
    Null = Null
INVARIANTS ThreadOrder SendingHonest
PROPERTY DeferredWritten
CHECK_DEADLOCK FALSE
