SPECIFICATION Spec
CONSTANTS
    Users = {u1, u2}
    Browsers = {b1}
    maxForkedChilds = 1
    MaxClients = 2
    MaxRequests = 1
    Nobody = Nobody
INVARIANTS SlotsNeverReused
PROPERTIES AcceptedUnlessFull EveryUserServed 
CHECK_DEADLOCK FALSE
