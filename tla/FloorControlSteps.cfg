CONSTANTS
    MaxUser = 2
    MaxRequest = 3
    Conn = {c1}
    NoConn = NoConn
    Requested <- AllFloorSets
    Queried <- BothFloors
    control = control
    Serial = TRUE
SPECIFICATION Spec
INVARIANTS
    NoDanglingRequest
    EveryRequestDecided
PROPERTIES
    ImplementsFloorControl
CHECK_DEADLOCK FALSE
