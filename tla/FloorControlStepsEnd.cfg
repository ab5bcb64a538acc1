CONSTANTS
    MaxUser = 1
    MaxRequest = 2
    Conn = {c1, c2}
    NoConn = NoConn
    Requested <- AllFloorSets
    Queried <- BothFloors
    control = control
    Serial = TRUE
SPECIFICATION FairSpec
PROPERTIES
    ImplementsFloorControl
    HandlersEnd
CHECK_DEADLOCK FALSE
