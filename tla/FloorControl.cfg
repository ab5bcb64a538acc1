CONSTANTS
    MaxUser = 2
    MaxRequest = 3
    Conn = {c1, c2}
    NoConn = NoConn
    Requested <- AllFloorSets
    Queried <- BothFloors
SYMMETRY ConnSymmetry
SPECIFICATION Spec
INVARIANTS
    OneGrantPerFloor
    MixerFollowsFloors
    BeneficiariesAreUsers
    SubscribersInSync
    TransportIsTheLiveConnection
PROPERTY
    PresenterChangeDropsEditor
CHECK_DEADLOCK FALSE
