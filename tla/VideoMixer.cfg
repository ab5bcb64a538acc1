CONSTANTS
    MaxPart = 3
    Joined = {1, 2}
    MaxMosaic = 2
    NumSlots = {1, 2}
    VADModes = {"BasicVAD", "FullVAD"}
    MaxCalls = 3
SPECIFICATION Spec
INVARIANTS   SourcesSeeLiveMosaics PicturesAreCurrent
CHECK_DEADLOCK FALSE
