CONSTANTS
    M = 16
    Size = 3
    MaskLen = 2
    Low = 4
    High = 11
    Starts = {13, 14}
    MaxSource = 2
    MaxSent = 4
    MaxFlight = 2
    MaxStarts = 1
    MaxAhead = 4
    MaxBehind = 8
SPECIFICATION Spec
INVARIANTS LossesAreKnown  
 
CHECK_DEADLOCK FALSE
