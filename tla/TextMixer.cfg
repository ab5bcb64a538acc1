CONSTANTS
    QueueSize = 2
    ChunkSize = 2
    WaitLimit = 0
    Extension = 1
    Inactive = 0
    Participant = {1, 2, 3}
    Player = {4}
    Joined = {1, 2}
    Typing <- MCTyping
    OutputSize = 1
    MaxCalls = 3
SPECIFICATION FairSpec
INVARIANTS WorkersKnowTheirWritters TextIsShown
CHECK_DEADLOCK FALSE
PROPERTY EverybodyGetsATurn
