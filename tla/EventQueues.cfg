CONSTANTS
    Thread = {t1, t2, t3}
    NoThread = NoThread
    MaxQueue = 1
    MaxEvent = 2
    MaxCalls = 5
SPECIFICATION FairSpec
INVARIANTS QueuesAreSound SentInOrder SleeperIsWoken
PROPERTY DestroyReturns
CHECK_DEADLOCK FALSE
