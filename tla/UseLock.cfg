CONSTANTS
    Thread = {t1, t2, t3}
    NoThread = NoThread
    MaxSpurious = 2
SPECIFICATION FairUseSpec
INVARIANTS OwnerExcludesUsers NoLostWakeup
PROPERTIES ImplementsRWLock ClaimIsServed
