CONSTANTS
    Thread = {t1, t2, t3}
    NoThread = NoThread
    MaxConf = 2
    Tag = {g1, g2}
    NoTag = NoTag
    MaxCalls = 4
SPECIFICATION FairSpec
INVARIANTS ReferencesStayValid OneDeleter TagsFindConferences
PROPERTY CallsReturn
CHECK_DEADLOCK FALSE
