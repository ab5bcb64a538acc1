CONSTANTS
    Thread = {t1, t2}
    NoThread = NoThread
    MaxCalls = 5
SPECIFICATION Spec
INVARIANTS SourcesAreOwned  UsedParticipantsAreThere
    RecordersAreThere
SYMMETRY Symmetry
CHECK_DEADLOCK FALSE
