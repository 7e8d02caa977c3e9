SPECIFICATION FairSpec
CONSTANTS
    Threads = {t1, t2}
    None = None
CHECK_DEADLOCK FALSE
INVARIANTS
    TypeOK
    ReturnedWereAnswered
    CrossingCosts
    ReferencesHeld
PROPERTIES
    AloneReturns
