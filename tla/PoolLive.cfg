SPECIFICATION FairSpec
CONSTANTS
    Operators = {p1}
    PoolIDs = {1, 2, 3}
    MinIdles = {0, 1}
    Budgets <- Pairs
INVARIANTS
    DrainedPoolStaysDisabled
PROPERTIES
    NoCreateAfterRelease
    EventuallySynced
    DeletionReachesGarm
    SettledDeletionCompletes
CHECK_DEADLOCK FALSE
