SPECIFICATION FairSpec
CONSTANTS
    Operators = {p1}
    PoolIDs = {1, 2}
    MinIdles = {0, 1}
    Budgets <- FaultOnly
PROPERTIES
    DeletionCompletes
CHECK_DEADLOCK FALSE
