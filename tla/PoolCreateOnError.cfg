SPECIFICATION Spec
CONSTANTS
    Operators = {p1}
    PoolIDs = {1, 2}
    MinIdles = {0, 1}
    Budgets <- FaultOnly
PROPERTIES
    CreateOnlyIfIdOutdated
CHECK_DEADLOCK FALSE
