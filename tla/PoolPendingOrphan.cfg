SPECIFICATION Spec
CONSTANTS
    Operators = {p1}
    PoolIDs = {1, 2}
    MinIdles = {0, 1}
    Budgets <- Undisturbed
INVARIANTS
    NothingInGarmWhenPending
CHECK_DEADLOCK FALSE
