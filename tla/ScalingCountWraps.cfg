SPECIFICATION Spec
CONSTANTS
    MaxRunners = 3
    MinIdles = {0, 1, 2}
    UintSize = 16
    Budgets <- Calm
INVARIANTS
    CountBounded
CHECK_DEADLOCK FALSE
