SPECIFICATION FairSpec
CONSTANTS
    MaxRunners = 2
    MinIdles = {0, 1}
    UintSize = 16
    Budgets <- MixedBudgets
INVARIANTS
    ScalingTypeOK
    SparesMinIdle
PROPERTIES
    CountStaysSound
    ScaleDownConverges
    DeletionEmptiesPool
CHECK_DEADLOCK FALSE
