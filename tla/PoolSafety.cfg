SPECIFICATION Spec
CONSTANTS
    Operators = {p1, p2}
    PoolIDs = {1, 2}
    MinIdles = {0}
    Budgets <- OverlapBudgets
SYMMETRY OperatorSymmetry
INVARIANTS
    TypeOK
    BindingInvariant
    ReleaseOnlyAfterGarmDelete
    NoLostUserEdit
    FinalizerGuardsID
PROPERTIES
    PromiseKept
CHECK_DEADLOCK FALSE
