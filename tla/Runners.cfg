SPECIFICATION FairSpec
CONSTANTS
    r1 = r1
    p1 = p1
    Runners = {r1}
    Pools = {p1}
    PoolOf <- SamePool
    Budgets <- Some
INVARIANTS
    RunnerTypeOK
    OnlyRequestedStops
    GuardedUntilStopped
    UnprotectedOnlyIfDisturbed
PROPERTIES
    RequestReachesGarm
    EventuallyMirrored
CHECK_DEADLOCK FALSE
