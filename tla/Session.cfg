SPECIFICATION FairSpec
CONSTANTS
    p1 = p1
    p2 = p2
    c1 = c1
    u1 = u1
    Procs = {p1, p2}
    Polling = {p2}
    Configs = {c1}
    Specs = {u1}
    Budgets <- Singles
INVARIANTS
    SessionTypeOK
PROPERTIES
    UsableTokenKept
    ConfiguredURLsKept
    EventuallyStarted
    CallsGetThrough
    ConfigApplied
CHECK_DEADLOCK FALSE
