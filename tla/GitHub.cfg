SPECIFICATION FairSpec
CONSTANTS
    MaxID = 2
    Versions = {1, 2}
    PoolManager = {"true", "error"}
    Forgiving = {"credential"}
    Plans <- Disturbed
INVARIANTS
    GitHubTypeOK
    ReleasedMeansGone
PROPERTIES
    IDsNeverRegress
    EventuallySynced
    TeardownCompletes
    PromisesKept
CHECK_DEADLOCK FALSE
