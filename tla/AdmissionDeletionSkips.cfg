SPECIFICATION FairSpec
CONSTANTS
    q1 = q1
    q2 = q2
    i1 = i1
    i2 = i2
    Pools = {q1, q2}
    Home <- PoolHome
    Images = {i1, i2}
    ImageHome <- ImagesHome
    ImageName <- OwnName
    Scopes = {"Repository"}
    Watches <- Everywhere
    Budgets <- EditAndDelete
PROPERTIES
    DeletionSkipsValidation
CHECK_DEADLOCK FALSE
