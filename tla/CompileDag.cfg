SPECIFICATION FairSpec
CONSTANTS
    Requests <- AllRequests
    Workers = 3
    MayPanic = TRUE
    Ids = {1, 2, 3}
    Classes = {1, 2}
    Coordinates <- SmallCoordinates
INVARIANT JoinComplete
PROPERTY SpawnedOnce
PROPERTY ImplementsContract
CHECK_DEADLOCK FALSE
