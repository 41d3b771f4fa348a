SPECIFICATION Spec
CONSTANTS
    Requests <- Underived
    Workers = 3
    MayPanic = FALSE
    Ids = {1, 2, 3}
    Classes = {1, 2}
    Coordinates <- SmallCoordinates
INVARIANT RemapRefines
CHECK_DEADLOCK FALSE
