CONSTANTS
    Items = {x1, x2}
    NULL = NULL
    JUNK = JUNK
    DefaultSize = 2
    Sizes = {1, 3}
    MaxItems = 6
SPECIFICATION Spec
SYMMETRY ItemSymmetry
CHECK_DEADLOCK FALSE
INVARIANTS TypeOK KeepsItems ReferencesReturned RoomForDefault
