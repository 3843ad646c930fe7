CONSTANTS
    PageSize = 7
    Header = 3
    MaxZero = 3
    NULL = NULL
    DATA = DATA
SPECIFICATION Spec
INVARIANTS TypeOK HeldOnce FreeListSound RefusesOnlyWhenFull
PROPERTIES IsAPool
