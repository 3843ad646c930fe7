SPECIFICATION Spec
CONSTANTS
    v1 = v1
    v2 = v2
    NONE = NONE
    Dictionaries <- Regular
    Vals = {v1, v2}
    MinSize = 4
    LongValues = 65536
INVARIANTS TypeOK EveryEntryOnce DestructedOnce ShortNamesInside
PROPERTIES IsAMap PutEnds
CHECK_DEADLOCK FALSE
