SPECIFICATION Spec
CONSTANTS
    v1 = v1
    v2 = v2
    NONE = NONE
    Dictionaries <- Meeting
    Vals = {v1, v2}
    MinSize = 4
    LongValues = 65536
PROPERTIES PutEnds
CHECK_DEADLOCK FALSE
