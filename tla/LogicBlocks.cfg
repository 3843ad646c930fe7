CONSTANTS
    LB = {l1, l2, l3, l4, l5, l6}
    NULL = NULL
    MaxLeak = 2
SPECIFICATION Spec
SYMMETRY LBSymmetry
INVARIANTS TypeOK RefcntExact CacheSound NoDangling NothingLost ChainIsStack AllReturned
PROPERTIES FreshFrame
