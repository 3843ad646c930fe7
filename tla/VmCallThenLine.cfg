CONSTANTS
    Sessions <- CallThenLine
    Exps <- AllExps
    Stms <- AllStms
    StackSize = 10
    NilReads = 0
    FarReads = 1000
SPECIFICATION Spec
CHECK_DEADLOCK FALSE
INVARIANTS OneValueLeft
