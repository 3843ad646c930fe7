CONSTANTS
    Sessions <- NarrowSessions
    Exps <- AllExps
    Stms <- AllStms
    StackSize = 3
    NilReads = 0
    FarReads = 1000
SPECIFICATION Spec
CHECK_DEADLOCK FALSE
INVARIANTS TypeOK OperandThere CodeBalanced OperandsOnStack OverflowNeedsDepth
