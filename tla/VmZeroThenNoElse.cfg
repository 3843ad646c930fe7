CONSTANTS
    Sessions <- ZeroThenNoElse
    Exps <- AllExps
    Stms <- AllStms
    StackSize = 10
    Fuel = 20
    NilReads = 0
    FarReads = 1000
SPECIFICATION PromisedSpec
CHECK_DEADLOCK FALSE
INVARIANTS NothingElseWritten
