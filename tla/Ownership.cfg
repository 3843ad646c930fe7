CONSTANTS
    MaxObjects = 16
    StackSize = 2
    MaxFrames = 4
    MaxConsts = 2
    Names = {"a"}
    Params <- OneParam
SPECIFICATION Spec
CHECK_DEADLOCK FALSE
INVARIANTS TypeOK CountsExact OnlyMessagesReadFreed OnlyCyclesSurvive
