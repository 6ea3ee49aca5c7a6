\* Variables of four bytes, and of a relocated file.
CONSTANTS
    Addr <- Instructions
    Op <- Code
    Succ <- Flow
    Callee = 200
    Slot <- Slots
    Main = 100
    Libc = 900
    Low = 10
    Top = 26
    LocalWords = 2
    MaxDepth = 4
    BreakAddr = {215}
    Scopes <- Variables
    Bias <- Biases
    Global = 300
    GlobalValue = 77
    UserWords = {}
    UserRegisters = {}
    UserValue = 88
    MaxFrames = 3
SPECIFICATION Spec
CHECK_DEADLOCK FALSE
INVARIANT LocalsGuaranteed
