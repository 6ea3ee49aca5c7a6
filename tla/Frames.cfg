\* main and up to three activations of a recursive function; backtraces of three.
CONSTANTS
    Addr <- Instructions
    Op <- Code
    Succ <- Flow
    Callee = 200
    Slot <- Slots
    Main = 100
    Libc = 900
    Low = 10
    Top = 26
    LocalWords = 2
    MaxDepth = 4
    BreakAddr = {215, 225}
    Scopes <- Variables
    Bias <- Biases
    Global = 300
    GlobalValue = 77
    UserWords = {12, 20, 22, 24, 300}
    UserRegisters = {"rax", "rbx", "rbp"}
    UserValue = 88
    MaxFrames = 3
SPECIFICATION Spec
CHECK_DEADLOCK FALSE
INVARIANT TypeOK
INVARIANT BacktraceRight
INVARIANT LocalsRight
INVARIANT FinishNeverOvershoots
