\* quit with two threads and breakpoints.
CONSTANTS
    Thread = {1, 2}
    Leader = 1
    Addr <- ThreadCode
    LibAddr = {}
    Op <- ThreadOp
    Succ <- ThreadSucc
    Start = 10
    ThreadStart = 20
    TrapAdvance = 1
    MaxSignals = 0
    Line <- ThreadLine
    NoLine = 0
    BreakAddr = {20, 30}
    ReturnAddr = {20}
    Cmd = {"continue", "stepi"}
    StepLimit = 3
SPECIFICATION Spec
CHECK_DEADLOCK FALSE
INVARIANT QuitTakesTrapsOut
