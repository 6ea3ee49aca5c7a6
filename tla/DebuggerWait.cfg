\* Two threads that may loop, a signal or a Ctrl-C, no breakpoints: does every
\* command come back?
CONSTANTS
    Thread = {1, 2}
    Leader = 1
    Addr <- LoopCode
    LibAddr = {}
    Op <- ThreadOp
    Succ <- LoopSucc
    Start = 10
    ThreadStart = 20
    TrapAdvance = 1
    MaxSignals = 2
    Line <- LoopLine
    NoLine = 0
    BreakAddr = {}
    ReturnAddr = {20}
    Cmd = {"continue", "stepi", "step"}
    StepLimit = 3
SPECIFICATION FairSpec
CHECK_DEADLOCK FALSE
INVARIANT NoLostWait
PROPERTY CommandReturns
PROPERTY InterruptReturns
