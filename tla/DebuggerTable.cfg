\* One thread or two on x86-64: a clone or a library, breakpoints, a finish, a signal
\* or Ctrl-C, a thread that ends, an exit_group.
CONSTANTS
    Thread = {1, 2}
    Leader = 1
    Addr <- BothCode
    LibAddr = {30}
    Op <- BothOp
    Succ <- BothSucc
    Start = 10
    ThreadStart = 70
    TrapAdvance = 1
    MaxSignals = 1
    Line <- BothLine
    NoLine = 0
    BreakAddr = {30, 70}
    ReturnAddr = {50}
    Cmd = {"continue", "stepi", "finish"}
    StepLimit = 3
SPECIFICATION Spec
CHECK_DEADLOCK FALSE
INVARIANT TypeOK
INVARIANT ThreadsAccurate
INVARIANT DeadMeansGone
INVARIANT ContinueLeavesNoneStopped
INVARIANT TrapRewound
INVARIANT WantedInPlace
INVARIANT QuitClean
PROPERTY PausedStayPaused
