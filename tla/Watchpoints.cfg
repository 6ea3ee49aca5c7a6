\* Three slots, each architecture; the kernel may refuse any write.
SPECIFICATION Spec
CONSTANTS
    Thread <- TwoThreads
    Leader = 1
    Watch <- Kinds
    Slots = 3
    MayRefuse = TRUE
INVARIANTS
    TypeOK
    ProgrammedRight
    LeftoverIsNext
\* The session ends when the target has.
CHECK_DEADLOCK FALSE
