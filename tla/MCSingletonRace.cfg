SPECIFICATION SingletonSpec
CONSTANTS
    Procs = {p1, p2, p3}
    NoProc = NoProc
    MaxAttempts = 3
    RacingRecovery = TRUE
SYMMETRY ProcSymmetry
INVARIANTS
    OneOwner
CHECK_DEADLOCK FALSE
