SPECIFICATION FairSingletonSpec
CONSTANTS
    Procs = {p1, p2, p3}
    NoProc = NoProc
    MaxAttempts = 3
    RacingRecovery = FALSE
INVARIANTS
    SingletonTypeOK
    OwnerHoldsLease
    SocketNamesOwner
PROPERTIES
    LiveLeaseKept
    StaleLeaseRecovered
CHECK_DEADLOCK FALSE
