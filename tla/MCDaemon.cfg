SPECIFICATION DaemonSpec
CONSTANTS
    Verifies = {r1}
    Dries = {d1}
    Host = host
    Waiters = {r1, d1, host}
    MaxRecovery = 1
    v1 = v1
    v2 = v2
    Versions = {v1, v2}
    Original = v1
    MaxEdits = 2
INVARIANTS
    DaemonTypeOK
    ServerOwned
    ReadyIsOwned
    RecoveryBounded
    CheckoutPinned
    PassedIsFresh
PROPERTIES
    AbortedNeverPasses
CHECK_DEADLOCK FALSE
