\* Three contenders, one crash, a holder may outlive the lease.
CONSTANTS
    Procs = {p1, p2, p3}
    Lease = 1
    MaxHold = 2
    MaxCrashes = 1
    NoProc = NoProc
SPECIFICATION FairSpec
INVARIANTS
    TypeOK
    ExclusionBeforeExpiry
PROPERTY LockIsFreed
