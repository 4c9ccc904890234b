\* One crash leaves a stale file that two processes steal at once.
CONSTANTS
    Procs = {p1, p2, p3}
    Lease = 2
    MaxHold = 2
    MaxCrashes = 1
    NoProc = NoProc
SPECIFICATION Spec
SYMMETRY Symmetric
INVARIANT MutualExclusion
