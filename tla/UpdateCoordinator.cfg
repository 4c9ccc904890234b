\* Two calls, of a one-item plan or of a rollback, with a hot reload and a death.
CONSTANTS
    Plugins = {p}
    Versions = {v1, v2}
    Txs = {t1, t2}
    Runs = {r1, r2}
    Plans = {h}
    Keep = 1
    MaxFaults = 0
    MaxCrashes = 1
    MaxReloads = 1
    Commands = {"rollback"}
    NoTx = NoTx
    NoItem = NoItem
    NoBackup = NoBackup
    NoRecord = NoRecord
    NoRun = NoRun
    NoPlan = NoPlan
    Torn = Torn
    Missing = Missing
    Down = Down
SPECIFICATION CoordinatorSpec
CHECK_DEADLOCK FALSE
SYMMETRY Symmetric
INVARIANTS
    CoordinatorTypeOK
    OneRun
PROPERTIES
    ImplementsSerial
    NoReplay
