\* More failing attempts than backups kept.
CONSTANTS
    Plugins = {p}
    Versions = {v1, v2}
    Txs = {t1, t2, t3}
    Keep = 1
    MaxFaults = 0
    MaxCrashes = 0
    NoTx = NoTx
    NoItem = NoItem
    NoBackup = NoBackup
    NoRecord = NoRecord
    Torn = Torn
    Missing = Missing
    Down = Down
SPECIFICATION Spec
CHECK_DEADLOCK FALSE
SYMMETRY Symmetric
INVARIANT RecoveryPointKept
