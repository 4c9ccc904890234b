\* Two transactions on one plugin, with one failed write and one death.
CONSTANTS
    Plugins = {p}
    Versions = {v1, v2}
    Txs = {t1, t2}
    Keep = 1
    MaxFaults = 1
    MaxCrashes = 1
    NoTx = NoTx
    NoItem = NoItem
    NoBackup = NoBackup
    NoRecord = NoRecord
    Torn = Torn
    Missing = Missing
    Down = Down
SPECIFICATION FairSpec
CHECK_DEADLOCK FALSE
CONSTRAINT FromFirst
ACTION_CONSTRAINT InOrder
INVARIANTS
    TypeOK
    BackupBeforeChange
    NoOrphanRecord
    UndoKept
PROPERTIES
    EndsWell
    ActivationKept
    AtomicSpec
    EveryTxEnds
