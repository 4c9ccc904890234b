\* A batch of up to two items that is cancelled while the catalogue is scanned.
CONSTANTS
    Plugins = {p, q}
    Versions = {v1, v2}
    Txs = {t1, t2}
    Runs = {r1, r2}
    Plans = {h}
    Keep = 1
    MaxFaults = 0
    MaxCrashes = 0
    MaxReloads = 0
    Commands = {"cancel"}
    NoTx = NoTx
    NoItem = NoItem
    NoBackup = NoBackup
    NoRecord = NoRecord
    NoRun = NoRun
    NoPlan = NoPlan
    Torn = Torn
    Missing = Missing
    Down = Down
SPECIFICATION CoordinatorSpec
CHECK_DEADLOCK FALSE
PROPERTY CancelHonoured
