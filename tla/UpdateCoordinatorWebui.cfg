\* One batch of up to two items, and a rollback of the first from the WebUI.
CONSTANTS
    Plugins = {p, q}
    Versions = {v1, v2}
    Txs = {t1, t2, t3}
    Runs = {r1}
    Plans = {h}
    Keep = 1
    MaxFaults = 0
    MaxCrashes = 0
    MaxReloads = 0
    Commands = {}
    NoTx = NoTx
    NoItem = NoItem
    NoBackup = NoBackup
    NoRecord = NoRecord
    NoRun = NoRun
    NoPlan = NoPlan
    Torn = Torn
    Missing = Missing
    Down = Down
SPECIFICATION WebuiSpec
CHECK_DEADLOCK FALSE
INVARIANT OneAtATime
