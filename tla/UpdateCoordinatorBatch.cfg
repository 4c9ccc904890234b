\* One batch of up to two items: failures, cancels, a death of the process.
CONSTANTS
    Plugins = {p, q}
    Versions = {v1, v2}
    Txs = {t1, t2}
    Runs = {r1}
    Plans = {h}
    Keep = 1
    MaxFaults = 0
    MaxCrashes = 1
    MaxReloads = 0
    Commands = {"cancel"}
    NoTx = NoTx
    NoItem = NoItem
    NoBackup = NoBackup
    NoRecord = NoRecord
    NoRun = NoRun
    NoPlan = NoPlan
    Torn = Torn
    Missing = Missing
    Down = Down
SPECIFICATION FairCoordinatorSpec
CHECK_DEADLOCK FALSE
CONSTRAINT FromFirst
ACTION_CONSTRAINT InOrder
INVARIANT
    StopsAfterFailure
PROPERTIES
    CancelInLoop
    RunsEnd
