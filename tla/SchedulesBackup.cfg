CONSTANTS
    Instances = {1, 2}
    Archives = {1, 2}
    MaxDiskFaults = 1
    NoArchive = 0
    Clients = {c1, c2}
    Operations = {"rule", "backup"}
    Fires = {f1}
    MaxCronFaults = 1
    MaxDeaths = 1
    Scenarios = {"faults"}
SPECIFICATION MCSpec
CHECK_DEADLOCK FALSE
INVARIANT
    BackupIndependent
