CONSTANTS
    Instances = {1, 2}
    Archives = {1, 2}
    MaxDiskFaults = 1
    NoArchive = 0
    Clients = {c1, c2}
    Operations = {"rule", "command", "config", "backup"}
    Fires = {f1}
    MaxCronFaults = 1
    MaxDeaths = 1
    Scenarios = {"saves", "faults", "backups"}
SPECIFICATION MCSpec
CHECK_DEADLOCK FALSE
INVARIANTS
    SchedulesTypeOK
    NoLostRule
    SettledJobs
    SuccessWhole
PROPERTIES
    StaleJobsHarmless
    SuccessKept
    RuleTakesEffect
