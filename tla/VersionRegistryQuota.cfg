CONSTANTS
    Checks = {v1, v2}
    MaxVersions = 1
    MaxAttempts = 2
    Quota = 2
    Threshold = 1
    MaxRegFaults = 1
    Nothing = Nothing
SPECIFICATION RegistrySpec
CHECK_DEADLOCK FALSE
PROPERTY
    LimitEnds
