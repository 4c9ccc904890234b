SPECIFICATION SuiteSpec
CONSTANTS
    \* WebuiAuth
    Procs = {p1, p2}
    Names = {na, nb}
    MaxIds = 2
    MaxPasswords = 1
    MaxReadFaults = 1
    MaxWriteFaults = 1
    MaxProcDeaths = 1
    MaxExponent = 1
    MaxTries = 2
    NoAccount = NoAccount
    NoCall = NoCall
    Nobody = Nobody
    \* WebuiArtifacts, WebuiPanels
    FileSizes = {0, 1, 2}
    MaxArtifact = 2
    MaxTotal = 3
    Callers = {c1, c2}
    RequestIds = {i1, i2}
    Contents = {w1, w2}
    MaxRecords = 1
    MaxGivenUp = 1
    MaxEffects = 2
    \* SeriesControl
    Requests = {r1, r2}
    Fields = {fa, fb}
    MaxRevision = 2
    MaxControlFaults = 1
    \* VersionRegistry
    Checks = {v1, v2}
    MaxVersions = 1
    MaxAttempts = 2
    Quota = 2
    Threshold = 1
    MaxRegFaults = 2
    Nothing = Nothing
    \* CommitHeads
    Pages = {g1, g2}
    MaxHeads = 2
    MaxFailures = 1
    NoHead = NoHead
    \* ModelProbe
    Kinds = {k1, k2, k3}
    Routes = {ro1, ro2, ro3}
    Tests = {te}
    Limit = 2
    NoRoute = NoRoute
    Unresolved = Unresolved
    \* RequestContext
    Writers = {1, 2}
    FragmentKeys = {2, 3, 4}
    Texts = {t1, t2}
    Priorities = {1, 2}
    MaxFragments = 2
    MaxReasons = 1
    MaxPhase = 1
    Codes = {rc}
    \* PageOperations
    Ops = {o1, o2}
    MaxPushes = 1
    MaxChanges = 2
    NoOp = NoOp
    Absent = Absent
    NoSha = NoSha
INVARIANTS
    SuiteTypeOK
    OwnerSurvives
    OldPasswordsLockedOut
    GuessRate
    MemoryBounded
    AppliedOnce
    EntriesOwned
    InStep
    NoLostPatch
    FullEvidence
    StaleIsFlagged
    ProbesOnce
    RenderedInOrder
    RecordOfInstalled
PROPERTY AccountsKept
CHECK_DEADLOCK FALSE
