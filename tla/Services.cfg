SPECIFICATION ServicesSpec
CONSTANTS
    Tabs = {b1, b2}
    Clients = {b3}
    MaxRefreshTokens = 3
    MaxFaults = 1
    MemoryRuns = {r1, r2}
    RequestIds = {1, 2}
    Preferences = {p1}
    Nodes = {n1}
    Contents = {v1}
    PageSize = 2
    MaxMemories = 3
    Admins = {a1, a2}
    Owners = {o1}
    MaxSecrets = 3
    MaxSecretFaults = 2
    Callers = {c1, c2}
    DraftIds = {d1, d2}
    ApplyIds = {i1, i2}
    Answers = {s1}
    MaxDrafts = 2
    MaxWorkspaces = 2
    Uploads = {u1, u2, u3}
    MaxUploadFaults = 2
    ReadCalls = {t1}
    WriteCalls = {t2}
    DecisionLimits = {2, 8}
    MaxCalls = 5
    MaxTurns = 2
    FirstThreads = {f1}
    SpareThreads = {f2}
    MaxRuns = 1
    MaxStreams = 3
    MaxPending = 1
    MaxLanguageChanges = 1
VIEW FocusView
INVARIANTS
    SingleLiveToken
    ReuseMeansLostAnswer
    OneActivePerSlot
    NamedSecretStored
    NothingLeftBehind
    DraftMakesOneWorkspace
    ReplayTruthful
    ObjectMatchesRow
    EffectsOfThisTurn
    StepsWithinLimit
    GroundedAnswer
    ShownIsOfThread
PROPERTIES
    LogoutAllEndsSessions
    ConsentAtWrite
    ForgottenOnlyOnPurpose
    
CHECK_DEADLOCK FALSE
