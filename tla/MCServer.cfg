SPECIFICATION Spec
CONSTANTS
    Addr <- MCAddr
    AllowEntries <- MCAllowEntries
    MaxAllow = 2
    MaxDeny = 1
    ChunkIPs = 3
    BlockSizes <- MCBlockSizes
    MaxAllowEdits = 1
    s1 = s1
    s2 = s2
    k1 = k1
    k2 = k2
    Streams <- MCStreams
    Publishers = {p1, p2}
    EventKinds <- MCEventKinds
    Token <- MCToken
    StreamBuf = 1
    MaxEvents = 2
    ChanCap = 2
    BatchMax = 2
    MaxEmits = 6
    MaxOutages = 1
    Unacceptable = {3}
    Requests = {p1, t1}
    Probes = {p1}
    Handlers = {h1, h2}
    NoHandler = NoHandler
    NoProbe = NoProbe
    Sources = {"s1", "v1"}
    SourceType <- MCSourceType
    NoSource = NoSource
    Secrets = {"x", "y"}
    Clients = {c1, c2}
    MaxRequests = 3
    InstallTokens = {t1}
    AgentRows = {a1, a2}
    Hosts = {h1, h2}
    NoAgent = NoAgent
    MaxKeys = 3
    MaxReports = 2
    Reporters = {r1, r2}
    Services = {"a", "b"}
    MaxInputs = 4
    Workers = {w1, w2}
    CronTimes <- MCCronTimes
    Horizon = 1
    MaxMinutes = 3
    MaxEdits = 3
    MaxNodes = 4
    MaxKids = 2
    Editors = {e1, e2}
    MaxVersions = 3
    p1 = p1
    Channels = {"web", "mail"}
    ChannelType <- MCChannelType
    Nothing = Nothing
    MaxActions = 2
    People = {p1, p2}
    Invitations = {i1}
    HttpRequests = {q1, q2}
    Operations = {o1, o2}
    MaxDcTenants = 3
    MaxMishaps = 2
    MaxOverlaps = 2
INVARIANT TypeOK
INVARIANT ScansStayInFile
INVARIANT ChunksTileEntries
INVARIANT EventReachesStream
INVARIANT AuditAccounted
INVARIANT AnswerIsHeard
INVARIANT ScanSecretIsIntended
INVARIANT AlertsRecorded
INVARIANT InstallActsOnce
INVARIANT RowsComeFromRaces
INVARIANT NewEndpointAnnounced
INVARIANT ClaimedOncePerMatch
INVARIANT LoseATickNotADefinition
INVARIANT OrphansAccounted
INVARIANT OrderHidesErrorsOnly
INVARIANT LastVersionLive
PROPERTY SuppressionHonored
INVARIANT AdminsLostByRaceOrOperator
INVARIANT StrandedTenantsAccounted
CHECK_DEADLOCK FALSE
