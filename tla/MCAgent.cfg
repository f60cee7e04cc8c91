SPECIFICATION Spec
CONSTANTS
    SendChSize = 2
    MaxMessages = 4
    MaxErrors = 2
    g1 = g1
    g2 = g2
    h1 = h1
    d1 = d1
    d2 = d2
    None = None
    Directives <- MCDirectives
    Kind <- MCKind
    Controls = 2
    MaxDeliveries = 2
    MaxExits = 1
    Endpoints <- MCEndpoints
    BatchSize = 2
    VulnCap = 1
    Loggers <- MCLoggers
    Handlers <- MCHandlers
    Burst = 1
    Window = 1
    MaxRecords = 4
    MaxClock = 3
INVARIANT TypeOK
INVARIANT OneEndPerAcceptance
INVARIANT FilesRunWhole
INVARIANT BatchesPartitionFindings
INVARIANT EveryPortExamined
INVARIANT DropsAccounted
PROPERTY TunnelIsLossyChannel
PROPERTY BufferDrains
PROPERTY SemaphoreComesBack
CHECK_DEADLOCK FALSE
