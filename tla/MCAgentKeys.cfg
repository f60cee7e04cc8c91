SPECIFICATION Spec
CONSTANTS
    InstallTokens = {t1}
    AgentRows = {a1, a2}
    Hosts = {h1, h2}
    NoAgent = NoAgent
    MaxKeys = 3
    MaxReports = 2
INVARIANT KeyInUseIsAccepted
CHECK_DEADLOCK FALSE
