SPECIFICATION FairSpec
CONSTANTS
    ScanCount = 1
    Conns = {w1}
    None = None
    SendBuffer = 2
    MaxFaults = 0
CHECK_DEADLOCK FALSE
PROPERTY ScanWaitsForAgent
