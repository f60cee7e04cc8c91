SPECIFICATION FairSpec
CONSTANTS
    ScanCount = 2
    Conns = {w1, w2}
    None = None
    SendBuffer = 1
    MaxFaults = 1
INVARIANT TypeOK
INVARIANT CompletedScanWasRun
PROPERTY ScanSettles
CHECK_DEADLOCK FALSE
