SPECIFICATION FairSpec
CONSTANTS
    ChunkCount = 1
    MaxAttempts = 2
    Conns = {w1}
    Ticks = {t1}
    Creators = {}
    None = None
    SendBuffer = 2
    WireCap = 1
    MaxFaults = 1
PROPERTY ScanSettles
