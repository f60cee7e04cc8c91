SPECIFICATION Spec
CONSTANTS
    ChunkCount = 1
    MaxAttempts = 1
    Conns = {w1, w2}
    Ticks = {}
    Creators = {cr}
    None = None
    SendBuffer = 1
    WireCap = 1
    MaxFaults = 2
SYMMETRY Symmetry
INVARIANT CompletedScanCoversTarget
CHECK_DEADLOCK FALSE
