SPECIFICATION Spec
CONSTANTS
    ChunkCount = 2
    MaxAttempts = 2
    Conns = {w1}
    Ticks = {t1}
    Creators = {cr}
    None = None
    SendBuffer = 2
    WireCap = 1
    MaxFaults = 0
INVARIANT OneTerminalEvent
