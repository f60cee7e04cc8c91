SPECIFICATION Spec
CONSTANTS
    a = a
    b = b
    h1 = h1
    h2 = h2
    h3 = h3
    h4 = h4
    Instances <- MCInstances
    Handlers <- MCHandlers
    Home <- MCHome
    None = None
    MaxBreaks = 1
    MaxHasty = 2
CHECK_DEADLOCK FALSE
INVARIANT HookCanSend
