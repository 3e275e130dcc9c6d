SPECIFICATION FairSpec
CONSTANTS
    d1 = d1
    d2 = d2
    t1 = t1
    t2 = t2
    blank = blank
    Drainers = {d1}
    Keys = {3, 5}
    Targets <- MCTargets
    Blank = blank
    Subs <- MCSubs
    GatewayRequired = {}
    Untargeted = {}
    Unsafe = {}
    BatchSize = 2
    MaxAttempts = 2
    Backoff = 1
    LeaseSeconds = 2
    Exclusive = TRUE
    FaultHorizon = 1
    MaxClock = 5
PROPERTY EveryRowSettles
