SPECIFICATION Spec
CONSTANTS
    d1 = d1
    d2 = d2
    t1 = t1
    t2 = t2
    blank = blank
    Drainers = {d1, d2}
    Keys = {1, 5}
    Targets <- MCTargets
    Blank = blank
    Subs <- MCSubs
    GatewayRequired = {}
    Untargeted = {}
    Unsafe = {}
    BatchSize = 2
    MaxAttempts = 2
    Backoff = 1
    LeaseSeconds = 1
    Exclusive = FALSE
    FaultHorizon = 1
    MaxClock = 3
SYMMETRY Symmetry
INVARIANTS
    DeliveredReachedAll
