SPECIFICATION FairSpec
CONSTANTS
    d1 = d1
    d2 = d2
    t1 = t1
    t2 = t2
    blank = blank
    Drainers = {d1}
    Keys = {1, 2, 4}
    Targets <- MCTargets
    Blank = blank
    Subs <- MCSubs
    GatewayRequired = {2}
    Untargeted = {}
    Unsafe = {4}
    BatchSize = 2
    MaxAttempts = 2
    Backoff = 1
    LeaseSeconds = 2
    Exclusive = TRUE
    FaultHorizon = 1
    MaxClock = 4
INVARIANTS
    TypeOK
    DeliveredReachedAll
    ExhaustedIsJustified
    AttemptsBounded
    HeldRowsAreFresh
PROPERTIES
    ImplementsNotifications
    EveryRowSettles
