SPECIFICATION Spec
CONSTANTS
    s1 = s1
    s2 = s2
    s3 = s3
    o1 = o1
    o2 = o2
    Supervisors <- MCSupervisors
    Owners <- MCOwners
    Owner <- MCOwner
    LeaseSeconds = 4
    HeartbeatSeconds = 2
    JoinTimeout = 3
    TickBound = 2
    Once = FALSE
    CrashHorizon = 8
    MaxClock = 8
INVARIANTS
    TypeOK
    MutualExclusion
    OneActor
    ActorHoldsLease
    CleanStop
PROPERTIES
    LeaseMovesForward
    TakesTurns
