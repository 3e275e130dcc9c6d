SPECIFICATION Spec
CONSTANTS
    s1 = s1
    s2 = s2
    s3 = s3
    o1 = o1
    o2 = o2
    Supervisors <- MCPair
    Owners <- MCOwners
    Owner <- MCPairOwner
    LeaseSeconds = 8
    HeartbeatSeconds = 2
    JoinTimeout = 2
    TickBound = 5
    Once = FALSE
    CrashHorizon = 8
    MaxClock = 12
INVARIANT MutualExclusion
