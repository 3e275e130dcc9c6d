SPECIFICATION FairSpec
CONSTANTS
    s1 = s1
    s2 = s2
    s3 = s3
    o1 = o1
    o2 = o2
    Supervisors <- MCPair
    Owners <- MCOwners
    Owner <- MCPairOwner
    LeaseSeconds = 4
    HeartbeatSeconds = 2
    JoinTimeout = 3
    TickBound = 2
    Once = FALSE
    CrashHorizon = 5
    MaxClock = 10
PROPERTY Failover
