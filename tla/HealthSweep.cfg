SPECIFICATION Spec
CONSTANTS
    Never = Never
    Tasks = {1, 2, 3, 4}
    Cards = {1, 3}
    Followed = {"retry", "promote", "finalize"}
    MaxRetries = 1
    StateRetention = 1
    LastDay = 3
    DoneRetention = 1
    ArchivedRetention = 2
    CleanupInterval = 1
    MaxFaults = 1
    Starting <- MCStarting
INVARIANTS
    TypeOK
    RepeatsAfterRetention
    RetriesPerRetention
    NothingIsForgotten
    WaitingIsExplained
    ScansAgree
    RootIsFarthest
PROPERTIES
    FindingsAreProposed
CHECK_DEADLOCK FALSE
