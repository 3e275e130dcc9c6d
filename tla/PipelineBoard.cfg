SPECIFICATION Spec
CONSTANTS
    leader = leader
    preview = preview
    t1 = t1
    t2 = t2
    Collectors = {leader, preview}
    Previews = {preview}
    Tasks = {t1}
    Subscribed = {}
    ForReview = {}
    Reviewers = {}
    Generated = {}
    Wordy = {}
    MaxRetries = 1
    MaxPerTick = 1
    TailLimit = 2
    Occurring = {"crashed", "agent-actionable"}
    MaxEvents = 2
    MaxFaults = 1
INVARIANTS
    TypeOK
    NothingSkipped
    OneRecoveryPerEvent
    FailuresAreAnswered
    RetriesArePaid
    StaleRetriesWithinBudget
    EscalationIsLast
    DoneIsQueued
