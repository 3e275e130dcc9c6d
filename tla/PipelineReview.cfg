SPECIFICATION FairSpec
CONSTANTS
    leader = leader
    preview = preview
    t1 = t1
    t2 = t2
    Collectors = {leader}
    Previews = {}
    Tasks = {t1, t2}
    Subscribed = {t1, t2}
    ForReview = {t1}
    Reviewers = {t2}
    Generated = {}
    Wordy = {t1}
    MaxRetries = 0
    MaxPerTick = 1
    TailLimit = 2
    Occurring = {"agent-actionable", "approve", "needs-changes"}
    MaxEvents = 2
    MaxFaults = 1
INVARIANTS
    ReviewsAreAnswered
    RemediationsUpToTheCap
PROPERTY EveryEventIsSeen
