SPECIFICATION Spec
CONSTANTS
    leader = leader
    preview = preview
    t1 = t1
    t2 = t2
    Collectors = {leader}
    Previews = {}
    Tasks = {t1}
    Subscribed = {}
    ForReview = {}
    Reviewers = {}
    Generated = {}
    Wordy = {}
    MaxRetries = 1
    MaxPerTick = 1
    TailLimit = 2
    Occurring = {"crashed"}
    MaxEvents = 2
    MaxFaults = 0
INVARIANT RetriesWithinBudget
