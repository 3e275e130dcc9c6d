SPECIFICATION Spec
CONSTANTS
    leader = leader
    preview = preview
    t1 = t1
    t2 = t2
    Collectors = {leader, preview}
    Previews = {preview}
    Tasks = {t1}
    Subscribed = {}
    ForReview = {}
    Reviewers = {}
    Generated = {t1}
    Wordy = {}
    MaxRetries = 1
    MaxPerTick = 1
    TailLimit = 2
    Occurring = {"crashed", "blocked"}
    MaxEvents = 1
    MaxFaults = 0
INVARIANT NoFailureIsMissed
