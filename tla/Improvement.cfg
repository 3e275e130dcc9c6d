SPECIFICATION Spec
CONSTANTS
    None = None
    Unreadable = Unreadable
    NoFile = NoFile
    code = code
    low = low
    retries = retries
    limit = limit
    a = a
    b = b
    u1 = u1
    u2 = u2
    k1 = k1
    k2 = k2
    t1 = t1
    Callers = {a, b}
    CodeChanges = {code}
    ConfigChanges = {low}
    Urls = {u1, u2}
    Commits = {k1, k2}
    Targets = {t1}
    Paths = {retries, limit}
    Values = {0, 1, 3, 12}
    Cuts <- MCCuts
    Original <- MCOriginal
    Patch <- MCPatch
    RollbackValue <- MCRollback
    Whitelisted = {low}
    LowRisk = {low}
    Stamps = {1, 2}
    Kept <- MCKept
    MaxRows = 12
    Starting = {{low}, {code}}
INVARIANTS
    TypeOK
    GatesInOrder
    DeploysWhatWasReviewed
    ValuesAreAccountedFor
    OriginalIsKept
CHECK_DEADLOCK FALSE
CONSTRAINT Explored
SYMMETRY Symmetry
