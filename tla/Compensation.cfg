CONSTANTS
    Job = {j1, j2}
    Worker = {w1, w2}
    NoWorker = NoWorker
    Queue = {default}
    DefaultQueue = default
    NoQueue = NoQueue
    Key = {}
    NoKey = NoKey
    RequestedMax <- Budgets
    MaxWake = 0
    Hooked = {w1}
    Nobody = Nobody
    Faults = {"crash", "error"}
    MaxRevivals = 1
SPECIFICATION FairCompSpec
INVARIANTS CompTypeOK OnlyTheDead
PROPERTIES EventuallyUnwound
CHECK_DEADLOCK FALSE
