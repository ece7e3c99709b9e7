CONSTANTS
    Job = {j1}
    Worker = {w1, w2}
    NoWorker = NoWorker
    Queue = {default}
    DefaultQueue = default
    NoQueue = NoQueue
    Key = {}
    NoKey = NoKey
    RequestedMax <- Budgets
    MaxWake = 0
    Hooked = {w1, w2}
    Nobody = Nobody
    Faults = {}
    MaxRevivals = 0
SPECIFICATION CompSpec
INVARIANT UnwoundOnce
CHECK_DEADLOCK FALSE
