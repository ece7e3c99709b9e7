CONSTANTS
    Job = {j1, j2}
    Worker = {w1, w2}
    NoWorker = NoWorker
    Queue = {default, other}
    DefaultQueue = default
    NoQueue = NoQueue
    Key = {k1}
    NoKey = NoKey
    RequestedMax <- MCRequestedMax
    MaxWake = 1
SPECIFICATION Spec
INVARIANTS TypeOK AttemptBudget RunningIsDue LeaseIffRunning
PROPERTIES LiveLeaseIsKept ImplementsLifecycle
CHECK_DEADLOCK FALSE
