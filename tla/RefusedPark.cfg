CONSTANTS
    j1 = j1
    w1 = w1
    w2 = w2
    r1 = r1
    r2 = r2
    default = default
    Job = {j1}
    Worker = {w1, w2}
    NoWorker = NoWorker
    Queue = {default}
    DefaultQueue = default
    NoQueue = NoQueue
    Key = {}
    NoKey = NoKey
    RequestedMax <- TwoAttempts
    MaxWake = 2
    Run = {r1, r2}
    None = None
    WorkerOf <- OneSlotEach
    QueueOf <- SameQueue
    Waits = 2
    Faults = {}
SPECIFICATION ExecSpec
INVARIANT WaitingIsFree
CHECK_DEADLOCK FALSE
