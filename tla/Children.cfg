CONSTANTS
    parent = parent
    k1 = k1
    k2 = k2
    k3 = k3
    k4 = k4
    w1 = w1
    w2 = w2
    r1 = r1
    r2 = r2
    default = default
    work = work
    a = a
    Job = {parent, k1, k2, k3, k4}
    Parent = parent
    Worker = {w1, w2}
    NoWorker = NoWorker
    Queue = {default, work}
    DefaultQueue = default
    ParentQueue = work
    Served = {default, work}
    NoQueue = NoQueue
    Key = {a}
    NoKey = NoKey
    RequestedMax = {2}
    MaxWake = 0
    Calls <- ThreeCalls
    Slot = {r1, r2}
    WorkerOf <- OneSlotEach
    None = None
    MaxTimers = 4
    MaxTroubles = 2
SPECIFICATION FairChildSpec
INVARIANTS ChildTypeOK WatchesOne SpawnedOnce SucceedsOnChildren
PROPERTIES ParentEnds
CHECK_DEADLOCK FALSE
