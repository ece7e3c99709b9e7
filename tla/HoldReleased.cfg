CONSTANTS
    p1 = p1
    p2 = p2
    original = original
    replay = replay
    w1 = w1
    w2 = w2
    s1 = s1
    s2 = s2
    default = default
    Payout = {p1}
    Copy = {original}
    Original = original
    Job <- PayoutJobs
    Worker = {w1}
    NoWorker = NoWorker
    Queue = {default}
    DefaultQueue = default
    NoQueue = NoQueue
    Key = {}
    NoKey = NoKey
    RequestedMax = {2}
    MaxWake = 0
    Amount <- OneEach
    ScenarioOf <- AllOrdinary
    Opening = 1
    FlakyFailures = 1
    PayoutAttempts = 2
    SettlementAttempts = 2
    Slot = {s1, s2}
    WorkerOf <- OneProcess
    None = None
    Faults = {"stall"}
    MaxTroubles = 1
SPECIFICATION PaySpec
INVARIANTS RefusedAlike
CHECK_DEADLOCK FALSE
