CONSTANTS
    p1 = p1
    p2 = p2
    original = original
    replay = replay
    w1 = w1
    w2 = w2
    s1 = s1
    s2 = s2
    default = default
    Payout = {p1, p2}
    Copy = {original, replay}
    Original = original
    Job <- PayoutJobs
    Worker = {w1, w2}
    NoWorker = NoWorker
    Queue = {default}
    DefaultQueue = default
    NoQueue = NoQueue
    Key = {}
    NoKey = NoKey
    RequestedMax = {2}
    MaxWake = 0
    Amount <- OneEach
    ScenarioOf <- AnyThenReject
    Opening = 1
    FlakyFailures = 1
    PayoutAttempts = 2
    SettlementAttempts = 2
    Slot = {s1, s2}
    WorkerOf <- OneSlotEach
    None = None
    Faults = {"crash", "stall", "error"}
    MaxTroubles = 1
SYMMETRY Mirror
SPECIFICATION PaySpec
INVARIANTS PayTypeOK Conserved CoveredIfSerial TruthTold HeldMoneyIsWatched
CHECK_DEADLOCK FALSE
