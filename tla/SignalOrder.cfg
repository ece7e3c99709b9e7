CONSTANTS
    j1 = j1
    w1 = w1
    w2 = w2
    s1 = s1
    s2 = s2
    s3 = s3
    k1 = k1
    Job = {j1}
    Worker = {w1, w2}
    NoWorker = NoWorker
    Queue = {default}
    DefaultQueue = default
    NoQueue = NoQueue
    Key = {k1}
    NoKey = NoKey
    RequestedMax <- OneBudget
    MaxWake = 2
    Waiter = j1
    Sender = {s1, s2, s3}
    KeyOf <- SharedKey
    Waits = 2
    MaxSends = 2
SPECIFICATION DeliverySpec
INVARIANTS EachDeliveryOnce
SYMMETRY AlikeWorkers
CHECK_DEADLOCK FALSE
