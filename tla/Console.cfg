CONSTANTS
    j1 = j1
    j2 = j2
    Job = {j1, j2}
    Worker = {w1}
    NoWorker = NoWorker
    default = default
    Queue = {default}
    DefaultQueue = default
    NoQueue = NoQueue
    Key = {k1}
    NoKey = NoKey
    RequestedMax = {2}
    MaxWake = 1
    Watched = {j2}
    StepName = {s1}
    MaxEvents = 6
    BornAt <- FirstThenSecond
    UiJobsLimit = 1
SPECIFICATION ConsoleSpec
INVARIANTS HistTypeOK AttemptsExplained EndingsStand OneRevivalPerDeath PageNotBehind WalkComplete OverviewAgrees
CHECK_DEADLOCK FALSE
