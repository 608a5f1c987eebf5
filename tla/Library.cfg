SPECIFICATION LibSpec
CONSTANTS
    Tasks = {t1, t2, t3, t4}
    Waiters = {w}
    MaxThreads = 2
    Nobody = Nobody
    Pool = Pool
    Poppers = {p1, p2, p3}
    MaxPush = 3
    Duration = 7
    Accuracy = 3
    Timeouts = {0, 1, 2, 3, 5, 7}
    MaxTimers = 2
    Hosts = {"h1", "h2", "h3"}
    Weights = {1, 2}
    Replicas = 2
    Points = 2
    Space = 11
    Hash <- LibHash
    Objects = {r, o1, o2}
    TreeRoot = r
    NoObject = NoObject
    Callers = {g1, g2}
    MaxCalls = 2
INVARIANTS
    WorkConserved
    NoLostWakeup
    OnTime
    DestroyedOnce
PROPERTIES
    TasksComplete
    ImplementsTaskPool
    OnlyToNewNode
    TreeCallsReturn
CHECK_DEADLOCK FALSE
