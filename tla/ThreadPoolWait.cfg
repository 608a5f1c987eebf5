SPECIFICATION Spec
CONSTANTS
    Tasks = {t1, t2}
    Waiters = {w}
    MaxThreads = 1
    Nobody = Nobody
    Pool = Pool
INVARIANTS
    WaitMeansDone
CHECK_DEADLOCK FALSE
