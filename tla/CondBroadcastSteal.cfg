SPECIFICATION Spec
CONSTANTS
    Threads = {t1, t2, t3}
    None = None
    NumMutexes = 1
    NumConds = 1
    TidMax = 3
    MaxDepth = 1
    RacyTeardown = FALSE
PROPERTIES BroadcastServesAll
\* every thread may wait, or lock a mutex whose owner sleeps
CHECK_DEADLOCK FALSE
