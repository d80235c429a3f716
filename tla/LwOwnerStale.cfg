SPECIFICATION Spec
CONSTANTS
    Threads = {t1, t2}
    None = None
    LwMutexes = {x}
    LwConds = {c}
    NumLwSlots = 2
    MaxDepth = 2
    MaxGen = 1
    Churn = FALSE
INVARIANT OwnerHolds
CHECK_DEADLOCK FALSE
