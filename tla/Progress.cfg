SPECIFICATION Spec
CONSTANTS
    Threads = {t1, t2, t3}
    None = None
    Pair = {t1, t2}
    d1 = d1
    b1 = b1
    b2 = b2
PROPERTIES WaitsEnd WorkDrains
\* every thread may wait for something that nobody does
CHECK_DEADLOCK FALSE
