SPECIFICATION FairSpec
CONSTANTS
    Threads = {t1, t2, t3}
    MaxRounds = 2
    Values = {1, 2}
    DepthMax = 2
    Elems = {a, b}
    NoElem = NoElem
INVARIANTS TypeOK ReadsAreWhole QueueIntact RoundsDontMix
PROPERTIES SyncQueueIsFifo WriterServed
\* every thread may wait for a push or a notify that nobody makes
CHECK_DEADLOCK FALSE
