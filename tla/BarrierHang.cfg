SPECIFICATION FairBarrierSpec
CONSTANTS
    Threads = {t1, t2}
    MaxRounds = 2
    Values = {1}
    DepthMax = 1
    Elems = {a}
    NoElem = NoElem
PROPERTY BarrierReleases
\* after the last round, and in the hang itself, nothing moves
CHECK_DEADLOCK FALSE
