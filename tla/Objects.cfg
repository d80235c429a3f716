SPECIFICATION ObjectsSpec
CONSTANTS
    Threads = {t1, t2, t3}
    None = None
    NumSlots = 1
    MaxArgs = {1, 2}
    PostArgs = {1, 2}
    IntMax = 5
    TokenMax = 6
    Pair = {u1, u2}
    x1 = x1
    c1 = c1
    d1 = d1
    b1 = b1
    b2 = b2
SYMMETRY ThreadSymmetry
INVARIANTS TypeOK SlotsPinned UnitsAccounted GuestTypes NestedWaits EventsSound LocksOwned EndsExact
PROPERTIES PlainDestroySpares ImplementsFifo
\* every thread may wait for an event, a match or a lock that nobody gives it
CHECK_DEADLOCK FALSE
