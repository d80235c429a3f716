SPECIFICATION Spec
CONSTANTS
    PPUs = {p1, p2}
    SPUs = {s1, s2}
    None = None
    Width = 3
    MaxCount = 1
    Marked = TRUE
SYMMETRY ThreadSymmetry
INVARIANTS TypeOK NoLostCount  NoLostEvent MutualExclusion
PROPERTIES TicketsAdvance
\* an SPU may wait for an event that nobody raises
CHECK_DEADLOCK FALSE
