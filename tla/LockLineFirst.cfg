SPECIFICATION Spec
CONSTANTS
    PPUs = {p1}
    SPUs = {s1}
    None = None
    Width = 3
    MaxCount = 1
    Marked = FALSE
PROPERTIES TicketsAdvance
\* an SPU may wait for an event that nobody raises
CHECK_DEADLOCK FALSE
