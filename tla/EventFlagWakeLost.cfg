SPECIFICATION Spec
CONSTANTS
    Tasks = {t1, t2}
    Setters = {}
    Callers = {c1}
    Bits = {a}
    NumSlots = 2
    AnyOf = {{a}}
    AllOf = {}
    Prompt = FALSE
INVARIANTS TasksToldOfBits
\* every task may sleep
CHECK_DEADLOCK FALSE
