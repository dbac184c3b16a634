\* When every request is answered, nothing more happens.
SPECIFICATION Spec
CHECK_DEADLOCK FALSE
CONSTANTS
    Callers = {c1, c2}
    Creators = {w1}
    Verifiers = {v1}
    Connections = 2
    Threads = 1
    Free = Free
INVARIANTS
    NoHoldAndWait
    ServedIfFew
PROPERTIES
    EveryRequestAnswered
