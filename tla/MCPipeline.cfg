\* Both functions: three commands, every call may fail.
SPECIFICATION Spec
CONSTANTS
    N = 3
    Locals = {TRUE, FALSE}
    d1 = d1
    d2 = d2
    h = h
    Data <- TwoUnits
    Helds <- EmptyOrLine
    Cap = 1
    Codes = {0, 3}
    Faults = {"pipe", "fork", "exec"}
INVARIANTS
    TypeOK OutputIsComposed ResultIsLast NothingLeft
PROPERTIES
    Returns
\* A pipeline runs once.
CHECK_DEADLOCK FALSE
