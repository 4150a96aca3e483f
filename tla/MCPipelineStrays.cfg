\* rsh_execute_pipeline when a fork fails.
SPECIFICATION Spec
CONSTANTS
    N = 2
    Locals = {FALSE}
    d1 = d1
    d2 = d2
    h = h
    Data <- TwoUnits
    Helds <- Terminal
    Cap = 1
    Codes = {0, 3}
    Faults = {"fork"}
INVARIANT
    AllWaitedFor
\* A pipeline runs once.
CHECK_DEADLOCK FALSE
