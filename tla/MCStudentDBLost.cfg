\* An add beside a compression.
SPECIFICATION Spec
CONSTANTS
    Procs = {p1, p2}
    MaxId = 2
    Inodes = {1, 2, 3, 4, 5, 6}
    NoFile = nofile
    Ops = {"add", "compress"}
    Args <- GoodIds
    MaxCommands = 3
    Exclusive = FALSE
    MayDie = FALSE
    Faults = {}
INVARIANT
    AddedIsThere
CHECK_DEADLOCK FALSE
