\* Three commands at a time: adds, deletes, resets and lookups beside scans.
SPECIFICATION Spec
CONSTANTS
    Procs = {p1, p2, p3}
    MaxId = 2
    Inodes = {1, 2, 3, 4, 5, 6, 7, 8}
    NoFile = nofile
    Ops = {"add", "del", "zero", "scan", "find"}
    Args <- GoodIds
    MaxCommands = 4
    Exclusive = FALSE
    MayDie = FALSE
    Faults = {}
PROPERTIES
    CountInRange AnswersWereTrue
SYMMETRY Alike
CHECK_DEADLOCK FALSE
