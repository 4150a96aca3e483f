\* One command at a time, killed or failing anywhere.
SPECIFICATION Spec
CONSTANTS
    Procs = {p1}
    MaxId = 2
    Inodes = {1, 2, 3, 4}
    NoFile = nofile
    Ops <- AllOps
    Args <- AnyId
    MaxCommands = 5
    Exclusive = TRUE
    MayDie = TRUE
    Faults <- AllFaults
INVARIANTS
    TypeOK OwnSlot AnswersAreTrue
PROPERTIES
    ImplementsMap
\* The bound on commands ends every behaviour.
CHECK_DEADLOCK FALSE
