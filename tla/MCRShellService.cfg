\* Plain output and every kind of line: the abstract service and its liveness.
SPECIFICATION FairSpec
CONSTANTS
    Clients = {c1, c2}
    Nobody = nobody
    Lines <- AllLines
    MaxLines = 2
    MaxOut = 1
    OutBytes <- PlainOutput
    Codes <- SomeCodes
    Backlog = 1
    MayKill = {c1}
    Faults = {"boot", "accept"}
PROPERTIES
    ImplementsService WaitEndsUnlessReading
CHECK_DEADLOCK FALSE
