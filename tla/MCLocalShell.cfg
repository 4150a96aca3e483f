\* Every short line for the parser, and sessions of all four loops.
SPECIFICATION Spec
CONSTANTS
    Letters <- MCLetters
    CMD_MAX = 3
    BuffSize = 8
    Faults = {"malloc", "fork"}
    Sessions <- MCSessions
    MaxTexts = 5
    Codes = {0, 3}
    EXIT_CMD <- Exits
    CD_CMD <- Cd
    RC_CMD <- Rc
    DRAGON_CMD <- Dragon
    Missing <- NotThere
    Reader <- Reads
INVARIANTS
    TypeOK FitsBuffer FitsArrays ParseIsMeaning HeapIsFreed RcIsLatest
    EachLineOnce OutputFaithful
PROPERTIES
    EndsUnlessSeeking
\* A shell ends.
CHECK_DEADLOCK FALSE
