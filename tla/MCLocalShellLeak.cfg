\* Lines with more arguments than argv holds.
SPECIFICATION Spec
CONSTANTS
    Letters <- MCLetters
    CMD_MAX = 3
    BuffSize = 8
    Faults = {}
    Sessions <- TooMany
    MaxTexts = 5
    Codes = {0, 3}
    EXIT_CMD <- Exits
    CD_CMD <- Cd
    RC_CMD <- Rc
    DRAGON_CMD <- Dragon
    Missing <- NotThere
    Reader <- Reads
INVARIANT
    NothingAllocatedAtPrompt
\* A shell ends.
CHECK_DEADLOCK FALSE
