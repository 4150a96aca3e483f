\* minigrep's buffer holds two characters and the 0.
SPECIFICATION Spec
CONSTANTS
    Chars <- MCChars
    Calls <- MCCalls
    Faults = {"malloc", "read"}
    LINE_BUFFER_SZ = 3
    tolower <- MCtolower
    atoi <- MCatoi
    IpSize = 4
    RDSH_DEF_PORT = 1234
INVARIANTS
    TypeOK CountAnswer GrepAnswer MatchesAreReal ModeAnswer
PROPERTIES
    ProgramsEnd
\* The programs end.
CHECK_DEADLOCK FALSE
