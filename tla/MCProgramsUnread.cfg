\* minigrep's read fails.  Its buffer holds two characters and the 0.
SPECIFICATION Spec
CONSTANTS
    Chars <- MCChars
    Calls <- UnreadCalls
    Faults = {"read"}
    LINE_BUFFER_SZ = 3
    tolower <- MCtolower
    atoi <- MCatoi
    IpSize = 4
    RDSH_DEF_PORT = 1234
INVARIANT
    ReadErrorIsReported
\* The programs end.
CHECK_DEADLOCK FALSE
