\* Two clients, one of which may be killed at any time; any output, commands that read their input included.
SPECIFICATION Spec
CONSTANTS
    Clients = {c1, c2}
    Nobody = nobody
    Lines <- FewLinesAndReader
    MaxLines = 2
    MaxOut = 2
    OutBytes <- AnyOutput
    Codes = {1}
    Backlog = 1
    MayKill = {c1}
    Faults = {}
INVARIANTS
    TypeOK QuietAtPrompt ScreenIsTheOutput RcIsOwn
PROPERTIES
    EndsOnlyWithCause
\* Clients end, and then an idle server waits in accept for ever.
CHECK_DEADLOCK FALSE
