\* One client that is killed with its output unread.
SPECIFICATION Spec
CONSTANTS
    Clients = {c1}
    Nobody = nobody
    Lines <- OneCommand
    MaxLines = 1
    MaxOut = 1
    OutBytes <- PlainOutput
    Codes = {0}
    Backlog = 1
    MayKill = {c1}
    Faults = {}
PROPERTIES
    SurvivesDisconnect
CHECK_DEADLOCK FALSE
