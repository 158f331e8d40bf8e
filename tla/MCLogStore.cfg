\* The first message and enough others to fill the store twice over, at a level of each kind.
SPECIFICATION Spec
CONSTANTS
    Types = {"info", "error", "verbose", "debug"}
    Msgs = {"a", "b", "registering"}
    Logged <- MCLogged
    Registering = "registering"
    HandlerLogs <- MCHandlerLogs
    Levels <- MCLevels
    MaxSize = 3
    MaxMessages = 7
INVARIANTS
    LogTypeOK
    NoRepeats
    CountsRight
    NothingUnseen
CHECK_DEADLOCK FALSE
