\* Two names and two types keep the four kinds of neighbours in the deque: same command,
\* same name, same type, neither.  Three commands: one in execution, one behind it, one
\* that repeats either.
SPECIFICATION FairSchedSpec
CONSTANTS
    CmdType = {"CONTAINER_STOP", "POD_START"}
    Name = {n1, n2}
    NoName = NoName
    MaxRequests = 3
INVARIANTS
    SchedTypeOK
    HeldDuringCall
    InOrder
    RequestsHonoured
PROPERTIES
    ImplementsService
    ServiceIsLive
CHECK_DEADLOCK TRUE
