\* One container in one pod.  Two exec calls of any kind can follow, meet or repeat each
\* other in the queue, and every way an answer fails disturbs a refresh at any point.  The
\* engine stays as it is: what its changes do is in the other runs.
SPECIFICATION Spec
CONSTANTS
    CmdType = {"CONTAINER_STOP", "CONTAINER_START", "CONTAINER_RESTART", "POD_STOP", "POD_START", "POD_RESTART"}
    NoName = NoName
    Name <- MCName
    MaxRequests = 2
    BUSY_COUNTDOWN_CYCLES = 2
    c1 = c1
    c2 = c2
    p1 = p1
    n1 = n1
    n2 = n2
    w1 = w1
    w2 = w2
    g1 = g1
    Ctr = {c1}
    Pod = {p1}
    Net = {n1}
    NoPod = NoPod
    PodOf <- MCPodOf
    NameOf <- MCNameOf
    Infra = {}
    Nameless = {}
    Subnets <- MCSubnets
    Bytes <- DistinctBytes
    Replies = {"ok", "fails", "odd"}
    Marks = {"STOPPING", "STARTING", "RESTARTING"}
    Changes = {}
    MaxEvents = 0
    MaxCalls = 2
    Requests <- AllRequests
INVARIANTS
    TypeOK
    CountdownOnlyWhenIdle
    SentAsRead
PROPERTIES
    KeepsToScheduler
    KeepsToPodman
CHECK_DEADLOCK FALSE
