\* A pod is created between the poll of the containers and that of the pods.
SPECIFICATION Spec
CONSTANTS
    CmdType = {"CONTAINER_STOP", "CONTAINER_START", "CONTAINER_RESTART", "POD_STOP", "POD_START", "POD_RESTART"}
    NoName = NoName
    Name <- MCName
    MaxRequests = 0
    BUSY_COUNTDOWN_CYCLES = 2
    c1 = c1
    c2 = c2
    p1 = p1
    n1 = n1
    n2 = n2
    w1 = w1
    w2 = w2
    g1 = g1
    Ctr = {c1}
    Pod = {p1}
    Net = {}
    NoPod = NoPod
    PodOf <- MCPodOf
    NameOf <- MCNameOf
    Infra = {}
    Nameless = {}
    Subnets <- MCSubnets
    Bytes <- DistinctBytes
    Replies = {"ok"}
    Marks = {"STOPPING", "STARTING", "RESTARTING"}
    Changes = {"containers", "pods"}
    MaxEvents = 2
    MaxCalls = 0
    Requests = {}
INVARIANT
    UnknownPodOnlyWarns
CHECK_DEADLOCK FALSE
