\* One call, about a pod by the id that the list shows.
SPECIFICATION FairSpec
CONSTANTS
    CmdType = {"CONTAINER_STOP", "CONTAINER_START", "CONTAINER_RESTART", "POD_STOP", "POD_START", "POD_RESTART"}
    NoName = NoName
    Name <- MCName
    MaxRequests = 1
    BUSY_COUNTDOWN_CYCLES = 2
    c1 = c1
    c2 = c2
    p1 = p1
    n1 = n1
    n2 = n2
    w1 = w1
    w2 = w2
    g1 = g1
    Ctr = {c1}
    Pod = {p1}
    Net = {}
    NoPod = NoPod
    PodOf <- MCPodOf
    NameOf <- MCNameOf
    Infra = {}
    Nameless = {}
    Subnets <- MCSubnets
    Bytes <- DistinctBytes
    Replies = {"ok"}
    Marks = {"STOPPING", "STARTING", "RESTARTING"}
    Changes = {"run"}
    MaxEvents = 0
    MaxCalls = 1
    Requests <- PodRequests
PROPERTY
    PodIdAccepted
CHECK_DEADLOCK FALSE
