\* Two networks whose texts have the same sum: one goes and the other comes.
SPECIFICATION FairSpec
CONSTANTS
    CmdType = {"CONTAINER_STOP", "CONTAINER_START", "CONTAINER_RESTART", "POD_STOP", "POD_START", "POD_RESTART"}
    NoName = NoName
    Name <- MCName
    MaxRequests = 0
    BUSY_COUNTDOWN_CYCLES = 2
    c1 = c1
    c2 = c2
    p1 = p1
    n1 = n1
    n2 = n2
    w1 = w1
    w2 = w2
    g1 = g1
    Ctr = {}
    Pod = {}
    Net = {n1, n2}
    NoPod = NoPod
    PodOf <- MCPodOf
    NameOf <- MCNameOf
    Infra = {}
    Nameless = {}
    Subnets <- MCSubnets
    Bytes <- AnagramBytes
    Replies = {"ok"}
    Marks = {"STOPPING", "STARTING", "RESTARTING"}
    Changes = {"networks"}
    MaxEvents = 2
    MaxCalls = 0
    Requests = {}
PROPERTY
    NetworksCompared
CHECK_DEADLOCK FALSE
