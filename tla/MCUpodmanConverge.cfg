\* Three changes: a container can go, come back and change before the view is refreshed, a
\* pod can go and come with it, a network between them.  Sums of texts differ:
\* NetworksCompared shows what follows when they do not.  The first network has two subnets,
\* of which the view keeps one while it is alone.
SPECIFICATION FairSpec
CONSTANTS
    CmdType = {"CONTAINER_STOP", "CONTAINER_START", "CONTAINER_RESTART", "POD_STOP", "POD_START", "POD_RESTART"}
    NoName = NoName
    Name <- MCName
    MaxRequests = 0
    BUSY_COUNTDOWN_CYCLES = 2
    c1 = c1
    c2 = c2
    p1 = p1
    n1 = n1
    n2 = n2
    w1 = w1
    w2 = w2
    g1 = g1
    Ctr = {c1, c2}
    Pod = {p1}
    Net = {n1, n2}
    NoPod = NoPod
    PodOf <- MCPodOf
    NameOf <- MCNameOf
    Infra = {}
    Nameless = {}
    Subnets <- MCSubnets
    Bytes <- DistinctBytes
    Replies = {"ok"}
    Marks = {"STOPPING", "STARTING", "RESTARTING"}
    Changes = {"run", "containers", "pods", "networks"}
    MaxEvents = 3
    MaxCalls = 0
    Requests = {}
PROPERTY
    Converges
CHECK_DEADLOCK FALSE
