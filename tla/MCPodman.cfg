\* A pod with an infra container, a container outside of it and one the parser skips.  One
\* change at the engine can fall before, in or after any refresh; a countdown of two is the
\* shortest in which a cycle does not end the mark.
SPECIFICATION PodmanSpec
CONSTANTS
    BUSY_COUNTDOWN_CYCLES = 2
    c1 = c1
    c2 = c2
    c3 = c3
    p1 = p1
    n1 = n1
    Ctr = {c1, c2, c3}
    Pod = {p1}
    Net = {}
    NoPod = NoPod
    PodOf <- MCPodOf
    NameOf <- MCNameOf
    Infra = {c1}
    Nameless = {c3}
    Subnets <- MCSubnets
    Bytes <- DistinctBytes
    Replies = {"ok", "fails", "odd"}
    Marks = {"STOPPING"}
    Changes = {"run", "containers", "pods", "networks"}
    MaxEvents = 1
INVARIANTS
    PodmanTypeOK
    SnapshotCurrent
    ContainersCoherent
PROPERTY
    OnlyExecArms
CHECK_DEADLOCK FALSE
