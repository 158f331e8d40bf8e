\* Two commands alternating are enough to queue one of them twice.
SPECIFICATION SchedSpec
CONSTANTS
    CmdType = {"CONTAINER_STOP"}
    Name = {n1, n2}
    NoName = NoName
    MaxRequests = 3
SYMMETRY NameSymmetry
INVARIANT
    NoDuplicates
CHECK_DEADLOCK TRUE
