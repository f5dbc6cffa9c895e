SPECIFICATION FairSpec
CONSTANTS
    p1 = p1
    p2 = p2
    Path = {p1, p2}
    Requests <- MCRequests
    j1 = j1
    j2 = j2
    Job = {j1, j2}
    NoRow = NoRow
    MaxVersions = 2
    MaxBatches = 2
    Disturbances = {"edit", "fault", "delete", "crash", "catalog"}
    MaxEvents = 2
INVARIANTS TypeOK ReadyIsIndexed UnsettledIsOwned
PROPERTIES WorkSettles
CHECK_DEADLOCK FALSE
