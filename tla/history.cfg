SPECIFICATION FairSpec
CONSTANTS
    Flow = {f1, f2}
    PageLimit = 1
    Milli = 2
    PerSecond = 2
    Threads = 2
    Times = {5, 6, 8}
    Disturbances = {"clear", "timeout", "kill"}
    MaxPulls = 2
    MaxEvents = 2
INVARIANTS TypeOK NothingSkipped NoGhosts
PROPERTIES PullIsComplete FlowsEnd
CHECK_DEADLOCK FALSE
