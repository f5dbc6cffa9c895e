SPECIFICATION FairSpec
CONSTANTS
    Row = {r1}
    NoRow = NoRow
    Tick = {t1, t2}
    Chunks = 2
    Disturbances = {"lose", "slow", "cancel", "kill", "clear"}
    MaxEvents = 4
INVARIANTS TypeOK ReadyHasBytes
PROPERTIES WholeOrError EndsUpReady
CHECK_DEADLOCK FALSE
