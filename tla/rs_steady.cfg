SPECIFICATION FairSpec
CONSTANTS
    Device = {d1}
    ApplyMode = "snapshot"
    Disturbances = {"drop", "link", "socket", "open"}
    MaxChanges = 2
    MaxEvents = 2
    MaxLoss = 2
INVARIANTS TypeOK StaleHasCause FreshHints
PROPERTIES CopyIsMonotonic Converges
CHECK_DEADLOCK FALSE
