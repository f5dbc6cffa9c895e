SPECIFICATION Spec
CONSTANTS
    Device = {d1}
    ApplyMode = "snapshot"
    Disturbances = {"restart", "drop"}
    MaxChanges = 2
    MaxEvents = 2
    MaxLoss = 1
PROPERTIES SkipsOnlyDuplicates
CHECK_DEADLOCK FALSE
