SPECIFICATION Spec
CONSTANTS
    Device = {d1, d2}
    ApplyMode = "mirror"
    Disturbances = {"drop", "link", "socket", "restart", "timeout"}
    MaxChanges = 1
    MaxEvents = 2
    MaxLoss = 1
SYMMETRY Symmetry
INVARIANTS AnnouncedAreRecipients
CHECK_DEADLOCK FALSE
