SPECIFICATION Spec
CONSTANTS
    MaxTurns = 1
    Openings = {"joins"}
    WindowSizes = {1}
    Disturbances = {}
    MaxEvents = 0
PROPERTIES FirstTurnIsCounted
CHECK_DEADLOCK FALSE
