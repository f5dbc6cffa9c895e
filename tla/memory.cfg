SPECIFICATION FairSpec
CONSTANTS
    MaxTurns = 4
    Openings = {"joins", "alone"}
    WindowSizes = {2}
    Disturbances = {"run", "store", "pass", "clear", "kill"}
    MaxEvents = 2
INVARIANTS TypeOK LaterTurnsAreKept TwiceOnlyIfInterrupted
PROPERTIES LaterTurnsEndUpTold
CHECK_DEADLOCK FALSE
