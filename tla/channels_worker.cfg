SPECIFICATION FairSpec
CONSTANTS
    Conn = {c1, c2}
    NoConn = NoConn
    Disturbances = {"drop"}
    MaxEvents = 1
    MaxMessages = 2
PROPERTIES QueueIsDrained
CHECK_DEADLOCK FALSE
