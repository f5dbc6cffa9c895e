SPECIFICATION FairSpec
CONSTANTS
    Conn = {c1, c2, c3}
    NoConn = NoConn
    Disturbances = {"drop", "crash", "switch", "busy", "stop", "restart"}
    MaxEvents = 2
    MaxMessages = 2
INVARIANTS TypeOK EntryIsLive ConfiguredFirst StopsAreMeant
PROPERTIES RegistryFollowsPlugin
CHECK_DEADLOCK FALSE
