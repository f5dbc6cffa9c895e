SPECIFICATION FairSpec
CONSTANTS
    Reaction = {r1}
    Handler = {h1, h2}
    Modes = {"swap", "detach"}
    MaxSaves = 3
    MaxKeys = 2
    MaxFailures = 1
INVARIANTS TypeOK EveryChangeIsBuilt
PROPERTIES ProvidersRebindInOrder ChangesReachARebuild
CHECK_DEADLOCK FALSE
