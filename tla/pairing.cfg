SPECIFICATION FairSpec
CONSTANTS
    Attempt = {a1, a2}
    Nobody = Nobody
    Disturbances = {"link", "giveup", "timeout", "expire", "crash"}
    MaxCodes = 2
    MaxEvents = 2
INVARIANTS TypeOK CodePairsOnce PairedIsApproved ApprovalOnItsWay
PROPERTIES RequestIsAnswered
CHECK_DEADLOCK FALSE
