SPECIFICATION Spec
CONSTANTS
    Agent = {a1, a2}
    CascadeThreshold = 2
    ApiOps = {"kill_all", "pause", "quarantine", "resume"}
    Triggers <- AllLevelTriggers
    GateEnabled = TRUE
    MaxOverlaps = 0
    MaxRequests = 2
    MaxTriggers = 2
    MaxIoErrors = 2
    MaxCrashes = 1
CHECK_DEADLOCK FALSE
INVARIANTS ReportedInForce ReportedDurable ReportedKillHoldsGate AccessFollowsLevel
PROPERTIES CascadeComplete
