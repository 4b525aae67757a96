SPECIFICATION Spec
CONSTANTS
    Agent = {a1}
    CascadeThreshold = 2
    ApiOps = {"kill_all", "pause", "quarantine", "resume"}
    Triggers <- EscalatingTriggers
    GateEnabled = FALSE
    MaxOverlaps = 2
    MaxRequests = 2
    MaxTriggers = 1
    MaxIoErrors = 1
    MaxCrashes = 1
CHECK_DEADLOCK FALSE
INVARIANTS ReportedInForce
PROPERTIES QuarantineLiftedByReview
