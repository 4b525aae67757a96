SPECIFICATION Spec
CONSTANTS
    Agent = {a1}
    CascadeThreshold = 2
    ApiOps = {"pause"}
    Triggers <- QuarantineTriggers
    GateEnabled = FALSE
    MaxOverlaps = 1
    MaxRequests = 1
    MaxTriggers = 1
    MaxIoErrors = 0
    MaxCrashes = 0
CHECK_DEADLOCK FALSE
INVARIANT LevelsNeverDrop
