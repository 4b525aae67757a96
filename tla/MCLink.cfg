SPECIFICATION FairSpec
CONSTANTS
    Task = {bridge, reaper}
    Coordinator = {c1, c2}
    FailureThreshold = 2
    StabilityChecks = 1
    BufferSize = 2
    BufferBytes = 2
    Size <- EventSize
    MaxEvents = 3
    MaxOutages = 1
    MaxRejections = 1
INVARIANTS EventsConserved RecoveringHasCoordinator
PROPERTY RecoversWhenMonitorStable
CHECK_DEADLOCK FALSE
