SPECIFICATION Spec
CONSTANTS
    a1 = a1
    s1 = s1
    s2 = s2
    Agent = {a1}
    Session = {s1, s2}
    Owner <- OneOwner
    Actor = {x, y}
    BaseLevel = {0, 4}
    Threshold = {1, 2}
    ThresholdFloor = 1
    DefaultThreshold = 2
    Calibration = 1
    DualKeyTtl = 1
    Pause2 = 1
    Pause3 = 1
    Pause4 = 1
    MaxTime = 2
    MaxFaults = 1
    MaxProposals = 2
INVARIANTS DecisionsDurable TwoKeysToLower LockFollowsSessions
PROPERTY EscalatesWhenDue
SYMMETRY MonitorSymmetry
CHECK_DEADLOCK FALSE
