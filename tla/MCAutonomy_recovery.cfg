SPECIFICATION FairSpec
CONSTANTS
    a1 = a1
    a2 = a2
    wf = wf
    hb = hb
    nt = nt
    Agent = {a1}
    Worker = {w1, w2}
    Job = {wf, hb}
    AgentOf <- SharedAgent
    Kind <- SharedKinds
    ApprovalJob = {wf}
    Control = {"clear", "approval", "pause", "quarantine", "quiet", "suppress"}
    GlobalConcurrency = 2
    PerAgentConcurrency = 1
    Attempts = 1
    MaxDue <- SharedDues
    MaxFaults = 1
PROPERTIES LeaseRecovered
CHECK_DEADLOCK FALSE
