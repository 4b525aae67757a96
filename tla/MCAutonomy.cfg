SPECIFICATION FairSpec
CONSTANTS
    a1 = a1
    a2 = a2
    wf = wf
    hb = hb
    nt = nt
    Agent = {a1, a2}
    Worker = {w1}
    Job = {wf, hb, nt}
    AgentOf <- JobAgents
    Kind <- JobKinds
    ApprovalJob = {wf}
    Control = {"clear", "approval", "pause", "quarantine", "quiet", "suppress"}
    GlobalConcurrency = 2
    PerAgentConcurrency = 1
    Attempts = 1
    MaxDue <- JobDues
    MaxFaults = 1
INVARIANTS SlotsAccounted LeasesAreDispatched NoOverlap EffectOncePerRun ApprovalBeforeEffect
PROPERTIES DueJobsSettle
CHECK_DEADLOCK FALSE
