SPECIFICATION Spec
CONSTANTS
    x0 = x0
    x1 = x1
    x2 = x2
    r1 = r1
    run = run
    resume = resume
    None = None
    Attempt <- Attempts
    Key <- Keys
    KeyOf <- Keyed
    ResumeKey = {resume}
    Steps = 3
    RetrySafe = {2}
    Pred <- Predecessors
    Legacy = {x0}
    MaxDbErrors = 1
INVARIANTS UnsafeStepOnce NoSilentRun RecordIsTrue AnswerIsOutcome
CHECK_DEADLOCK FALSE
