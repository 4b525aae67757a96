SPECIFICATION FairSpec
CONSTANTS
    None = None
    Attempt = {a1, a2, a3}
    MaxCancels = 2
    MaxStalls = 1
    MaxDbErrors = 1
INVARIANTS OneTurn AnswerIsRecorded
PROPERTIES CancelHolds TerminalIsFinal Answered
CHECK_DEADLOCK FALSE
