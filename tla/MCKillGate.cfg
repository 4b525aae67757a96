SPECIFICATION Spec
CONSTANTS
    Node = {n1, n2, n3}
    Thread = {t1, t2, t3}
    Ops = {"close", "ack", "vote", "rollback"}
    QuorumSize = 0
    ClusterSize = 3
    ResumePermitted = TRUE
SYMMETRY Symmetry
INVARIANTS
    ClosureInForce
    QuorumSpentByOpening

    
