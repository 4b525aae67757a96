SPECIFICATION ClusterSpec
CONSTANTS
    n1 = n1
    n2 = n2
    n3 = n3
    Node <- Nodes
    QuorumSize = 0
    Resumable <- ResumableNodes
    RollsBack <- FailingNodes
    Duplicates = TRUE
    MaxCloses = 2
    Voters <- VotingNodes
INVARIANTS
    ConfirmedMeansAllClosed
PROPERTIES
    OpensOnlyByClusterQuorum
CHECK_DEADLOCK FALSE
