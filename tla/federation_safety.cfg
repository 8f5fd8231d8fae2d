SPECIFICATION FedSpec
CONSTANTS
    nodeA = nodeA
    nodeB = nodeB
    Nodes <- MCNodes
    ContentKinds = {"accepted"}
    MaxContent <- MCMaxContent
    MaxLives <- MCMaxLives
    MAX_FEDERATION_EVENTS = 2
INVARIANTS
    FedTypeOK
    StoredChainIsSigned
    EvidenceIsSound
    EachEventAnnouncedOnce
    WitnessesAreEarned
    RelayAlwaysServes
PROPERTY ImplementsReplicas
CHECK_DEADLOCK FALSE
