SPECIFICATION Spec
CONSTANTS
    nodeA = nodeA
    nodeB = nodeB
    nodeC = nodeC
    Nodes <- MutualNodes
    ContentKinds = {"accepted", "refused"}
    MaxContent <- MutualContent
    MaxLives <- MutualLives
    MAX_FEDERATION_EVENTS = 2
    Routes <- MutualRoutes
    Pushes <- MutualPushes
    BatchSize = 1
    MaxPages = 2
    MaxFailures = 1
INVARIANTS
    TypeOK
    HeldPageStaysImportable
PROPERTY ReplicasConverge
CHECK_DEADLOCK FALSE
