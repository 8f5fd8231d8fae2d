SPECIFICATION Spec
CONSTANTS
    nodeA = nodeA
    nodeB = nodeB
    nodeC = nodeC
    Nodes <- RelayNodes
    ContentKinds = {"accepted"}
    MaxContent <- RelayContent
    MaxLives <- RelayLives
    MAX_FEDERATION_EVENTS = 2
    Routes <- RelayRoutes
    Pushes <- RelayPushes
    BatchSize = 1
    MaxPages = 2
    MaxFailures = 1
INVARIANTS
    RelayPreservesOrigin
CHECK_DEADLOCK FALSE
