SPECIFICATION Spec
CONSTANTS
    nodeO = nodeO
    nodeR = nodeR
    nodeS = nodeS
    endpoint1 = endpoint1
    endpoint2 = endpoint2
    Origin = nodeO
    Nodes <- TwoRelays
    ContentKinds = {"accepted", "refused"}
    MaxContent <- TwoEvents
    MaxLives <- NoLosses
    MAX_FEDERATION_EVENTS = 2
    Endpoints = {endpoint1, endpoint2}
    Publishers = {"loop"}
    NULL = NULL
    BatchSize = 1
    MaxPages = 2
    MaxFaults = 1
    MaxMoves = 0
    DesiredChoices = {1, 2}
INVARIANTS
    TypeOK
    ReplicatedMeansCopies
PROPERTY TargetsCatchUp
CHECK_DEADLOCK FALSE
