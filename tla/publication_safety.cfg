SPECIFICATION Spec
CONSTANTS
    nodeO = nodeO
    nodeR = nodeR
    nodeS = nodeS
    endpoint1 = endpoint1
    endpoint2 = endpoint2
    Origin = nodeO
    Nodes <- TwoRelays
    ContentKinds = {"accepted"}
    MaxContent <- OneEvent
    MaxLives <- AllLose
    MAX_FEDERATION_EVENTS = 2
    Endpoints = {endpoint1}
    Publishers = {"loop", "command"}
    NULL = NULL
    BatchSize = 1
    MaxPages = 2
    MaxFaults = 1
    MaxMoves = 1
    DesiredChoices = {2}
INVARIANTS
    AcknowledgedIsRetained
    AcknowledgedIsOwn
PROPERTY AcknowledgementOnlyAdvances
CHECK_DEADLOCK FALSE
