SPECIFICATION Spec
CONSTANTS
    c1 = c1
    c2 = c2
    Clients = {c1, c2}
    Second = 2
    Minute = 3
    Hour = 4
    VOLUNTEER_LEASE = 1
    MAX_RECEIPTS_PER_ARTIFACT = 1
    Scenarios <- MCScenarios
INVARIANTS
    LimitsHold
    RatesAreBounded
    ReceiptsAreKept
PROPERTY EveryRequestEnds
CHECK_DEADLOCK FALSE
