CONSTANTS
    k1 = k1
    k2 = k2
    k3 = k3
    d1 = d1
    d2 = d2
    t1 = t1
    t2 = t2
    NULL = NULL
    Keys = {k1, k2, k3}
    Delegations = {d1}
    Grant <- MCGrant
    Nonces = {1}
    Threads = {t1, t2}
    MaxLog = 4
    MaxTime = 0
    Skew = 0
    MaxLifetime = 2
SYMMETRY MCSymmetry
SPECIFICATION Spec
INVARIANTS
    TypeOK
    TablesExplained
    ReplayAgrees
    KeyErasPartition
    RotationsChain
    AckConsumesOnlyItself
PROPERTY
    AuthorityOnlyAdvances
