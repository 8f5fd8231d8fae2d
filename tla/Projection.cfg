SPECIFICATION Spec
CONSTANTS
    A = A
    B = B
    l1 = l1
    l2 = l2
    l3 = l3
    s1 = s1
    s2 = s2
    u1 = u1
    u2 = u2
    d1 = d1
    d2 = d2
    d3 = d3
    d4 = d4
    d5 = d5
    Nodes = {A, B}
    MAX_TITLE_CHARS = 3
    MAX_SUMMARY_CHARS = 4
    MAX_ORIENTATION_PAGE = 2
    MailPage = 1
    CoverageAreas = {"africa"}
    TitleTerms <- MCTitleTerms
    TitleLength <- MCTitleLength
    SummaryLength <- MCSummaryLength
    Scenarios <- MCScenarios
INVARIANTS
    ReplicaMirrorsOrigin
    EveryEventImports
    FederatedStoriesAreWhole
    PromotionIsEarned
    WorkFollowsReports
    CommonsMatchHistory
    MailboxMissesNothing
    ReaderIsCurrent
PROPERTY RevocationIsFinal
CHECK_DEADLOCK FALSE
