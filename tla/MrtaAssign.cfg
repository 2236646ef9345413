SPECIFICATION FairSpec
CONSTANTS
    va = va
    vb = vb
    vc = vc
    vd = vd
    ve = ve
    Robots = {1, 2, 3}
    Locations = {va, vb, vc, vd, ve}
    Q = 2
    Releases <- SixTasks
    Start <- Ends
    Dist <- LineDist
    Messages <- NoMessages
    Resolvable <- NoPairs
INVARIANTS
    TypeOK
    EndpointsExclusive
    CompletionsMatch
    TaskConservation
    NoStrandedPool
    PublishedIsCurrent
PROPERTIES
    HistoryExtends
    EveryTaskServed
