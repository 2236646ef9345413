SPECIFICATION Spec
CONSTANTS
    va = va
    vb = vb
    vc = vc
    vd = vd
    ve = ve
    Robots = {1, 2}
    Locations = {va, vb, vc, vd, ve}
    Q = 2
    Releases <- ThreeTasks
    Start <- Ends
    Dist <- LineDist
    Messages <- Overrides
    Resolvable <- Known
INVARIANTS
    PublishedIsCurrent
PROPERTIES
    HistoryExtends
    NoNoopPublication
