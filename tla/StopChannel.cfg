SPECIFICATION FairSpec
CONSTANTS
    r1 = r1
    e1 = e1
    noEdge = noEdge
    Robots = {r1}
    Edges = {e1}
    NoEdge = noEdge
    Lane <- OneLane
    Length = 2
    Occlusion = 1
    Events <- BlockThenClear
    Commits <- SecondPlan
    NOpen = 2
    NClose = 2
    NHold = 3
    MaxAge = 2
    NTraj = 2
    ScanGap = 3
    Disturbances = 1
INVARIANTS
    TypeOK
    DeclarationsPaired
PROPERTIES
    OnsetIsFresh
    HoldRespected
    BlockReported
    ClearReported
