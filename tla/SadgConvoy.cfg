SPECIFICATION FairSpec
CONSTANTS
    r1 = r1
    r2 = r2
    r3 = r3
    a = a
    b = b
    c = c
    d = d
    f = f
    Robots = {r1, r2, r3}
    Vertices = {a, b, c, d, f}
    Start <- StartConvoy
    Plans <- ConvoyThenRefused
    StopEdges <- NoEdges
    MaxLost = 0
INVARIANTS
    TypeOK
    VertexExclusion
    NoHeadOn
    AckReflected
PROPERTIES
    ReleaseStable
    VisitOrderKept
    PlanCompletes
