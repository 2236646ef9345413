SPECIFICATION Spec
CONSTANTS
    r1 = r1
    r2 = r2
    r3 = r3
    a = a
    b = b
    c = c
    d = d
    f = f
    Robots = {r1, r2}
    Vertices = {a, b, c, d, f}
    Start <- StartThrough
    Plans <- ThereAndBack
    StopEdges <- NoEdges
    MaxLost = 0
INVARIANTS
    BitsTrue
