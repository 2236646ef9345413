SPECIFICATION Spec
CONSTANTS
    r1 = r1  r2 = r2  a = a  b = b  c = c  d = d
    Robots = {r1, r2}
    Vertices = {a, b, c, d}
    Rank <- MCRank
    Arcs <- MCSiding
    Assignments <- MCAssignments
    OrderCarried = FALSE
    MaxSteps = 3
    MaxWait = 1
    MaxGoals = 1
INVARIANTS TypeOK PublishedCompiles LatestAttempted
PROPERTIES AttemptsPublish ScopeKept BaselineHonoured
CHECK_DEADLOCK FALSE
