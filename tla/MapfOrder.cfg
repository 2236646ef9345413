SPECIFICATION Spec
CONSTANTS
    r1 = r1  r2 = r2  a = a  b = b  c = c  d = d
    Robots = {r1, r2}
    Vertices = {a, b, c}
    Rank <- MCRank
    Arcs <- MCCorridor
    Assignments <- MCOneAssignment
    OrderCarried = TRUE
    MaxSteps = 3
    MaxWait = 1
    MaxGoals = 1
INVARIANTS OrderNamesSteps
CHECK_DEADLOCK FALSE
