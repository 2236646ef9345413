SPECIFICATION FairSpec
CONSTANTS
    r1 = r1  r2 = r2  r3 = r3
    va = va  vb = vb  vc = vc  vd = vd
    Robots = {r1, r2, r3}
    NoRobot = NoRobot
    RobotRank <- Ranks
    Vertices = {va, vb, vc, vd}
    VertexRank <- VertexRanks
    Arcs <- Triangle
    Length <- Lengths
    Pace <- Paces
    Requests <- SearchRequests
    Horizon = 20
    MaxVisits = 4
INVARIANTS TypeOK TravelsDisjoint LegsEarliest
PROPERTIES ParkedAvoided Terminates
CHECK_DEADLOCK FALSE
