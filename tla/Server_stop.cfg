CONSTANTS
    Reqs = {w1, w2, h}
    Writes = {w1, w2}
    Checks = {h}
    MaxConns = 2
    MaxOutages = 1
    None = None
SPECIFICATION FairSpec
INVARIANTS
    GracefulStop
    GraceInv
PROPERTIES
    StartDecides
    CheckAnswered
    EveryRequestEnds
    StopEnds
CHECK_DEADLOCK FALSE
