CONSTANTS
    Reqs = {w1, w2}
    Writes = {w1, w2}
    Checks = {}
    MaxConns = 2
    MaxOutages = 1
    None = None
SPECIFICATION Spec
SYMMETRY WritersAlike
INVARIANTS
    SignalIsGraceful
CHECK_DEADLOCK FALSE
