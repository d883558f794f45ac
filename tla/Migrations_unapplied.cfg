CONSTANTS
    Runners = {r1, r2, r3}
    Counts = {1, 3}
    Ids = {u1}
    NULL = NULL
    None = None
SPECIFICATION Spec
SYMMETRY RunnersAlike
PROPERTIES
    UnappliedIsEmpty
CHECK_DEADLOCK FALSE
