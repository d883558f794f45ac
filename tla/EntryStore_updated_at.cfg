CONSTANTS
    Procs = {p1, p2}
    Users = {u1}
    Names = {"a", "b", "c"}
    Texts = {x1}
    Calls <- ClockCalls
    MaxCalls = 3
    MaxClock = 2
SPECIFICATION Spec
PROPERTIES
    UpdatedAtAdvances
CHECK_DEADLOCK FALSE
