CONSTANTS
    Procs = {p1, p2}
    Users = {u1}
    Names = {"a", "b", "c"}
    Texts = {x1}
    Calls <- CountCalls
    MaxCalls = 3
    MaxClock = 0
SPECIFICATION Spec
PROPERTIES
    RenameCountIsCurrent
CHECK_DEADLOCK FALSE
