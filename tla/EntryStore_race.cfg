CONSTANTS
    Procs = {p1, p2}
    Users = {u1}
    Names = {"a", "b", "c"}
    Texts = {x1}
    Calls <- ServiceCalls
    MaxCalls = 4
    MaxClock = 1
SPECIFICATION Spec
SYMMETRY ProcsAlike
INVARIANTS
    ForeignKeys
    UniqueNames
    PInv
PROPERTIES
    AnswerIsStored
    JournalSpec
CHECK_DEADLOCK FALSE
