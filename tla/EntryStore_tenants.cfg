CONSTANTS
    Procs = {p1, p2}
    Users = {u1, u2}
    Names = {"a", "b", "c"}
    Texts = {x1}
    Calls <- TenantCalls
    MaxCalls = 3
    MaxClock = 1
SPECIFICATION FairSpec
INVARIANTS
    LinksSameOwner
PROPERTIES
    OtherUsersUntouched
    EntryIdentityFixed
    EveryCallAnswered
CHECK_DEADLOCK FALSE
