CONSTANTS
    Runners = {r1, r2, r3}
    Counts = {0, 3}
    Ids = {u1}
    NULL = NULL
    None = None
SPECIFICATION FairSpec
INVARIANTS
    CleanIsTrue
    DirtyIsNear
    NotesOwned
    IInv
PROPERTIES
    SuccessIsComplete
    SchemaClimbs
    EveryRunEnds
CHECK_DEADLOCK FALSE
