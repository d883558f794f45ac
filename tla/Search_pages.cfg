CONSTANTS
    Nil = Nil
    Reader = alice
    Users = {alice, bob}
    Dates = {1, 2}
    Contents <- Special
    Fold <- Folded
    Tags = {1, 2}
    Names = {"go", "aws", "rust"}
    Searches <- Conditions
    MaxNotes = 3
    MaxWrites = 2
SPECIFICATION Spec
INVARIANTS
    IInv
    PagesOnlyShift
PROPERTIES
    PageIsRight
CHECK_DEADLOCK FALSE
