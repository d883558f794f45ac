CONSTANTS
    alice = alice
    bob = bob
    row = row
    jwtA = jwtA
    jwtB = jwtB
    junk = junk
    Nil = Nil
    NaN = NaN
    Row = row
    TokenOf <- Tokens
    Stored <- Journals
    Oversized <- TooLong
    c1 = c1
    c2 = c2
    Calls = {c1, c2}
    Asks <- AnythingAndMe
SPECIFICATION FairSpec
INVARIANTS
    IInv
    ServiceSeesDesign
    AsAsked
    CommandsAgree
    StatusContract
    OneLine
PROPERTIES
    RpcSpec
    EveryRequestLogged
CHECK_DEADLOCK FALSE
