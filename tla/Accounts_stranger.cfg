CONSTANTS
    alice = alice
    Alice = Alice
    bob = bob
    short = short
    long72 = long72
    long73 = long73
    r1 = r1
    r2 = r2
    l = l
    m = m
    Calls = {r1, r2, l, m}
    MayAsk <- OneOfEach
    Emails = {alice, bob}
    Lower <- Spellings
    Passwords = {short}
    LongOnes = {}
    Head <- Bytes
    Secrets = {s1}
    TTL = 1
    MaxTime = 0
    MaxEvents = 1
    None = None
SPECIFICATION Spec
SYMMETRY Alike
INVARIANTS
    MeNeverStranger
CHECK_DEADLOCK FALSE
