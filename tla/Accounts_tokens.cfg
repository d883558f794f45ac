CONSTANTS
    alice = alice
    Alice = Alice
    bob = bob
    short = short
    long72 = long72
    long73 = long73
    r1 = r1
    r2 = r2
    l = l
    m = m
    Calls = {r1, r2, l, m}
    MayAsk <- OneOfEach
    Emails = {alice, Alice}
    Lower <- Spellings
    Passwords = {short, long72, long73}
    LongOnes = {long73}
    Head <- Bytes
    Secrets = {s1, s2}
    TTL = 1
    MaxTime = 1
    MaxEvents = 1
    None = None
SPECIFICATION Spec
SYMMETRY Alike
INVARIANTS
    OnePerAddress
    RegisterHonest
    LoginProof
    LoginUniform
    TokenSound
    MeOwner
    IInv
CHECK_DEADLOCK FALSE
