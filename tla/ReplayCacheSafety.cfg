SPECIFICATION FairSpec
CONSTANTS
    Threads = {t1, t2}
    Nonces = {x1, x2, x3}
    ShortNonce = short
    Junk = junk
    InitialCap = 1
    MaxCap = 4
    Locked = TRUE
INVARIANTS
    TypeOK
    StoreInBounds
    NoDuplicateNonce
PROPERTIES
    ReusedNonceRejected
    ImplementsRegister
    EveryCheckReturns
