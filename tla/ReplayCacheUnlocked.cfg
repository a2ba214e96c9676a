SPECIFICATION Spec
CONSTANTS
    Threads = {t1, t2}
    Nonces = {x1, x2}
    ShortNonce = short
    Junk = junk
    InitialCap = 2
    MaxCap = 2
    Locked = FALSE
PROPERTY
    ReusedNonceRejected
