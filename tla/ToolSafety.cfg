SPECIFICATION Spec
CONSTANTS
    NULL = NULL
    CommandLines <- MCCommandLines
    Certificates <- MCCertificates
    MemoryFails = TRUE
INVARIANTS
    TypeOK
    ZeroMeansDelegated
    EverythingFreed
CHECK_DEADLOCK FALSE
