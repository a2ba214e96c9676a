SPECIFICATION MCSpec
CONSTANTS
    NULL = NULL
    alice = alice
    bob = bob
    edna = edna
    agent1 = agent1
    agent2 = agent2
    IntMax = 3
    LongMax = 15
    MaxCapabilities = 2
    MaxConstraints = 1
    Keys <- MCKeys
    KeyType <- MCKeyType
    Delegations <- MCDelegations
    Requests <- MCRequestsOfCert
    DirectRequests <- MCRequests
    MemoryFails = TRUE
    x1 = x1
    x2 = x2
    Callers = {c1, c2}
    Caches = {x1, x2}
INVARIANT
    SkipMeansNoExtension
