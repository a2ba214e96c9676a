SPECIFICATION DirectSpec
CONSTANTS
    NULL = NULL
    alice = alice
    bob = bob
    edna = edna
    agent1 = agent1
    agent2 = agent2
    IntMax = 3
    LongMax = 15
    MaxCapabilities = 2
    MaxConstraints = 1
    Keys <- MCKeys
    KeyType <- MCKeyType
    Delegations <- MCDelegations
    MemoryFails = FALSE
    DirectRequests <- MCRequests
INVARIANT
    UnknownVersionRejected
