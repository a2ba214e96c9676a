SPECIFICATION Spec
CONSTANTS
    Addresses = {a1, a2, a3}
    FirstCap = 1
    MaxCap = 4
    Sessions = {s1, s2}
    Chains <- MCChains
    Flags <- MCFlags
    None = none
INVARIANTS
    TypeOK
    RegistryOK
    AskedInForce
    FollowsFlags
    StockFailureStands
SYMMETRY
    Symmetry
