SPECIFICATION Spec
CONSTANTS
    Addresses = {a1}
    FirstCap = 1
    MaxCap = 2
    Sessions = {s1}
    Chains <- MCChains
    Flags <- MCFlags
    None = none
INVARIANT
    OffByDefault
