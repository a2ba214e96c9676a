CONSTANTS
    NULL = NULL
    IntMax = 32767
    LongMax = 40000
    MaxCapabilities = 2
    MaxConstraints = 2
    Sections <- MCSections
    Extensions <- MCExtensions
    HexPrefixed <- MCHexPrefixed
    HexBytes <- MCHexBytes
    HexText <- MCHexText
    NumRoom = 4
    DerValue <- MCDerValue
SPECIFICATION Spec
INVARIANTS
    TypeOK
    BuffersFit
    ResultIsReading
    NothingElseLost
    ListingPrinted
    ReadsBack
PROPERTIES
    FreedOnce
