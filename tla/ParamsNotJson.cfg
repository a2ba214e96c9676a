CONSTANTS
    NestingLimit = 2
    DefaultSize = 6
    PrintMax = 40
    TextLength = 4
    LiteralLength = 3
    Again = TRUE
    Calls <- Requests
SPECIFICATION FairSpec
INVARIANT
    OnlyJsonAccepted
