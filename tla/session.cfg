SPECIFICATION SessionSpec
CONSTANTS
    Algorithms <- SessionAlgorithms
    Images <- MCImages
    MAXSTACK = 3
    MAXBUF = 48
    MAX_MASKSIZE = 16
    MaxFaults = 3
    LinkFaults = TRUE
INVARIANTS
    TypeOK
    MatchesTree
    ReadsInBody
    PassIsClean
    PassDeselects
    ErroneousRejected
    HeaderGate
    HeaderSound
    StatusTells
    LeftOn
    NestFits
    CodeTold
PROPERTIES
    BodyIntact
    PassOnlyAtEnd
    Ends
CHECK_DEADLOCK FALSE
