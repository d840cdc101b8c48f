SPECIFICATION Spec
CONSTANTS
    DataFiles <- MCDataFiles
    DATA_BUFFER_SIZE = 2
    D_TOC_NUMBER = 2
    Sizes = {8, 12, 20}
    FrameBytes = 2
    MaxTransfer = 2
    AlgoRows <- MCAlgoRows
    Masks <- MCMasks
    Flips = {0, 7}
    LinkFaults = TRUE
    MidReset = FALSE
INVARIANTS
    TypeOK
    SentPadded
    NoFalseAlarm
    MismatchFound
    PositionsKnown
PROPERTIES
    ImplementsStream
    OpensExactly
    StepsAreTransfers
CHECK_DEADLOCK FALSE
