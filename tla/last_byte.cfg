SPECIFICATION Spec
CONSTANTS
    DataFiles <- MCDataFiles
    DATA_BUFFER_SIZE = 2
    D_TOC_NUMBER = 2
    Sizes = {12, 16}
    FrameBytes = 2
    MaxTransfer = 2
    AlgoRows <- MCAlgoRows
    Masks <- MCMasks
    Flips = {0, 7}
    LinkFaults = FALSE
    MidReset = FALSE
INVARIANT Verified
CHECK_DEADLOCK FALSE
