SPECIFICATION FairSpec
CONSTANTS
    Algorithms <- TruncatedAlgorithms
    MAXBUF = 48
    MAX_MASKSIZE = 16
    MaxFaults = 1
    LinkFaults = FALSE
PROPERTY Terminates
CHECK_DEADLOCK FALSE
