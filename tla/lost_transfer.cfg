SPECIFICATION FairSpec
CONSTANTS
    Algorithms <- MCAlgorithms
    MAXBUF = 48
    MAX_MASKSIZE = 16
    MaxFaults = 1
    LinkFaults = TRUE
INVARIANT PassDelivered
CHECK_DEADLOCK FALSE
