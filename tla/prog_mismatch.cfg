SPECIFICATION FairSpec
CONSTANTS
    Algorithms <- ProgAlgorithms
    MAXBUF = 48
    MAX_MASKSIZE = 16
    MaxFaults = 1
    LinkFaults = FALSE
INVARIANT PassMatched
CHECK_DEADLOCK FALSE
