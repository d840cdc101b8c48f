SPECIFICATION FairSpec
CONSTANTS
    Byte <- MCByte
    MarkLog <- MCMarkLog
    MarkRsp <- MCMarkRsp
    TypeImu <- MCTypeImu
    Message <- MCMessage
    Sizes = {1, 2}
    Fills = {0, 1}
    TtyRxBuf = 3
    RxBuff = 9
    MaxMessages = 2
    MaxNoise = 1
INVARIANTS
    TypeOK
    WholeMessages
    BufferBound
CHECK_DEADLOCK FALSE
