SPECIFICATION FairSpec
CONSTANTS
    Byte <- MCByte
    MarkLog <- MCMarkLog
    MarkRsp <- MCMarkRsp
    TypeImu <- MCTypeImu
    Message <- MCMessage
    Sizes = {0, 1}
    Fills = {0}
    TtyRxBuf = 4
    RxBuff = 9
    MaxMessages = 2
    MaxNoise = 0
PROPERTY ReturnsToSelect
CHECK_DEADLOCK FALSE
