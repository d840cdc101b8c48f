SPECIFICATION FairSpec
CONSTANTS
    Byte <- MCByte
    MarkLog <- MCMarkLog
    MarkRsp <- MCMarkRsp
    TypeImu <- MCTypeImu
    Message <- MCMessage
    Sizes = {1, 2}
    Fills = {1}
    TtyRxBuf = 4
    RxBuff = 9
    MaxMessages = 3
    MaxNoise = 0
PROPERTIES
    ImplementsChannel
    EveryMessageHandled
CHECK_DEADLOCK FALSE
