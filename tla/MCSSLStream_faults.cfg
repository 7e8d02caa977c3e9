SPECIFICATION FairSpec
CONSTANTS
    Script <- ShortHandshake
    RecLen = 2
    InitPacketSize = 3
    PacketSize = 4
    InitAppSize = 1
    AppSize = 2
    WrapFaults = TRUE
    Fragmented = TRUE
    PeerMay = {"app", "empty", "close", "bad", "fin", "reset"}
    MaxRecords = 3
    AppOutSize = 3
    AppInSize = 1
    SendSizes = {1, 3}
    StackLimit = 9
    MaxCalls = 3
INVARIANTS
    TypeOK
    InboundInOrder
    DeliveredInOrder
    OutboundInOrder
    WrittenInOrder
    NothingLeftBehind
    AuthenticateSettles
    RetryFits
PROPERTIES
    KeepsPromise
    CloseFlushes
    EndOfStreamTraps
    SplitRecordCrashes
    AuthenticateReturns
CHECK_DEADLOCK FALSE
