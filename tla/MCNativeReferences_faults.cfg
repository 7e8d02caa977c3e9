SPECIFICATION FairRefSpec
CONSTANTS
    Script <- ShortHandshake
    RecLen = 2
    InitPacketSize = 3
    PacketSize = 7
    InitAppSize = 1
    AppSize = 3
    WrapFaults = TRUE
    Fragmented = TRUE
    PeerMay = {"app", "empty", "close", "bad", "fin", "reset"}
    MaxRecords = 3
    AppOutSize = 4
    AppInSize = 1
    SendSizes = {4, 5}
    StackLimit = 9
    MaxCalls = 3
    EofThrows = FALSE
    ReadLength = 2
INVARIANTS
    TypeOK
    InboundInOrder
    DeliveredInOrder
    OutboundInOrder
    WrittenInOrder
    LocalsBounded
PROPERTIES
    KeepsPromise
    SplitRecordCrashes
CHECK_DEADLOCK FALSE
