SPECIFICATION FairSpec
CONSTANTS
    Script <- FullHandshake
    RecLen = 2
    InitPacketSize = 4
    PacketSize = 4
    InitAppSize = 1
    AppSize = 2
    WrapFaults = TRUE
    Fragmented = FALSE
    PeerMay = {"app", "empty", "close", "bad", "fin", "reset"}
    MaxRecords = 5
    AppOutSize = 3
    AppInSize = 1
    SendSizes = {1, 3}
    StackLimit = 9
    MaxCalls = 3
INVARIANTS
    NoStackOverflow
PROPERTIES
    HandshakeCompletes
    ReceiveReturns
CHECK_DEADLOCK FALSE
