SPECIFICATION Spec
CONSTANTS
    Script <- FullHandshake
    RecLen = 2
    InitPacketSize = 3
    PacketSize = 7
    InitAppSize = 1
    AppSize = 3
    WrapFaults = TRUE
    Fragmented = FALSE
    PeerMay = {"app"}
    MaxRecords = 4
    AppOutSize = 3
    AppInSize = 1
    SendSizes = {1, 3}
    StackLimit = 12
    MaxCalls = 3
    EofThrows = TRUE
    ReadLength = 2
INVARIANTS
    ExceptionsReturn
CHECK_DEADLOCK FALSE
