SPECIFICATION Spec
CONSTANTS
    Script <- FullHandshake
    RecLen = 3
    InitPacketSize = 3
    PacketSize = 3
    InitAppSize = 3
    AppSize = 3
    WrapFaults = FALSE
    Fragmented = TRUE
    PeerMay = {"app"}
    MaxRecords = 4
    AppOutSize = 3
    AppInSize = 1
    SendSizes = {1, 3}
    StackLimit = 12
    MaxCalls = 3
    EofThrows = TRUE
    ReadLength = 2
INVARIANTS
    UnderflowMakesRoom
CHECK_DEADLOCK FALSE
