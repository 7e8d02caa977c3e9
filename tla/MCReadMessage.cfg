SPECIFICATION FairSpec
CONSTANTS
    Messages <- MixedMessages
    Capacity = 3
CHECK_DEADLOCK FALSE
INVARIANTS
    TypeOK
    EndsAtMarker
PROPERTIES
    ReadMessageEnds
