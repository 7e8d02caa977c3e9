SPECIFICATION Spec
CONSTANTS
    Messages <- MixedMessages
    Capacity = 3
CHECK_DEADLOCK FALSE
INVARIANTS
    CharactersSurvive
