SPECIFICATION FairSpec
CONSTANTS
    Clients = {c1, c2}
    NoClient = NoClient
    Pieces = 2
    HangAt = {"auth", "write", "read"}
CHECK_DEADLOCK FALSE
INVARIANTS
    TypeOK
    AcceptedAreClosed
    AnswersWholeMessages
PROPERTIES
    EveryClientEnds
    HungHandshakeBlocksAll
