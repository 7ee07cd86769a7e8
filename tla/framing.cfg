SPECIFICATION FairSpec
CONSTANTS
    BufferSize = 6
    RecordMax = 12
    Requests <- MCRequests
    ReplySizes <- MCReplySizes
CHECK_DEADLOCK FALSE
INVARIANTS
    TypeOK
    ExecutedWhole
    AnswerWhole
PROPERTIES
    ShortRequestAnswered
