SPECIFICATION FairSpec
CONSTANTS
    MaxCalls = 2
    IoThreads = 2
CHECK_DEADLOCK FALSE
INVARIANTS
    TypeOK
    DeadlineArmed
PROPERTIES
    ImplementsRemoteCall
    WaitingEnds
