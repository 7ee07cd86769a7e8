SPECIFICATION PromptSpec
CONSTANTS
    MaxCalls = 2
    IoThreads = 2
CHECK_DEADLOCK FALSE
PROPERTIES
    ClosesOnlyIdle
