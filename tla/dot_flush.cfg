\* A client that reads, and an upstream that falls silent.
CONSTANTS
    IdleTimeout = 2
    MaxChunks = 2
SPECIFICATION ReadingSpec
PROPERTY AnswersArrive
CHECK_DEADLOCK FALSE
