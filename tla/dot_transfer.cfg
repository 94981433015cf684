\* A client that is silent while the upstream sends.
CONSTANTS
    IdleTimeout = 2
    MaxChunks = 2
SPECIFICATION Spec
INVARIANT AnswersAreNotCapped
CHECK_DEADLOCK FALSE
