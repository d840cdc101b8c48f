SPECIFICATION Spec
CONSTANTS
    NumCmds = 2
    Fds = {3, 4, 5}
    MaxFiles = 1
    NDEBUG = FALSE
    LateAnswers = FALSE
INVARIANT SubscriptionCleared
