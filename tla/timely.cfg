SPECIFICATION FairSpec
CONSTANTS
    NumCmds = 4
    Fds = {3, 4, 5}
    MaxFiles = 2
    NDEBUG = TRUE
    LateAnswers = FALSE
INVARIANTS
    TypeOK
    FailsOnlyWhenLost
    CopyOnlyWhileSubscribed
    NeverNotifiesFile
PROPERTY ImplementsCalls
