SPECIFICATION TimerFairSpec
CONSTANTS
    Timers = {t1}
    Nothing = Nothing
    Duration = 1
    RetryDelay = 1
    RestoreDelay = 1
    Window = 2
    Patience = 1
    MaxTime = 3
    MaxLives = 2
    MaxPosts = 4
    MaxDeleted = 1
    MaxErrors = 1
INVARIANTS
    OnePost
PROPERTIES
    CancelWins
    Ended
