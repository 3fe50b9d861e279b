SPECIFICATION TimerFairSpec
CONSTANTS
    Timers = {t1, t2}
    Nothing = Nothing
    Duration = 1
    RetryDelay = 1
    RestoreDelay = 1
    Window = 2
    Patience = 3
    MaxTime = 3
    MaxLives = 1
    MaxPosts = 2
    MaxDeleted = 0
    MaxErrors = 1
PROPERTIES
    AlwaysEnded
