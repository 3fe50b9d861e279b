SPECIFICATION TimerSpec
CONSTANTS
    Timers = {t1}
    Nothing = Nothing
    Duration = 1
    RetryDelay = 1
    RestoreDelay = 1
    Window = 2
    Patience = 4
    MaxTime = 6
    MaxLives = 1
    MaxPosts = 2
    MaxDeleted = 0
    MaxErrors = 0
INVARIANTS
    OnePost
