SPECIFICATION TimerSpec
CONSTANTS
    Timers = {t1, t2}
    Nothing = Nothing
    Duration = 1
    RetryDelay = 1
    RestoreDelay = 1
    Window = 2
    Patience = 1
    MaxTime = 3
    MaxLives = 2
    MaxPosts = 2
    MaxDeleted = 1
    MaxErrors = 1
INVARIANTS
    TimerTypeOK
    OnePost
    CompletedReminded
PROPERTIES
    CancelWins
SYMMETRY TimerSymmetry
