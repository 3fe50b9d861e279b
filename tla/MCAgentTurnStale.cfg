SPECIFICATION TurnSpec
CONSTANTS
    Mentions = {m}
    Events = {e}
    Writers = {m}
    MaxAttempts = 4
    MaxBatches = 1
    MaxLives = 2
INVARIANT WritesOnce
CHECK_DEADLOCK FALSE
