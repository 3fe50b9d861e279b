SPECIFICATION FairTurnSpec
CONSTANTS
    Mentions = {m}
    Events = {e}
    Writers = {m}
    MaxAttempts = 4
    MaxBatches = 1
    MaxLives = 2
INVARIANTS
    RepeatsAreOrphans
    LedgerHonest
PROPERTIES
    ImplementsBarrier
    Settles
CHECK_DEADLOCK FALSE
