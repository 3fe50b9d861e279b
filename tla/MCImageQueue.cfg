SPECIFICATION MCSpec
CONSTANTS
    c1 = c1
    c2 = c2
    c3 = c3
    j1 = j1
    j2 = j2
    None = None
    Jobs = {j1, j2}
    Callers = {c1, c2, c3}
    JobOf <- MCJobOf
    MaxPending = 2
    MaxTroubles = 1
    Records = {1, 2, 3}
    Readers = {reader}
    Closer = Closer
    Stop = Stop
    Writers = {w1, w2}
    NoTask = NoTask
    Done = Done
    BatchMax = 2
    QueueMax = 2
    OverflowMax = 1
    OutboxMax = 2
    MaxFaults = 2
INVARIANTS
    NoSleepOver
    Kept
PROPERTIES
    Ends
    AuditSettles
