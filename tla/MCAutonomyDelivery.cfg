\* The batch may be settled, and nothing be under way any more: nothing is left
\* to do then.
SPECIFICATION MCSpec
CHECK_DEADLOCK FALSE
CONSTANTS
    Consumers = {w1, w2}
    None = None
    N = 2
    MaxFailures = 1
    MaxTrouble = 1
    FollowUps = {f1, f2}
    MayCancel = {f1}
    MaxStarts = 2
INVARIANTS
    ReplyExact
    OneFate
PROPERTIES
    SavedNotReposted
    ImplementsReply
    BatchSettled
    NoneDisappears
