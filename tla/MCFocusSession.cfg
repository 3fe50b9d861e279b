SPECIFICATION MCSpec
CONSTANTS
    Timers = {t1, t2}
    Kinds = {join, leave}
    None = None
    Faults = {"restore", "complete"}
    MaxChanges = 2
    s1 = s1
    s2 = s2
    s3 = s3
    g1 = g1
    g2 = g2
    Speeches = {s1, s2, s3}
    Streams = {s1}
    Guilds = {g1, g2}
    GuildOf <- MCGuildOf
    Workers = {w1, w2}
INVARIANTS
    NothingLeftBehind
    ModeRestored
    RingExact
    OwnAffair
PROPERTIES
    SwapsJustified
    Heard
