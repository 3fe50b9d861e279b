SPECIFICATION Spec
CONSTANTS
    Timers = {t1, t2}
    Kinds = {join, leave}
    None = None
    Faults = {"create", "cancel"}
    MaxChanges = 0
INVARIANTS
    NothingLeftBehind
