SPECIFICATION MCSpec
CONSTANTS
    Tasks = {t1, t2, t3}
    Keys = {k1, k2}
    Objs = {o1, o2, o3}
    None = None
    Events = {e1, e2, e3}
PROPERTIES
    WaiterServed
    ImplementsMutex
    ReadyIsClaimed
