------------------------------ MODULE KeyedMutex ------------------------------
(***************************************************************************)
(* What a keyed lock promises: at any time each key is held by at most one *)
(* task, a task holds at most one key, and only the holder gives a key     *)
(* back.  KeyedAsyncLockPool implements this with a table of reference-    *)
(* counted asyncio locks that come and go.                                 *)
(***************************************************************************)
CONSTANTS
    Tasks,   \* the tasks that contend
    Keys,    \* the keys they contend for
    None     \* the holder of a free key

VARIABLE
    holder   \* the task that holds a key, or None

TypeOK == holder \in [Keys -> Tasks \union {None}]

Init == holder = [k \in Keys |-> None]

Acquire(t, k) ==
    /\ holder[k] = None
    /\ \A other \in Keys : holder[other] # t
    /\ holder' = [holder EXCEPT ![k] = t]

Release(t, k) ==
    /\ holder[k] = t
    /\ holder' = [holder EXCEPT ![k] = None]

Next == \E t \in Tasks, k \in Keys : Acquire(t, k) \/ Release(t, k)

Spec == Init /\ [][Next]_holder

===============================================================================
