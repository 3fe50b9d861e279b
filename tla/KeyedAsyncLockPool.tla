-------------------------- MODULE KeyedAsyncLockPool --------------------------
(***************************************************************************)
(* The keyed lock pool of async_locks.py.  hold(key) finds or creates a    *)
(* reference-counted asyncio.Lock for the key, waits for it, runs the      *)
(* caller's block, and cleans up: it releases the lock, drops its          *)
(* reference and removes the table entry when no reference is left.        *)
(*                                                                         *)
(* The code runs on one event loop, so what happens between two awaits is  *)
(* one action.  The guard lock of the pool is never held across an await,  *)
(* hence never contended, hence taken without a suspension: registering    *)
(* for a key and the first attempt at its lock are one step.  The cleanup  *)
(* runs in a task of its own, so it is a later step, and a cancellation    *)
(* that arrives meanwhile waits for it (finish_async_cleanup).             *)
(*                                                                         *)
(* asyncio.Lock is external.  It is a flag and a queue of futures; release *)
(* only resolves the first future, and the lock is taken when the woken    *)
(* task runs again.  A cancelled waiter stays queued until it runs.        *)
(***************************************************************************)
EXTENDS Naturals, Sequences, FiniteSets

CONSTANTS
    Tasks,   \* the tasks that call hold()
    Keys,    \* the normalised keys
    Objs,    \* identities of _KeyedLockState objects; one is reused only after
             \* nothing refers to it, as the allocator does
    None     \* no object, no key, no task

ASSUME PoolAssumption ==
    /\ IsFiniteSet(Tasks)
    /\ None \notin Tasks \union Keys \union Objs

VARIABLES
    table,   \* _states: the lock state of a key, or None
    users,   \* users of a lock state
    locked,  \* asyncio.Lock._locked of a lock state
    waiters, \* asyncio.Lock._waiters: the tasks whose futures are queued
    future,  \* what became of the future a task awaits
    pc,      \* where a task is in hold()
    key,     \* the key a task called hold() with, or None
    obj      \* the lock state it registered with, or None

vars == <<table, users, locked, waiters, future, pc, key, obj>>

\* "revoked": resolved by a release, then its task was cancelled before it ran.
FutureStates == {"none", "pending", "resolved", "cancelled", "revoked"}

\* "leaving" and "abandoned" both await the cleanup; only "leaving" had acquired.
Places == {"idle", "waiting", "holding", "leaving", "abandoned"}

TypeOK ==
    /\ table \in [Keys -> Objs \union {None}]
    /\ users \in [Objs -> Nat]
    /\ locked \in [Objs -> BOOLEAN]
    /\ waiters \in [Objs -> Seq(Tasks)]
    /\ future \in [Tasks -> FutureStates]
    /\ pc \in [Tasks -> Places]
    /\ key \in [Tasks -> Keys \union {None}]
    /\ obj \in [Tasks -> Objs \union {None}]

Init ==
    /\ table = [k \in Keys |-> None]
    /\ users = [o \in Objs |-> 0]
    /\ locked = [o \in Objs |-> FALSE]
    /\ waiters = [o \in Objs |-> <<>>]
    /\ future = [t \in Tasks |-> "none"]
    /\ pc = [t \in Tasks |-> "idle"]
    /\ key = [t \in Tasks |-> None]
    /\ obj = [t \in Tasks |-> None]

-------------------------------------------------------------------------------
(* asyncio.Lock                                                            *)

IsCancelled(t) == future[t] = "cancelled"

\* acquire() does not suspend: unlocked, and every queued future is cancelled.
FastPath(o) ==
    /\ ~locked[o]
    /\ \A i \in DOMAIN waiters[o] : IsCancelled(waiters[o][i])

\* _wake_up_first(): resolve the first future unless it is done already.
WakeFirst(queue, fut) ==
    IF queue # <<>> /\ fut[Head(queue)] = "pending"
    THEN [fut EXCEPT ![Head(queue)] = "resolved"]
    ELSE fut

\* deque.remove(): the queue without its first entry for t.
Without(queue, t) ==
    LET at == CHOOSE i \in DOMAIN queue :
                  queue[i] = t /\ \A j \in DOMAIN queue : queue[j] = t => i <= j
    IN  [j \in 1 .. Len(queue) - 1 |-> queue[IF j < at THEN j ELSE j + 1]]

-------------------------------------------------------------------------------
(* KeyedAsyncLockPool                                                      *)

Referenced(o) == (\E t \in Tasks : obj[t] = o) \/ (\E k \in Keys : table[k] = o)

\* The state found under the key, or a new one.
StateFor(k, o) ==
    \/ table[k] = o
    \/ table[k] = None /\ ~Referenced(o)

\* users once a task registered for the key: a new state starts from zero.
UsersAfter(k, o) == IF table[k] = o THEN users[o] + 1 ELSE 1

\* A mistake to rule out: the count is not tested.
LastUserUntested(t) == table[key[t]] = obj[t]

\* users is 0 after the decrement and the table still holds this very state.
LastUser(t) == users[obj[t]] = 1 /\ table[key[t]] = obj[t]

\* A mistake to rule out: the cleanup forgets that the lock was acquired.
AcquiredNever(t) == FALSE

\* acquired: the wait for the lock returned.
Acquired(t) == pc[t] = "leaving"

\* Enter hold(): register under the guard, then try the lock.  A new state is
\* unlocked, has no waiters and one user.
Hold(t, k) ==
    /\ pc[t] = "idle"
    /\ \E o \in Objs :
        /\ StateFor(k, o)
        /\ table' = [table EXCEPT ![k] = o]
        /\ users' = [users EXCEPT ![o] = UsersAfter(k, o)]
        /\ key' = [key EXCEPT ![t] = k]
        /\ obj' = [obj EXCEPT ![t] = o]
        /\ \/ /\ table[k] = None \/ FastPath(o)
              /\ pc' = [pc EXCEPT ![t] = "holding"]
              /\ locked' = [locked EXCEPT ![o] = TRUE]
              /\ waiters' = [waiters EXCEPT ![o] = IF table[k] = None THEN <<>> ELSE @]
              /\ UNCHANGED future
           \/ /\ table[k] = o /\ ~FastPath(o)
              /\ pc' = [pc EXCEPT ![t] = "waiting"]
              /\ waiters' = [waiters EXCEPT ![o] = Append(@, t)]
              /\ future' = [future EXCEPT ![t] = "pending"]
              /\ UNCHANGED locked

\* A woken waiter runs: it leaves the queue and takes the lock.
Resume(t) ==
    /\ pc[t] = "waiting"
    /\ future[t] = "resolved"
    /\ waiters' = [waiters EXCEPT ![obj[t]] = Without(@, t)]
    /\ locked' = [locked EXCEPT ![obj[t]] = TRUE]
    /\ future' = [future EXCEPT ![t] = "none"]
    /\ pc' = [pc EXCEPT ![t] = "holding"]
    /\ UNCHANGED <<table, users, key, obj>>

\* Somebody cancels a task that waits.
CancelWaiter(t) ==
    /\ pc[t] = "waiting"
    /\ \/ /\ future[t] = "pending"
          /\ future' = [future EXCEPT ![t] = "cancelled"]
       \/ /\ future[t] = "resolved"
          /\ future' = [future EXCEPT ![t] = "revoked"]
    /\ UNCHANGED <<table, users, locked, waiters, pc, key, obj>>

\* The cancelled waiter runs: it leaves the queue and passes the wake-up on.
ResumeCancelled(t) ==
    /\ pc[t] = "waiting"
    /\ future[t] \in {"cancelled", "revoked"}
    /\ LET queue == Without(waiters[obj[t]], t)
           done == [future EXCEPT ![t] = "none"]
       IN  /\ waiters' = [waiters EXCEPT ![obj[t]] = queue]
           /\ future' = IF locked[obj[t]] THEN done ELSE WakeFirst(queue, done)
    /\ pc' = [pc EXCEPT ![t] = "abandoned"]
    /\ UNCHANGED <<table, users, locked, key, obj>>

\* The caller's block ends, by returning, raising or being cancelled.
Leave(t) ==
    /\ pc[t] = "holding"
    /\ pc' = [pc EXCEPT ![t] = "leaving"]
    /\ UNCHANGED <<table, users, locked, waiters, future, key, obj>>

\* cleanup(): release if acquired, drop the reference, remove the unused entry.
Cleanup(t) ==
    /\ pc[t] \in {"leaving", "abandoned"}
    /\ IF Acquired(t)
       THEN /\ locked' = [locked EXCEPT ![obj[t]] = FALSE]
            /\ future' = WakeFirst(waiters[obj[t]], future)
       ELSE UNCHANGED <<locked, future>>
    /\ users' = [users EXCEPT ![obj[t]] = @ - 1]
    /\ table' = IF LastUser(t) THEN [table EXCEPT ![key[t]] = None] ELSE table
    /\ pc' = [pc EXCEPT ![t] = "idle"]
    /\ key' = [key EXCEPT ![t] = None]
    /\ obj' = [obj EXCEPT ![t] = None]
    /\ UNCHANGED waiters

Next ==
    \E t \in Tasks :
        \/ \E k \in Keys : Hold(t, k)
        \/ Resume(t)
        \/ CancelWaiter(t)
        \/ ResumeCancelled(t)
        \/ Leave(t)
        \/ Cleanup(t)

Spec == Init /\ [][Next]_vars

\* The event loop runs every ready callback, and the block under the lock ends.
\* Nobody has to call hold() or cancel.
Fairness ==
    \A t \in Tasks :
        /\ WF_vars(Resume(t))
        /\ WF_vars(ResumeCancelled(t))
        /\ WF_vars(Leave(t))
        /\ WF_vars(Cleanup(t))

FairSpec == Spec /\ Fairness

-------------------------------------------------------------------------------
(* Properties                                                              *)

Holds(t) == pc[t] \in {"holding", "leaving"}

\* Two tasks never run their blocks for one key at a time, although the lock
\* object of the key is thrown away and created again while tasks come and go
\* (async_locks.py:53-77).
MutualExclusion ==
    \A t, u \in Tasks : t # u /\ Holds(t) /\ Holds(u) => key[t] # key[u]

\* The user count of a state in the table is the number of tasks registered
\* with it, so the count never gets negative (the RuntimeError at line 70 is
\* dead) and an entry goes away only when nobody uses it.
UserCountExact ==
    \A o \in Objs :
        (\E k \in Keys : table[k] = o)
            => users[o] = Cardinality({t \in Tasks : obj[t] = o})

\* The pool retains no inactive key, and whoever registered for a key finds
\* his own lock state under it until he is done.
NoInactiveKey ==
    \A k \in Keys : table[k] # None <=> \E t \in Tasks : key[t] = k

\* A task that waits holds the lock in the end, or was cancelled and is gone:
\* a cancellation between release() and the resumption of the woken task does
\* not lose the wake-up for those behind it.
WaiterServed ==
    \A t \in Tasks : (pc[t] = "waiting") ~> (pc[t] \in {"holding", "idle"})

\* The pool implements the keyed mutex.
Holder ==
    [k \in Keys |->
        IF \E t \in Tasks : Holds(t) /\ key[t] = k
        THEN CHOOSE t \in Tasks : Holds(t) /\ key[t] = k
        ELSE None]

Mutex == INSTANCE KeyedMutex WITH holder <- Holder

ImplementsMutex == Mutex!Spec

===============================================================================
