---------------------------- MODULE AgentAdmission ----------------------------
(***************************************************************************)
(* Which agent turns run at a time: AgentService._admit and _release       *)
(* (agent/service.py:244-276, 886-1148).  A turn asks for the admission    *)
(* lock, is refused, activated at once or put in a bounded queue; a queued *)
(* turn takes the slot of its workspace (a semaphore of 1), then waits on  *)
(* a condition until fewer turns run than its kind may fill.  It may be    *)
(* interrupted at every await; what it reserved is then given back.        *)
(*                                                                         *)
(* A step is what runs between two awaits.  The admission lock is FIFO:    *)
(* the head of lockQueue holds it.                                         *)
(***************************************************************************)
EXTENDS Naturals, Integers, Sequences, FiniteSets

CONSTANTS
    Turns, Workspaces, Actors, Slots,   \* Slots: identities of semaphores
    None,
    WorkspaceOf, ActorOf,               \* of each turn
    Autonomous,                         \* the turns nobody asked for
    MaxActive, MaxPending, MaxPendingPerUser, ReservePercent

ASSUME TurnsAssumption ==
    /\ IsFiniteSet(Turns)
    /\ WorkspaceOf \in [Turns -> Workspaces]
    /\ ActorOf \in [Turns -> Actors]
    /\ Autonomous \subseteq Turns
    /\ None \notin Slots

ASSUME LimitsAssumption ==
    /\ MaxActive \in Nat \ {0}
    /\ MaxPending \in Nat \ {0}
    /\ MaxPendingPerUser \in Nat \ {0}
    /\ ReservePercent \in 0 .. 90

VARIABLES
    phase,         \* where each turn is
    held,          \* the reservations each turn made and must give back
    slotOf,        \* turn_slot: the semaphore each turn was given
    lockQueue,     \* who holds (the head) and who waits for _admission_lock
    registry,      \* _workspace_turn_slots
    references,    \* _workspace_turn_slot_references
    value, line,   \* per semaphore: its counter, its waiters
    waiters,       \* _workspace_waiters
    pending,       \* _pending_turns
    pendingBy,     \* _pending_turns_by_actor
    ready,         \* _ready_pending_turns
    active,        \* _active_turns
    activeSlots    \* the counter of the semaphore _active_turn_slots

slotVars == <<registry, references, value, line>>
queueVars == <<waiters, pending, pendingBy, ready>>
activeVars == <<active, activeSlots>>
vars == <<phase, held, slotOf, lockQueue, slotVars, queueVars, activeVars>>

Phases ==
    {"new", "asked", "starting", "queueing", "queued", "blocked", "granted",
     "ready", "asleep", "notified", "woken", "active", "releasing", "failing",
     "over"}

Reservations == {"reference", "pending", "waiter", "slot", "ready", "active"}

TypeOK ==
    /\ phase \in [Turns -> Phases]
    /\ held \in [Turns -> SUBSET Reservations]
    /\ slotOf \in [Turns -> Slots \union {None}]
    /\ lockQueue \in Seq(Turns)
    /\ registry \in [Workspaces -> Slots \union {None}]
    /\ references \in [Workspaces -> Nat]
    /\ value \in [Slots -> Nat]
    /\ line \in [Slots -> Seq(Turns)]
    /\ waiters \in [Workspaces -> Nat]
    /\ pending \in Nat
    /\ pendingBy \in [Actors -> Nat]
    /\ ready \in Nat
    /\ active \in Nat
    /\ activeSlots \in Nat

Init ==
    /\ phase = [t \in Turns |-> "new"]
    /\ held = [t \in Turns |-> {}]
    /\ slotOf = [t \in Turns |-> None]
    /\ lockQueue = <<>>
    /\ registry = [w \in Workspaces |-> None]
    /\ references = [w \in Workspaces |-> 0]
    /\ value = [s \in Slots |-> 0]
    /\ line = [s \in Slots |-> <<>>]
    /\ waiters = [w \in Workspaces |-> 0]
    /\ pending = 0
    /\ pendingBy = [a \in Actors |-> 0]
    /\ ready = 0
    /\ active = 0
    /\ activeSlots = MaxActive

-------------------------------------------------------------------------------
(* Capacities and the lock                                                 *)

Reserved(total) == (total * ReservePercent + 99) \div 100

\* A mistake to rule out: every kind may fill everything.
CapacityShared(t, total) == total

Capacity(t, total) == IF t \in Autonomous THEN total - Reserved(total) ELSE total

Limit(t) == Capacity(t, MaxActive)

HoldsLock(t, p) == lockQueue # <<>> /\ Head(lockQueue) = t /\ phase[t] = p

\* The queue without t, which is at most once in it.
Without(queue, t) ==
    IF \E i \in DOMAIN queue : queue[i] = t
    THEN LET at == CHOOSE i \in DOMAIN queue : queue[i] = t
         IN  [j \in 1 .. Len(queue) - 1 |-> queue[IF j < at THEN j ELSE j + 1]]
    ELSE queue

\* t awaits the lock again, behind everybody who does already.
Requeued(t) == Append(Without(lockQueue, t), t)

-------------------------------------------------------------------------------
(* The semaphore of a workspace                                            *)

\* Semaphore.locked(): also true while others wait for it.
Locked(s) == value[s] = 0 \/ line[s] # <<>>

\* The semaphore registered for the workspace, or a new one.
SlotFor(w, s) ==
    \/ registry[w] = s
    \/ /\ registry[w] = None
       /\ \A t \in Turns : slotOf[t] # s
       /\ \A v \in Workspaces : registry[v] # s

Reference(t, s) ==
    /\ slotOf' = [slotOf EXCEPT ![t] = s]
    /\ registry' = [registry EXCEPT ![WorkspaceOf[t]] = s]
    /\ references' = [references EXCEPT ![WorkspaceOf[t]] = @ + 1]

\* The counter and the waiters after release() by t, or by a woken t that was
\* cancelled before it ran: the first waiter gets what is returned.
ValueReleased(s) ==
    [value EXCEPT ![s] = IF line[s] = <<>> THEN @ + 1 ELSE @]

LineReleased(s) ==
    [line EXCEPT ![s] = IF @ = <<>> THEN @ ELSE Tail(@)]

NextInLine(s, u) == line[s] # <<>> /\ Head(line[s]) = u

-------------------------------------------------------------------------------
(* Admission under the lock                                                *)

\* respond() reaches _admit and awaits the admission lock.
Ask(t) ==
    /\ phase[t] = "new"
    /\ phase' = [phase EXCEPT ![t] = "asked"]
    /\ lockQueue' = Append(lockQueue, t)
    /\ UNCHANGED <<held, slotOf, slotVars, queueVars, activeVars>>

\* A mistake to rule out: not looking at the workspace's semaphore.
AdmitsBusyWorkspace(t, s) == active + ready < Limit(t)

\* activate_immediately, for a turn whose workspace has semaphore s.
AdmitsAtOnce(t, s) ==
    /\ registry[WorkspaceOf[t]] = None \/ ~Locked(s)
    /\ active + ready < Limit(t)

\* No rejection_reason for a turn that has to wait.
QueueHasRoom(t) ==
    /\ Limit(t) > 0
    /\ pending < Capacity(t, MaxPending)
    /\ pendingBy[ActorOf[t]] < MaxPendingPerUser

\* The budget check or the limits of the queue refuse the turn: it raises, and
\* its cleanup has nothing to give back.  A semaphore made for it is dropped.
Refuse(t) ==
    /\ HoldsLock(t, "asked")
    /\ phase' = [phase EXCEPT ![t] = "failing"]
    /\ lockQueue' = Requeued(t)
    /\ UNCHANGED <<held, slotOf, slotVars, queueVars, activeVars>>

\* Both semaphores are free, so neither acquire() suspends.
ActivateAtOnce(t) ==
    /\ HoldsLock(t, "asked")
    /\ \E s \in Slots :
        /\ SlotFor(WorkspaceOf[t], s)
        /\ AdmitsAtOnce(t, s)
        /\ Reference(t, s)
        /\ value' = [value EXCEPT
             ![s] = IF registry[WorkspaceOf[t]] = None THEN 0 ELSE @ - 1]
    /\ held' = [held EXCEPT ![t] = {"reference", "slot", "active"}]
    /\ active' = active + 1
    /\ activeSlots' = activeSlots - 1
    /\ phase' = [phase EXCEPT ![t] = "starting"]
    /\ UNCHANGED <<lockQueue, line, queueVars>>

Enqueue(t) ==
    /\ HoldsLock(t, "asked")
    /\ QueueHasRoom(t)
    /\ \E s \in Slots :
        /\ SlotFor(WorkspaceOf[t], s)
        /\ ~AdmitsAtOnce(t, s)
        /\ Reference(t, s)
        /\ value' = [value EXCEPT
             ![s] = IF registry[WorkspaceOf[t]] = None THEN 1 ELSE @]
    /\ held' = [held EXCEPT ![t] = {"reference", "pending", "waiter"}]
    /\ pending' = pending + 1
    /\ pendingBy' = [pendingBy EXCEPT ![ActorOf[t]] = @ + 1]
    /\ waiters' = [waiters EXCEPT ![WorkspaceOf[t]] = @ + 1]
    /\ phase' = [phase EXCEPT ![t] = "queueing"]
    /\ UNCHANGED <<lockQueue, line, ready, activeVars>>

\* The store and the journal recorded the turn; the lock is released.
Begin(t) ==
    /\ \/ /\ HoldsLock(t, "starting")
          /\ phase' = [phase EXCEPT ![t] = "active"]
       \/ /\ HoldsLock(t, "queueing")
          /\ phase' = [phase EXCEPT ![t] = "queued"]
    /\ lockQueue' = Tail(lockQueue)
    /\ UNCHANGED <<held, slotOf, slotVars, queueVars, activeVars>>

-------------------------------------------------------------------------------
(* A queued turn                                                           *)

\* on_progress returned: turn_slot.acquire() succeeds at once and the turn
\* awaits the lock of the condition, or it waits in line.
AskSlot(t) ==
    /\ phase[t] = "queued"
    /\ \/ /\ ~Locked(slotOf[t])
          /\ value' = [value EXCEPT ![slotOf[t]] = @ - 1]
          /\ held' = [held EXCEPT ![t] = @ \union {"slot"}]
          /\ phase' = [phase EXCEPT ![t] = "ready"]
          /\ lockQueue' = Append(lockQueue, t)
          /\ UNCHANGED line
       \/ /\ Locked(slotOf[t])
          /\ line' = [line EXCEPT ![slotOf[t]] = Append(@, t)]
          /\ phase' = [phase EXCEPT ![t] = "blocked"]
          /\ UNCHANGED <<value, held, lockQueue>>
    /\ UNCHANGED <<slotOf, registry, references, queueVars, activeVars>>

\* A waiter that was handed the slot runs.
TakeSlot(t) ==
    /\ phase[t] = "granted"
    /\ held' = [held EXCEPT ![t] = @ \union {"slot"}]
    /\ phase' = [phase EXCEPT ![t] = "ready"]
    /\ lockQueue' = Append(lockQueue, t)
    /\ UNCHANGED <<slotOf, slotVars, queueVars, activeVars>>

\* The turn leaves the queue and runs.  n is the ready count it found.
Promote(t, n) ==
    /\ active < Limit(t)
    /\ held' = [held EXCEPT ![t] = {"reference", "slot", "active"}]
    /\ pending' = pending - 1
    /\ pendingBy' = [pendingBy EXCEPT ![ActorOf[t]] = @ - 1]
    /\ ready' = n - 1
    /\ active' = active + 1
    /\ activeSlots' = activeSlots - 1
    /\ phase' = [phase EXCEPT ![t] = "active"]

\* The turn gives the lock back and sleeps on the condition.
Sleep(t, n) ==
    /\ active >= Limit(t)
    /\ held' = [held EXCEPT ![t] = (@ \union {"ready"}) \ {"waiter"}]
    /\ ready' = n
    /\ phase' = [phase EXCEPT ![t] = "asleep"]
    /\ UNCHANGED <<pending, pendingBy, activeVars>>

\* First look at the number of active turns.
Enter(t) ==
    /\ HoldsLock(t, "ready")
    /\ waiters' = [waiters EXCEPT ![WorkspaceOf[t]] = @ - 1]
    /\ Promote(t, ready + 1) \/ Sleep(t, ready + 1)
    /\ lockQueue' = Tail(lockQueue)
    /\ UNCHANGED <<slotOf, slotVars>>

\* A notified turn runs and awaits the lock.
Awake(t) ==
    /\ phase[t] = "notified"
    /\ phase' = [phase EXCEPT ![t] = "woken"]
    /\ lockQueue' = Append(lockQueue, t)
    /\ UNCHANGED <<held, slotOf, slotVars, queueVars, activeVars>>

\* The loop around wait(): look again.
LookAgain(t) ==
    /\ HoldsLock(t, "woken")
    /\ Promote(t, ready) \/ Sleep(t, ready)
    /\ lockQueue' = Tail(lockQueue)
    /\ UNCHANGED <<slotOf, slotVars, waiters>>

-------------------------------------------------------------------------------
(* The end of a turn                                                       *)

\* An await of _admit raises: the task is cancelled, or the store, the journal
\* or the progress callback fails.  The cleanup awaits the lock.  A waiter
\* leaves its line; one that was handed the slot passes it on.
Interrupt(t) ==
    /\ phase[t] \in {"asked", "starting", "queueing", "queued", "blocked",
                     "granted", "ready", "asleep", "notified", "woken"}
    /\ lockQueue' = Requeued(t)
    /\ CASE phase[t] = "blocked" ->
            /\ line' = [line EXCEPT ![slotOf[t]] = Without(@, t)]
            /\ phase' = [phase EXCEPT ![t] = "failing"]
            /\ UNCHANGED value
         [] phase[t] = "granted" ->
            /\ value' = ValueReleased(slotOf[t])
            /\ line' = LineReleased(slotOf[t])
            /\ phase' = [u \in Turns |->
                 IF u = t THEN "failing"
                 ELSE IF NextInLine(slotOf[t], u) THEN "granted" ELSE phase[u]]
         [] OTHER ->
            /\ phase' = [phase EXCEPT ![t] = "failing"]
            /\ UNCHANGED <<value, line>>
    /\ UNCHANGED <<held, slotOf, registry, references, queueVars, activeVars>>

\* The provider's turn ended in some way; _release awaits the lock.
Finish(t) ==
    /\ phase[t] = "active"
    /\ phase' = [phase EXCEPT ![t] = "releasing"]
    /\ lockQueue' = Append(lockQueue, t)
    /\ UNCHANGED <<held, slotOf, slotVars, queueVars, activeVars>>

Has(t, r) == IF r \in held[t] THEN 1 ELSE 0

\* The release of _active_turn_slots.
ActiveSlotOf(t) == Has(t, "active")

\* A mistake to rule out: a failed admission does not notify.
NotifiesOnRelease(t, u) == phase[t] = "releasing" /\ phase[u] = "asleep"

\* notify_all() reaches u, because an active turn t goes.
Notifies(t, u) == "active" \in held[t] /\ phase[u] = "asleep"

\* No reference remains and the entry is still this very semaphore.
LastReference(t) ==
    /\ "reference" \in held[t]
    /\ references[WorkspaceOf[t]] <= 1
    /\ registry[WorkspaceOf[t]] = slotOf[t]

\* The last reference takes the workspace's semaphore out of the registry.
Dereference(t) ==
    LET w == WorkspaceOf[t] IN
    /\ references' = [references EXCEPT ![w] = @ - Has(t, "reference")]
    /\ registry' =
         IF LastReference(t) THEN [registry EXCEPT ![w] = None] ELSE registry

\* cleanup_failed_admission() and _release_turn_slots(): give back what t
\* reserved, hand its slot on and, if it was active, wake the sleepers.
GiveBack(t) ==
    LET s == slotOf[t] IN
    /\ active' = active - Has(t, "active")
    /\ activeSlots' = activeSlots + ActiveSlotOf(t)
    /\ pending' = pending - Has(t, "pending")
    /\ pendingBy' = [pendingBy EXCEPT ![ActorOf[t]] = @ - Has(t, "pending")]
    /\ ready' = ready - Has(t, "ready")
    /\ waiters' = [waiters EXCEPT ![WorkspaceOf[t]] = @ - Has(t, "waiter")]
    /\ IF "slot" \in held[t]
       THEN value' = ValueReleased(s) /\ line' = LineReleased(s)
       ELSE UNCHANGED <<value, line>>
    /\ phase' = [u \in Turns |->
         IF u = t THEN "over"
         ELSE IF "slot" \in held[t] /\ NextInLine(s, u) THEN "granted"
         ELSE IF Notifies(t, u) THEN "notified"
         ELSE phase[u]]
    /\ Dereference(t)
    /\ held' = [held EXCEPT ![t] = {}]
    /\ slotOf' = [slotOf EXCEPT ![t] = None]
    /\ lockQueue' = Tail(lockQueue)

Release(t) == HoldsLock(t, "releasing") /\ GiveBack(t)

Cleanup(t) == HoldsLock(t, "failing") /\ GiveBack(t)

\* Nobody is left who asks: the model stops here, not the service.
Quiet == (\A t \in Turns : phase[t] = "over") /\ UNCHANGED vars

Next ==
    \/ \E t \in Turns :
        \/ Ask(t) \/ Refuse(t) \/ ActivateAtOnce(t) \/ Enqueue(t) \/ Begin(t)
        \/ AskSlot(t) \/ TakeSlot(t) \/ Enter(t) \/ Awake(t) \/ LookAgain(t)
        \/ Interrupt(t) \/ Finish(t) \/ Release(t) \/ Cleanup(t)
    \/ Quiet

Spec == Init /\ [][Next]_vars

\* The event loop runs every ready task, the store, the journal, the progress
\* callback and the provider return or raise.  Nobody has to ask, and no turn
\* has to be interrupted.
Step(t) ==
    \/ Refuse(t) \/ ActivateAtOnce(t) \/ Enqueue(t) \/ Begin(t) \/ AskSlot(t)
    \/ TakeSlot(t) \/ Enter(t) \/ Awake(t) \/ LookAgain(t) \/ Finish(t)
    \/ Release(t) \/ Cleanup(t)

FairSpec == Spec /\ \A t \in Turns : WF_vars(Step(t))

-------------------------------------------------------------------------------
(* Properties                                                              *)

Holding(r) == {t \in Turns : r \in held[t]}

\* The counters by which turns are admitted count the reservations made and not
\* yet given back, whichever await a turn was interrupted at
\* (service.py:1033-1066): a leak would shrink the service for good.
CountersExact ==
    /\ active = Cardinality(Holding("active"))
    /\ pending = Cardinality(Holding("pending"))
    /\ ready = Cardinality(Holding("ready"))
    /\ \A a \in Actors :
        pendingBy[a] = Cardinality({t \in Holding("pending") : ActorOf[t] = a})
    /\ \A w \in Workspaces :
        waiters[w] = Cardinality({t \in Holding("waiter") : WorkspaceOf[t] = w})

\* The active-turn semaphore agrees with the counter, so acquiring it while the
\* admission lock is held never suspends: it would wait for a release that
\* needs the lock (service.py:944-951, 1030-1032).
AcquireNeverSuspends == activeSlots = MaxActive - active

\* Two turns of a workspace never run, or wait for capacity, together, although
\* its semaphore is thrown away and made again while turns come and go.
OneTurnPerWorkspace ==
    \A t, u \in Holding("slot") : t # u => WorkspaceOf[t] # WorkspaceOf[u]

\* A workspace is registered exactly while a turn refers to it, and with the
\* semaphore of all of them: the two RuntimeErrors of the release
\* (service.py:1107-1119) are dead and no entry is left behind.
RegistryExact ==
    /\ \A t \in Holding("reference") : registry[WorkspaceOf[t]] = slotOf[t]
    /\ \A w \in Workspaces :
        /\ references[w] =
             Cardinality({t \in Holding("reference") : WorkspaceOf[t] = w})
        /\ registry[w] # None => references[w] > 0

\* Turns nobody asked for never fill the share of active and pending turns
\* that is reserved for people.
InteractiveReserve ==
    /\ Cardinality(Holding("active") \cap Autonomous)
         <= MaxActive - Reserved(MaxActive)
    /\ Cardinality(Holding("pending") \cap Autonomous)
         <= MaxPending - Reserved(MaxPending)

\* The shares of the one service are kept: each workspace has one turn at most
\* past its semaphore, and turns nobody asked for leave people theirs.
SharesKept == OneTurnPerWorkspace /\ InteractiveReserve

\* The service never runs or queues more than it was configured to.
WithinLimits ==
    /\ active <= MaxActive
    /\ pending <= MaxPending
    /\ \A a \in Actors : pendingBy[a] <= MaxPendingPerUser

\* A turn sleeps on the condition only while its kind's share is full: none of
\* the ways a turn can end loses the notification (service.py:1041-1046, 1089;
\* only the end of an active turn notifies).
NoLostNotification ==
    \A t \in Turns : phase[t] = "asleep" => active >= Limit(t)

\* A turn that asked is over in the end.
Served == \A t \in Turns : phase[t] = "asked" ~> phase[t] = "over"

\* "new arrival does not barge a ready pending turn": a queued turn does not
\* become active at its first look while another with the same limit, which
\* was ready before, sleeps or awaits the lock (tests/test_agent.py:2790).
NoBarging ==
    [][\A t, u \in Turns :
        /\ phase[t] = "ready" /\ phase'[t] = "active"
        /\ phase[u] \in {"asleep", "woken"}
        => Limit(u) < Limit(t)]_vars

===============================================================================
