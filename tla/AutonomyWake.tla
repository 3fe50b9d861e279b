------------------------------ MODULE AutonomyWake ------------------------------
(***************************************************************************)
(* How the consumer of the autonomous event queue sleeps and is woken      *)
(* (AgentAutonomyCog._next_batch with AutonomyEventQueue.wait, clear_wake  *)
(* and the calls of _wake.set()).                                          *)
(*                                                                         *)
(* What an event waits for, its debounce time, its retry time or the lease *)
(* of a dead claim, is one flag here: an event is early until time makes   *)
(* it ready.  AutonomyQueue shows that seconds_until_ready names the time  *)
(* at which next_batch has something to hand out, so a timer set for early *)
(* events goes off when one is ready.                                      *)
(*                                                                         *)
(* A row is committed by a worker thread; the wake flag is set when the    *)
(* coroutine that waits for the thread runs again, which is a later step.  *)
(***************************************************************************)
EXTENDS FiniteSets

CONSTANT Events

VARIABLES
    event,    \* the state of each event
    producer, \* where the coroutine that enqueues an event is
    wake,     \* _wake.is_set()
    pc,       \* where the consumer is in _next_batch, or its work on a batch
    timer,    \* the events the timeout of its sleep is for, {}: no timeout
    batch     \* the events it works on

wakeVars == <<event, producer, wake, pc, timer, batch>>

Live == {e \in Events : event[e] \in {"early", "ready"}}

Ready == {e \in Events : event[e] = "ready"}

WakeTypeOK ==
    /\ event \in [Events -> {"new", "early", "ready", "claimed", "settled"}]
    /\ producer \in [Events -> {"idle", "committed", "done"}]
    /\ wake \in BOOLEAN
    /\ pc \in {"first", "clear", "second", "timer", "asleep", "working", "rescheduled"}
    /\ timer \subseteq Live
    /\ batch = {e \in Events : event[e] = "claimed"}
    /\ pc = "working" <=> batch # {}

WakeInit ==
    /\ event = [e \in Events |-> "new"]
    /\ producer = [e \in Events |-> "idle"]
    /\ wake = FALSE
    /\ pc = "first"
    /\ timer = {}
    /\ batch = {}

\* The events of a set get a new state.
Become(chosen, state) == [e \in Events |-> IF e \in chosen THEN state ELSE event[e]]

-------------------------------------------------------------------------------
(* Producers                                                               *)

\* The transaction of enqueue commits.
Insert(e) ==
    /\ producer[e] = "idle"
    /\ producer' = [producer EXCEPT ![e] = "committed"]
    /\ event' = Become({e}, "early")
    /\ UNCHANGED <<wake, pc, timer, batch>>

\* The coroutine of enqueue runs again.
Notify(e) ==
    /\ producer[e] = "committed"
    /\ producer' = [producer EXCEPT ![e] = "done"]
    /\ wake' = TRUE
    /\ UNCHANGED <<event, pc, timer, batch>>

\* Time passes for an event.
Ripen(e) ==
    /\ event[e] = "early"
    /\ event' = Become({e}, "ready")
    /\ UNCHANGED <<producer, wake, pc, timer, batch>>

-------------------------------------------------------------------------------
(* The consumer                                                            *)

\* A mistake to rule out: the flag is cleared last, just before the wait.
AfterwardsClearedLast ==
    [first |-> "second", second |-> "timer", timer |-> "clear", clear |-> "asleep"]

\* What follows each step of _next_batch that found nothing.
Afterwards ==
    [first |-> "clear", clear |-> "second", second |-> "timer", timer |-> "asleep"]

\* next_batch: some ready events are claimed, or there are none.
ClaimReady ==
    /\ pc \in {"first", "second"}
    /\ IF Ready = {}
       THEN /\ pc' = Afterwards[pc]
            /\ UNCHANGED <<event, batch>>
       ELSE \E chosen \in (SUBSET Ready) \ {{}} :
                /\ event' = Become(chosen, "claimed")
                /\ batch' = chosen
                /\ pc' = "working"
    /\ UNCHANGED <<producer, wake, timer>>

ClearWake ==
    /\ pc = "clear"
    /\ wake' = FALSE
    /\ pc' = Afterwards[pc]
    /\ UNCHANGED <<event, producer, timer, batch>>

\* seconds_until_ready looks at every live event.
Timed == Live

SecondsUntilReady ==
    /\ pc = "timer"
    /\ timer' = Timed
    /\ pc' = Afterwards[pc]
    /\ UNCHANGED <<event, producer, wake, batch>>

\* wait returns: the flag is set, or the timer went off.
WaitReturns ==
    /\ pc = "asleep"
    /\ wake \/ timer \intersect Ready # {}
    /\ pc' = "first"
    /\ timer' = {}
    /\ UNCHANGED <<event, producer, wake, batch>>

\* The batch is acknowledged or dead-lettered.
SettleBatch ==
    /\ pc = "working"
    /\ event' = Become(batch, "settled")
    /\ batch' = {}
    /\ pc' = "first"
    /\ UNCHANGED <<producer, wake, timer>>

\* The batch is put back: rescheduled, or left to its lease when the settling
\* itself failed.
PutBack ==
    /\ pc = "working"
    /\ event' = Become(batch, "early")
    /\ batch' = {}
    /\ pc' \in {"first", "rescheduled"}
    /\ UNCHANGED <<producer, wake, timer>>

\* _reschedule_public sets the flag after its commit.
NotifySelf ==
    /\ pc = "rescheduled"
    /\ wake' = TRUE
    /\ pc' = "first"
    /\ UNCHANGED <<event, producer, timer, batch>>

\* The process dies and starts again: the table stays, the rest is gone.  The
\* claims of the dead process are left to their lease.
Restart ==
    /\ event' = Become(batch, "early")
    /\ producer' = [e \in Events |-> IF producer[e] = "committed" THEN "done" ELSE producer[e]]
    /\ wake' = FALSE
    /\ pc' = "first"
    /\ timer' = {}
    /\ batch' = {}

Consume ==
    \/ ClaimReady
    \/ ClearWake
    \/ SecondsUntilReady
    \/ WaitReturns
    \/ NotifySelf

WakeNext ==
    \/ \E e \in Events : Insert(e) \/ Notify(e) \/ Ripen(e)
    \/ Consume
    \/ SettleBatch
    \/ PutBack
    \/ Restart

WakeSpec == WakeInit /\ [][WakeNext]_wakeVars

\* The event loop runs what is ready to run, time passes, and the work on a
\* batch ends one way or the other.  Nobody has to enqueue, to fail or to crash.
WakeFairness ==
    /\ \A e \in Events : WF_wakeVars(Notify(e)) /\ WF_wakeVars(Ripen(e))
    /\ WF_wakeVars(Consume)
    /\ WF_wakeVars(SettleBatch \/ PutBack)

WakeFairSpec == WakeSpec /\ WakeFairness

-------------------------------------------------------------------------------
(* Properties                                                              *)

\* When the consumer sleeps and nothing has set its flag, there is no event it
\* could sleep over: its timeout takes each event into account, unless the one
\* who committed the event is about to set the flag (cogs.py:12005-12028,
\* autonomy.py:226-246).
NoLostWakeUp ==
    (pc = "asleep" /\ ~wake)
        => \A e \in Live : e \in timer \/ producer[e] = "committed"

\* Whoever is ready is worked on in the end, if the consumer does not keep
\* dying: no interleaving of producers, timers and reschedules puts it to sleep
\* for good.
ReadyIsClaimed ==
    <>[][~Restart]_wakeVars => ((Ready # {}) ~> (pc = "working"))

===============================================================================
