------------------------------- MODULE MCWakeUps -------------------------------
(* Tasks that sleep until they are woken: three of them on two keys of a lock  *)
(* pool, a holder, a waiter to wake or cancel and a newcomer, where three lock *)
(* states are enough for every task to hold one; and the consumer of the       *)
(* autonomous event queue with three events (one it works on, one that waits,  *)
(* one to come).  They share nothing, so that each runs while the other rests. *)
EXTENDS KeyedAsyncLockPool

CONSTANT Events

VARIABLES
    part,  \* which of the two runs
    event, producer, wake, consumer, timer, batch

Autonomy == INSTANCE AutonomyWake WITH pc <- consumer

eventVars == <<event, producer, wake, consumer, timer, batch>>
allVars == <<part, vars, eventVars>>

InPool(A) == part = "pool" /\ A /\ UNCHANGED <<part, eventVars>>
InEvents(A) == part = "events" /\ A /\ UNCHANGED <<part, vars>>

MCInit == part \in {"pool", "events"} /\ Init /\ Autonomy!WakeInit

\* The model stops here, not the consumer.
EventsOver ==
    /\ part = "events" /\ \A e \in Events : event[e] = "settled"
    /\ UNCHANGED allVars

MCNext == InPool(Next) \/ InEvents(Autonomy!WakeNext) \/ EventsOver

\* The fairness of both modules.
MCSpec ==
    /\ MCInit /\ [][MCNext]_allVars
    /\ \A t \in Tasks :
        /\ WF_allVars(InPool(Resume(t)))
        /\ WF_allVars(InPool(ResumeCancelled(t)))
        /\ WF_allVars(InPool(Leave(t)))
        /\ WF_allVars(InPool(Cleanup(t)))
    /\ \A e \in Events : /\ WF_allVars(InEvents(Autonomy!Notify(e)))
                         /\ WF_allVars(InEvents(Autonomy!Ripen(e)))
    /\ WF_allVars(InEvents(Autonomy!Consume))
    /\ WF_allVars(InEvents(Autonomy!SettleBatch \/ Autonomy!PutBack))

\* Whatever event is ready is worked on in the end, if the consumer does not keep
\* dying (cogs.py:11941-12003).
ReadyIsClaimed == Autonomy!ReadyIsClaimed

===============================================================================
