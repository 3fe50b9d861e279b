------------------------------ MODULE AgentTurn ------------------------------
(***************************************************************************)
(* How an agent turn asks for a write, and what keeps the write from being *)
(* repeated.  A turn (AgentService.respond) runs on the shared app-server  *)
(* (providers/codex.py): one attempt and, if the runtime fails before a    *)
(* write was attempted, a second one on a fresh app-server.  The calls the *)
(* model makes are tasks of their own (_handle_dynamic_tool): each checks, *)
(* is counted as an attempted write, is planned in the ledger of external  *)
(* effects (actions.py), crosses its replay barrier, and acts.  A crash    *)
(* leaves the turn's row in progress; mentions are then recovered          *)
(* (cogs.py:11157), and events of the autonomous agent run again.          *)
(*                                                                         *)
(* Each attempt asks for one write, which is not idempotent.  "open" is a  *)
(* write of which the ledger says nothing that would hold a replay back:   *)
(* no row, or one planned, rejected or cancelled; "reconciled" counts as   *)
(* unknown.  The traces of started writes, the barrier's other part, are   *)
(* written on a best effort: here they always fail, and a recovery may     *)
(* find the message gone instead.  The routing of follow-up messages is in *)
(* TaskRouting; usage, the delivery of the answer and the records for Undo *)
(* are left out, and so is a thread that cannot be resumed (it fails       *)
(* before any call).                                                       *)
(***************************************************************************)
EXTENDS Naturals

CONSTANTS
    Mentions,    \* turns of explicit mentions
    Events,      \* turns of the autonomous agent
    Writers,     \* bound: the turns that ask for writes
    MaxBatches,  \* bound: how often the turn of a batch of events is run
    MaxAttempts, \* bound: attempts of a turn, over all lives of the process
    MaxLives     \* bound: how often the process starts

AgentTurns == Mentions \union Events

ASSUME TurnAssumption ==
    /\ Mentions \intersect Events = {}
    /\ Writers \subseteq AgentTurns
    /\ MaxAttempts \in Nat \ {0}
    /\ MaxBatches \in Nat
    /\ MaxLives \in Nat \ {0}

Calls == Writers \X (1 .. MaxAttempts)

VARIABLES
    row,      \* agent_requests: the durable state of each turn
    effect,   \* agent_external_effects: the ledger's state of each call
    acted,    \* calls whose write happened
    up,       \* whether the process runs
    life,     \* which life of the process this is
    todo,     \* interrupted mentions the recovery has still to look at
    stage,    \* what the task of each turn does
    retried,  \* turns whose respond() is at its second attempt
    follow,   \* what a failed attempt is followed by, once the runtime is reset
    attempt,  \* attempts of each turn so far
    server,   \* whether there is an app-server
    current,  \* turns whose attempt was started on that app-server
    call,     \* how far the task of each call is
    lifeOf,   \* history: the life in which a call was made
    orphan,   \* history: calls still checking when their attempt ended
    left      \* history: mentions the recovery left to the next start

durable == <<row, effect, acted>>
volatile == <<todo, stage, retried, follow, attempt, server, current, call>>
process == <<up, life>>
history == <<lifeOf, orphan, left>>
turnVars == <<durable, volatile, process, history>>

RowStates == {"new", "in_progress", "completed", "failed", "cancelled"}
EffectStates == {"open", "dispatched", "confirmed", "unknown"}
Stages == {"idle", "starting", "active", "broken", "closing"}
Follows == {"none", "retry", "completed", "failed"}
RunningCalls == {"checking", "attempted", "dispatched"}
CallStates == RunningCalls \union {"none", "succeeded", "stopped", "lost"}

TurnTypeOK ==
    /\ row \in [AgentTurns -> RowStates]
    /\ effect \in [Calls -> EffectStates]
    /\ acted \in SUBSET Calls
    /\ up \in BOOLEAN
    /\ life \in 1 .. MaxLives
    /\ todo \in SUBSET Mentions
    /\ stage \in [AgentTurns -> Stages]
    /\ retried \in SUBSET AgentTurns
    /\ follow \in [AgentTurns -> Follows]
    /\ attempt \in [AgentTurns -> 0 .. MaxAttempts]
    /\ server \in BOOLEAN
    /\ current \in SUBSET AgentTurns
    /\ call \in [Calls -> CallStates]
    /\ lifeOf \in [Calls -> 0 .. MaxLives]
    /\ orphan \in SUBSET Calls
    /\ left \in SUBSET Mentions

TurnInit ==
    /\ row = [t \in AgentTurns |-> "new"]
    /\ effect = [c \in Calls |-> "open"]
    /\ acted = {}
    /\ up = TRUE
    /\ life = 1
    /\ todo = {}
    /\ stage = [t \in AgentTurns |-> "idle"]
    /\ retried = {}
    /\ follow = [t \in AgentTurns |-> "none"]
    /\ attempt = [t \in AgentTurns |-> 0]
    /\ server = FALSE
    /\ current = {}
    /\ call = [c \in Calls |-> "none"]
    /\ lifeOf = [c \in Calls |-> 0]
    /\ orphan = {}
    /\ left = {}

Call(t) == <<t, attempt[t]>>
Calling(t) == Call(t) \in Calls /\ call[Call(t)] \in RunningCalls
CallsOf(t) == {c \in Calls : c[1] = t}
Closing == \E t \in AgentTurns : stage[t] = "closing"

-------------------------------------------------------------------------------
(* The task of a turn: AgentService.respond and the provider's respond     *)

BeginTurn(t) ==
    /\ row' = [row EXCEPT ![t] = "in_progress"]
    /\ stage' = [stage EXCEPT ![t] = "starting"]

EndTurn(t, state) ==
    /\ row' = [row EXCEPT ![t] = IF @ = "in_progress" THEN state ELSE @]
    /\ stage' = [stage EXCEPT ![t] = "idle"]
    /\ follow' = [follow EXCEPT ![t] = "none"]
    /\ retried' = retried \ {t}
    /\ current' = current \ {t}
    /\ todo' = todo \ {t}

unchangedByBegin == <<effect, acted, todo, retried, follow, attempt, server, current,
                      call, process, history>>

Mention(t) ==
    /\ up /\ t \in Mentions /\ row[t] = "new"
    /\ BeginTurn(t)
    /\ UNCHANGED unchangedByBegin

\* The batch of events is claimed, the first time or again after a failure or
\* a restart.
ClaimBatch(t) ==
    /\ up /\ t \in Events /\ stage[t] = "idle"
    /\ row[t] \in {"new", "in_progress", "failed"}
    /\ attempt[t] + 2 <= 2 * MaxBatches
    /\ BeginTurn(t)
    /\ UNCHANGED unchangedByBegin

StartAttempt(t) ==
    /\ stage[t] = "starting"
    /\ ~Closing
    /\ attempt[t] < MaxAttempts
    /\ server' = TRUE
    /\ current' = current \union {t}
    /\ stage' = [stage EXCEPT ![t] = "active"]
    /\ attempt' = [attempt EXCEPT ![t] = @ + 1]
    /\ UNCHANGED <<durable, todo, retried, follow, call, process, history>>

\* The model ends its turn once its call has been answered.
Complete(t) ==
    /\ stage[t] = "active"
    /\ ~Calling(t)
    /\ EndTurn(t, "completed")
    /\ UNCHANGED <<effect, acted, attempt, server, call, process, history>>

\* A mistake to rule out: a write counts once it has returned.
WriteReturned(c) == c \in Calls /\ call[c] \in {"succeeded", "lost"}

\* What the budget of an attempt says of its writes.
WriteAttempted(c) == c \in Calls /\ call[c] \notin {"none", "checking"}

\* The watchdog expires or the transport fails.  A first attempt that has
\* attempted no write is made again; one that has delivered its answer stands.
AttemptFails(t) ==
    /\ stage[t] = "active"
    /\ stage' = [stage EXCEPT ![t] = "broken"]
    /\ \E next \in Follows \ {"none"} :
        /\ next = "retry" <=> ~WriteAttempted(Call(t)) /\ t \notin retried
        /\ next = "completed" => Call(t) \in Calls /\ call[Call(t)] = "succeeded"
        /\ follow' = [follow EXCEPT ![t] = next]
    /\ orphan' = orphan \union {c \in {Call(t)} \intersect Calls : call[c] = "checking"}
    /\ UNCHANGED <<durable, todo, retried, attempt, server, current, call, process, lifeOf, left>>

\* A mistake to rule out: the failure of the attempt is not recorded.
AfterResetUnrecorded(t) ==
    IF follow[t] = "retry"
    THEN /\ stage' = [stage EXCEPT ![t] = "starting"]
         /\ retried' = retried \union {t}
         /\ follow' = [follow EXCEPT ![t] = "none"]
         /\ current' = current \ {t}
         /\ UNCHANGED <<row, todo>>
    ELSE /\ stage' = [stage EXCEPT ![t] = "idle"]
         /\ follow' = [follow EXCEPT ![t] = "none"]
         /\ retried' = retried \ {t}
         /\ current' = current \ {t}
         /\ todo' = todo \ {t}
         /\ UNCHANGED row

AfterReset(t) ==
    IF follow[t] = "retry"
    THEN /\ stage' = [stage EXCEPT ![t] = "starting"]
         /\ retried' = retried \union {t}
         /\ follow' = [follow EXCEPT ![t] = "none"]
         /\ current' = current \ {t}
         /\ UNCHANGED <<row, todo>>
    ELSE EndTurn(t, follow[t])

\* What a call leaves behind when its task is cancelled or its process ends.
Cut(c) ==
    IF call[c] \notin RunningCalls THEN call[c]
    ELSE IF call[c] = "dispatched" THEN "lost" ELSE "stopped"

\* A mistake to rule out: a dispatched effect is closed as if it had only been planned.
CancelCallsAsPlanned ==
    /\ call' = [c \in Calls |-> Cut(c)]
    /\ effect' = [c \in Calls |->
           IF call[c] = "dispatched" THEN "open" ELSE effect[c]]

\* Calls are cancelled.  A dispatch that is being recorded lands all the same,
\* and the closing of one that had been may not.
CancelCalls ==
    /\ call' = [c \in Calls |-> Cut(c)]
    /\ \E late \in SUBSET {c \in Calls : call[c] \in {"attempted", "dispatched"}} :
         effect' = [c \in Calls |->
            CASE call[c] = "attempted" /\ c \in late -> "dispatched"
              [] call[c] = "dispatched" /\ c \notin late -> "unknown"
              [] OTHER -> effect[c]]

OthersActive(t) == \E u \in AgentTurns \ {t} : stage[u] = "active"
NewerServer(t) == server /\ t \notin current

\* The calls of the failed attempt go on.
ResetSkipped(t) ==
    /\ stage[t] = "broken" /\ ~Closing
    /\ NewerServer(t) \/ OthersActive(t)
    /\ AfterReset(t)
    /\ UNCHANGED <<effect, acted, attempt, server, call, process, history>>

ResetApplies(t) ==
    stage[t] = "broken" /\ ~Closing /\ ~NewerServer(t) /\ ~OthersActive(t)

\* The process is gone: the calls are cancelled without a wait.
ResetAtOnce(t) ==
    /\ ResetApplies(t) /\ ~server
    /\ CancelCalls
    /\ AfterReset(t)
    /\ UNCHANGED <<acted, attempt, server, process, history>>

\* The process is told to end and waited for; the calls go on meanwhile.
ResetWaits(t) ==
    /\ ResetApplies(t) /\ server
    /\ stage' = [stage EXCEPT ![t] = "closing"]
    /\ server' = FALSE
    /\ current' = {}
    /\ UNCHANGED <<durable, todo, retried, follow, attempt, call, process, history>>

Close(t) ==
    /\ stage[t] = "closing"
    /\ CancelCalls
    /\ AfterReset(t)
    /\ UNCHANGED <<acted, attempt, server, process, history>>

ServerDies ==
    /\ server
    /\ server' = FALSE
    /\ current' = {}
    /\ UNCHANGED <<durable, todo, stage, retried, follow, attempt, call, process, history>>

\* The requester cancels the task; its calls are not told.
Cancel(t) ==
    /\ t \in Mentions /\ stage[t] # "idle" /\ row[t] = "in_progress"
    /\ EndTurn(t, "cancelled")
    /\ UNCHANGED <<effect, acted, attempt, server, call, process, history>>

-------------------------------------------------------------------------------
(* The task of a call: _handle_dynamic_tool, tools.invoke and the ledger   *)

Proceed(c, to) == call' = [call EXCEPT ![c] = to]
Record(c, state) == effect' = [effect EXCEPT ![c] = state]

unchangedByCalls == <<row, todo, stage, retried, follow, attempt, server, current, process>>

AskForWrite(t) ==
    /\ t \in Writers /\ stage[t] = "active" /\ t \in current
    /\ call[Call(t)] = "none"
    /\ Proceed(Call(t), "checking")
    /\ lifeOf' = [lifeOf EXCEPT ![Call(t)] = life]
    /\ UNCHANGED <<unchangedByCalls, effect, acted, orphan, left>>

\* Authorization, evidence, egress and the requester's confirmation.
RefuseCall(c) ==
    /\ call[c] = "checking"
    /\ Proceed(c, "stopped")
    /\ UNCHANGED <<unchangedByCalls, effect, acted, history>>

\* before_invoke: from here on the attempt counts as having attempted a write.
AttemptWrite(c) ==
    /\ call[c] = "checking"
    /\ Proceed(c, "attempted")
    /\ UNCHANGED <<unchangedByCalls, effect, acted, history>>

\* The ledger does not take the plan, or the adapter refuses before its first
\* request or finds nothing to do.
Reject(c) ==
    /\ call[c] = "attempted"
    /\ Proceed(c, "stopped")
    /\ UNCHANGED <<unchangedByCalls, effect, acted, history>>

Dispatch(c) ==
    /\ call[c] = "attempted"
    /\ Record(c, "dispatched")
    /\ Proceed(c, "dispatched")
    /\ UNCHANGED <<unchangedByCalls, acted, history>>

\* The request reaches its target, perhaps after the call has given it up.
Act(c) ==
    /\ call[c] \in {"dispatched", "lost"}
    /\ c \notin acted
    /\ acted' = acted \union {c}
    /\ UNCHANGED <<unchangedByCalls, call, effect, history>>

Confirm(c) ==
    /\ call[c] = "dispatched" /\ c \in acted
    /\ \E state \in {"confirmed", "unknown"} : Record(c, state)
    /\ Proceed(c, "succeeded")
    /\ UNCHANGED <<unchangedByCalls, acted, history>>

\* The request failed or timed out; nobody knows whether it took effect.
LoseTrack(c) ==
    /\ call[c] = "dispatched"
    /\ \E state \in {"unknown", "dispatched"} : Record(c, state)
    /\ Proceed(c, "lost")
    /\ UNCHANGED <<unchangedByCalls, acted, history>>

-------------------------------------------------------------------------------
(* Crash, restart and recovery                                             *)

Crash ==
    /\ up /\ life < MaxLives
    /\ up' = FALSE
    /\ todo' = {}
    /\ stage' = [t \in AgentTurns |-> "idle"]
    /\ retried' = {}
    /\ follow' = [t \in AgentTurns |-> "none"]
    /\ server' = FALSE
    /\ current' = {}
    /\ call' = [c \in Calls |-> Cut(c)]
    /\ UNCHANGED <<durable, attempt, life, history>>

\* A mistake to rule out: effects under way are taken not to have happened.
RestartAfresh ==
    /\ ~up
    /\ up' = TRUE
    /\ life' = life + 1
    /\ effect' = [c \in Calls |-> IF effect[c] = "dispatched" THEN "open" ELSE effect[c]]
    /\ todo' = {t \in Mentions : row[t] = "in_progress"}
    /\ left' = {}
    /\ UNCHANGED <<row, acted, stage, retried, follow, attempt, server, current, call,
                   lifeOf, orphan>>

\* Effects under way become uncertain; the interrupted mentions are listed.
Restart ==
    /\ ~up
    /\ up' = TRUE
    /\ life' = life + 1
    /\ effect' = [c \in Calls |-> IF effect[c] = "dispatched" THEN "unknown" ELSE effect[c]]
    /\ todo' = {t \in Mentions : row[t] = "in_progress"}
    /\ left' = {}
    /\ UNCHANGED <<row, acted, stage, retried, follow, attempt, server, current, call,
                   lifeOf, orphan>>

CrossedStates == {"dispatched", "unknown", "confirmed"}

ReplayBarrier(t) == \E c \in CallsOf(t) : effect[c] \in CrossedStates

\* The recovery takes the interrupted mentions one after the other.
Recovering(t) == t \in todo /\ \A u \in todo : stage[u] = "idle"

RecoverAgain(t) ==
    /\ Recovering(t)
    /\ ~ReplayBarrier(t)
    /\ BeginTurn(t)
    /\ UNCHANGED unchangedByBegin

\* A write may have happened, or the message is gone.
RecoverAsFailed(t) ==
    /\ Recovering(t)
    /\ EndTurn(t, "failed")
    /\ UNCHANGED <<effect, acted, attempt, server, call, process, history>>

\* Discord or the store fails: the row is left for the next start.  (So it is
\* if the mention is too old to be listed.)
RecoveryError(t) ==
    /\ Recovering(t)
    /\ todo' = todo \ {t}
    /\ left' = left \union {t}
    /\ UNCHANGED <<durable, stage, retried, follow, attempt, server, current, call, process,
                   lifeOf, orphan>>

-------------------------------------------------------------------------------

\* What the task of a turn, or the recovery for it, does of itself.
TaskStep(t) ==
    \/ StartAttempt(t) \/ Complete(t) \/ AttemptFails(t)
    \/ ResetSkipped(t) \/ ResetAtOnce(t) \/ ResetWaits(t) \/ Close(t)
    \/ RecoverAgain(t) \/ RecoverAsFailed(t) \/ RecoveryError(t)

TurnStep(t) ==
    \/ Mention(t) \/ ClaimBatch(t) \/ Cancel(t) \/ AskForWrite(t)
    \/ TaskStep(t)

CallStep(c) ==
    \/ RefuseCall(c) \/ AttemptWrite(c) \/ Reject(c) \/ Dispatch(c)
    \/ Act(c) \/ Confirm(c) \/ LoseTrack(c)

TurnNext ==
    \/ \E t \in AgentTurns : TurnStep(t)
    \/ \E c \in Calls : CallStep(c)
    \/ ServerDies
    \/ Crash
    \/ Restart

TurnSpec == TurnInit /\ [][TurnNext]_turnVars

\* The process starts again, and a turn that was begun goes on (its watchdog
\* ends an attempt in which nothing happens), as does the recovery.  Nothing
\* is asked of the model, of the calls or of the people.
Fairness ==
    /\ WF_turnVars(Restart)
    /\ \A t \in AgentTurns : WF_turnVars(TaskStep(t))

FairTurnSpec == TurnSpec /\ Fairness

-------------------------------------------------------------------------------
(* Properties                                                              *)

Repeated(c, d) == c[1] = d[1] /\ c[2] < d[2] /\ {c, d} \subseteq acted

\* A write of a mention happens in one attempt of its turn only.
WritesOnce == \A c, d \in Calls : c[1] \in Mentions => ~Repeated(c, d)

\* If it does happen in two attempts, they belong to one life of the process,
\* and the first call was still being checked when its attempt ended: neither
\* a retry nor a recovery repeats a write that an attempt had counted.
RepeatsAreOrphans ==
    \A c, d \in Calls : c[1] \in Mentions /\ Repeated(c, d) =>
        c \in orphan /\ lifeOf[c] = lifeOf[d]

\* The ledger says of no write that it happened, or that it did not, wrongly:
\* a confirmed one happened, one still open did not and, its task gone, never
\* will.
LedgerHonest ==
    \A c \in Calls :
        /\ effect[c] = "confirmed" => c \in acted
        /\ effect[c] = "open" => c \notin acted /\ call[c] # "lost"

\* The ledger implements its promise.
Barrier == INSTANCE WriteBarrier WITH
    Writes <- Calls, crossed <- {c \in Calls : effect[c] \in CrossedStates}, done <- acted

ImplementsBarrier == Barrier!Spec

\* A mention that is being worked on, or that the recovery has found, gets to
\* an end, unless the recovery meets an error and leaves it to the next start.
Settles ==
    \A t \in Mentions :
        row[t] = "in_progress" ~> row[t] # "in_progress" \/ t \in left

===============================================================================
