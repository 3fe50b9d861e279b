------------------------------ MODULE TaskRouting ------------------------------
(***************************************************************************)
(* How a mention that arrives while a turn runs in its channel is routed.  *)
(* The host records it as a candidate, steers a pointer to it into the     *)
(* turn, and waits for the model's tool call to decide: attach it to the   *)
(* running task, finish or cancel that task, or run it separately.  The    *)
(* call in turn waits until the host has committed the decision to the row *)
(* and confirms it, applies it to the turn, and the host marks the row as  *)
(* applied (service.py:576, providers/codex.py:2013).  Both sides give up  *)
(* after 45 seconds; the turn may end, be retried or be cancelled and the  *)
(* process may die at any point between.  What was not applied becomes a   *)
(* separate task, at once or at the next start (cogs.py:11248).            *)
(*                                                                         *)
(* There is one task that others follow up on; each follow-up arrives      *)
(* once.  Left out: the limits on follow-ups and the evidence budget (they *)
(* refuse before anything is recorded, or decide for a separate task), the *)
(* reading of the message before its decision, and what becomes of a       *)
(* separate turn once it has begun.                                        *)
(***************************************************************************)
EXTENDS Naturals

CONSTANTS
    FollowUps,   \* mentions that arrive while the task runs
    MayCancel,   \* those whose author may cancel the task
    MaxStarts    \* bound: how often the process starts

ASSUME RoutingAssumption == MayCancel \subseteq FollowUps /\ MaxStarts \in Nat \ {0}

VARIABLES
    task,        \* agent_tasks: the state of the running task
    route,       \* agent_task_events: the route of each follow-up
    marked,      \* rows of routes into the task that are marked as applied
    own,         \* agent_tasks, agent_requests: the follow-up's own task
    phase,       \* what the coroutine of the running task does
    attempt,     \* which attempt of the provider it is at
    pending,     \* candidates the attempt's budget knows
    decision,    \* what the model's call decided for each candidate
    confirmed,   \* pending candidates whose decision the host has confirmed
    taken,       \* what the turn has applied
    authorized,  \* follow-ups whose authority the turn may use
    crossed,     \* follow-ups under whose id a write crossed its barrier
    host,        \* how far the handler of each follow-up is
    choice,      \* the decision it commits
    told,        \* follow-ups whose author was shown an error
    up,          \* whether the process runs
    starts,      \* how often it has started
    recovery,    \* what the recovery at the start of the process does
    old,         \* rows that are older than this start
    todo,        \* follow-ups the recovery has still to look at
    left         \* follow-ups an error of the recovery left to the next start

rows == <<task, route, marked, own>>
candidates == <<pending, decision, confirmed>>
turn == <<phase, attempt, candidates, taken, authorized, crossed>>
handlers == <<host, choice, told>>
process == <<up, starts, recovery, old, todo, left>>
routingVars == <<rows, turn, handlers, process>>

IntoTask == {"attach", "finish", "cancel"}
Decisions == IntoTask \union {"separate"}
OpenStates == {"active", "finishing"}
Hosts == {"idle", "recording", "offering", "steering", "deciding", "committing",
          "confirming", "applying", "marking", "cancelling", "reverting",
          "responding", "recovering", "done"}

RoutingTypeOK ==
    /\ task \in OpenStates \union {"completed", "failed", "cancelled"}
    /\ route \in [FollowUps -> Decisions \union {"none", "candidate"}]
    /\ marked \in SUBSET FollowUps
    /\ own \in [FollowUps -> {"none", "waiting", "begun", "failed"}]
    /\ phase \in {"turn", "between", "ending", "gone"}
    /\ attempt \in 1 .. 2
    /\ pending \in SUBSET FollowUps
    /\ decision \in [FollowUps -> Decisions \union {"open"}]
    /\ confirmed \in SUBSET pending
    /\ taken \in [FollowUps -> IntoTask \union {"none"}]
    /\ authorized \in SUBSET FollowUps
    /\ crossed \in SUBSET FollowUps
    /\ host \in [FollowUps -> Hosts]
    /\ choice \in [FollowUps -> Decisions]
    /\ told \in SUBSET FollowUps
    /\ up \in BOOLEAN
    /\ starts \in 1 .. MaxStarts
    /\ recovery \in {"task", "running", "done"}
    /\ old \in SUBSET FollowUps
    /\ todo \in SUBSET FollowUps
    /\ left \in SUBSET FollowUps

RoutingInit ==
    /\ task = "active"
    /\ route = [f \in FollowUps |-> "none"]
    /\ marked = {}
    /\ own = [f \in FollowUps |-> "none"]
    /\ phase = "turn"
    /\ attempt = 1
    /\ pending = {}
    /\ decision = [f \in FollowUps |-> "open"]
    /\ confirmed = {}
    /\ taken = [f \in FollowUps |-> "none"]
    /\ authorized = {}
    /\ crossed = {}
    /\ host = [f \in FollowUps |-> "idle"]
    /\ choice = [f \in FollowUps |-> "separate"]
    /\ told = {}
    /\ up = TRUE
    /\ starts = 1
    /\ recovery = "done"
    /\ old = {}
    /\ todo = {}
    /\ left = {}

-------------------------------------------------------------------------------
(* The turn of the running task                                            *)

\* Candidates are dropped from the budget: what the model has not decided is
\* to be separate, and a call that waits for the host learns that it is refused.
ResolveCandidates(gone) ==
    /\ pending' = pending \ gone
    /\ confirmed' = confirmed \ gone
    /\ decision' = [f \in FollowUps |->
           IF f \in gone /\ decision[f] = "open" THEN "separate" ELSE decision[f]]

\* The attempt ends, well or not; one that may be made again is.
TurnEnds ==
    /\ phase = "turn"
    /\ ResolveCandidates(pending)
    /\ phase' \in {"ending"} \union {p \in {"between"} : attempt = 1}
    /\ UNCHANGED <<rows, attempt, taken, authorized, crossed, handlers, process>>

\* The second attempt has a budget of its own.
TurnAgain ==
    /\ phase = "between"
    /\ \/ task # "cancelled" /\ phase' = "turn" /\ attempt' = 2
       \/ phase' = "ending" /\ UNCHANGED attempt
    /\ UNCHANGED <<rows, candidates, taken, authorized, crossed, handlers, process>>

\* The outcome is recorded, unless the store fails or the task was cancelled.
TaskEnds ==
    /\ phase = "ending"
    /\ phase' = "gone"
    /\ task' \in {task} \union {t \in {"completed", "failed"} : task \in OpenStates}
    /\ UNCHANGED <<route, marked, own, attempt, candidates, taken, authorized, crossed,
                   handlers, process>>

Running == phase # "gone"

UserCancels ==
    /\ Running /\ task \in OpenStates
    /\ task' = "cancelled"
    /\ UNCHANGED <<route, marked, own, turn, handlers, process>>

-------------------------------------------------------------------------------
(* The model's call turn.route_task_event                                  *)

\* The call stages its decision and waits for the host.
Stage(f, d) ==
    /\ f \in pending /\ decision[f] = "open"
    /\ decision' = [decision EXCEPT ![f] = d]
    /\ UNCHANGED <<rows, phase, attempt, pending, confirmed, taken, authorized, crossed,
                   handlers, process>>

\* The host has confirmed, and the decision takes effect.
Apply(f) ==
    /\ f \in confirmed
    /\ taken' = [taken EXCEPT ![f] = IF decision[f] = "separate" THEN @ ELSE decision[f]]
    /\ authorized' = authorized \union {g \in {f} : decision[f] = "attach"}
    /\ ResolveCandidates({f})
    /\ UNCHANGED <<rows, phase, attempt, crossed, handlers, process>>

\* The host has refused, or has not answered in time.
GiveUp(f) ==
    /\ f \in pending \ confirmed /\ decision[f] # "open"
    /\ ResolveCandidates({f})
    /\ UNCHANGED <<rows, phase, attempt, taken, authorized, crossed, handlers, process>>

\* The turn writes by the authority of an attached follow-up.  (A call of an
\* attempt that has ended may do so late.)
Write(f) ==
    /\ f \in authorized \ crossed
    /\ crossed' = crossed \union {f}
    /\ UNCHANGED <<rows, phase, attempt, candidates, taken, authorized, handlers, process>>

-------------------------------------------------------------------------------
(* The handler of a follow-up: _handle_mention, route_candidate            *)

HostAt(f, h) == host[f] = h
Go(f, h) == host' = [host EXCEPT ![f] = h]
Choose(f, d) == choice' = [choice EXCEPT ![f] = d]
Over(f) == Go(f, "done") /\ Choose(f, "separate")

\* The handler fails, and says so; the row stays as it is.
Error(f) ==
    /\ Over(f)
    /\ told' = told \union {f}

unchangedByHost == <<phase, attempt, taken, authorized, crossed, process>>

\* There is an origin in the channel while the provider works on its turn.
Arrive(f) ==
    /\ HostAt(f, "idle") /\ phase \in {"turn", "between"}
    /\ Go(f, "recording")
    /\ UNCHANGED <<rows, turn, choice, told, process>>

Record(f) ==
    /\ HostAt(f, "recording")
    /\ \/ /\ task \in OpenStates
          /\ route' = [route EXCEPT ![f] = "candidate"]
          /\ own' = [own EXCEPT ![f] = "waiting"]
          /\ Go(f, "offering")
          /\ UNCHANGED <<choice, told>>
       \/ /\ task \notin OpenStates
          /\ Go(f, "responding")
          /\ UNCHANGED <<route, own, choice, told>>
       \/ Error(f) /\ UNCHANGED <<route, own>>
    /\ UNCHANGED <<task, marked, turn, process>>

\* The candidate is offered to the turn, if there is one and it may take it.
Offer(f) ==
    /\ HostAt(f, "offering")
    /\ \/ /\ phase = "turn"
          /\ pending' = pending \union {f}
          /\ Go(f, "steering")
          /\ UNCHANGED choice
       \/ /\ Go(f, "committing")
          /\ Choose(f, "separate")
          /\ UNCHANGED pending
    /\ UNCHANGED <<rows, unchangedByHost, decision, confirmed, told>>

\* The app-server takes the pointer, or refuses it or is gone.
Steer(f) ==
    /\ HostAt(f, "steering")
    /\ \/ Go(f, "deciding") /\ UNCHANGED <<candidates, choice>>
       \/ /\ ResolveCandidates(pending \intersect {f})
          /\ Go(f, "committing")
          /\ Choose(f, "separate")
    /\ UNCHANGED <<rows, unchangedByHost, told>>

\* The model has decided; a cancellation that its author is not allowed becomes
\* a separate task, and is refused to the call.
Decide(f) ==
    /\ HostAt(f, "deciding") /\ decision[f] # "open"
    /\ Go(f, "committing")
    /\ Choose(f, IF decision[f] = "cancel" /\ f \notin MayCancel THEN "separate"
                 ELSE decision[f])
    /\ UNCHANGED <<rows, unchangedByHost, candidates, told>>

\* The host waits no longer, whatever comes in at the same moment.
DecideTimeout(f) ==
    /\ HostAt(f, "deciding")
    /\ ResolveCandidates(pending \intersect {f})
    /\ Go(f, "committing")
    /\ Choose(f, "separate")
    /\ UNCHANGED <<rows, unchangedByHost, told>>

\* route_task_candidate in its transaction; a task that has ended meanwhile
\* refuses (which the call is told), and the follow-up is committed as separate.
Commit(f) ==
    /\ HostAt(f, "committing") /\ route[f] = "candidate"
    /\ IF choice[f] = "separate" \/ task \in OpenStates
       THEN /\ route' = [route EXCEPT ![f] = choice[f]]
            /\ task' = IF choice[f] = "finish" THEN "finishing" ELSE task
            /\ Go(f, "confirming")
            /\ UNCHANGED choice
       ELSE /\ Choose(f, "separate")
            /\ UNCHANGED <<route, task, host>>
    /\ UNCHANGED <<marked, own, unchangedByHost, candidates, told>>

\* The store fails, or the row is a candidate no more.
CommitFails(f) ==
    /\ HostAt(f, "committing")
    /\ Error(f)
    /\ UNCHANGED <<rows, unchangedByHost, candidates>>

\* Where the handler goes on when the turn has not applied the route.
Unapplied(f) == IF choice[f] = "separate" THEN "responding" ELSE "reverting"

\* The call learns that its decision is durable, if it still waits for that.
Confirm(f) ==
    /\ HostAt(f, "confirming")
    /\ IF f \in pending /\ decision[f] = choice[f]
       THEN confirmed' = confirmed \union {f} /\ Go(f, "applying")
       ELSE Go(f, Unapplied(f)) /\ UNCHANGED confirmed
    /\ UNCHANGED <<rows, unchangedByHost, pending, decision, choice, told>>

\* The turn has applied the route, or has dropped the candidate.  (A call that
\* was told applies it in the next steps of the loop, long before the host
\* gives up.)
Answered(f) ==
    /\ HostAt(f, "applying") /\ f \notin pending
    /\ Go(f, IF taken[f] # choice[f] THEN Unapplied(f)
             ELSE IF choice[f] = "cancel" THEN "cancelling" ELSE "marking")
    /\ UNCHANGED <<rows, turn, choice, told, process>>

Mark(f) ==
    /\ HostAt(f, "marking") /\ route[f] = choice[f]
    /\ marked' = marked \union {f}
    /\ Over(f)
    /\ UNCHANGED <<task, route, own, turn, told, process>>

\* The store fails, or the row says something else by now.
MarkFails(f) ==
    /\ HostAt(f, "marking")
    /\ Error(f)
    /\ UNCHANGED <<rows, turn, process>>

\* The task is cancelled and the row marked in one transaction, if the task
\* still runs; or the store fails.
CancelTask(f) ==
    /\ HostAt(f, "cancelling")
    /\ IF Running /\ task \in OpenStates /\ route[f] = "cancel" /\ f \notin marked
       THEN \/ /\ task' = "cancelled"
               /\ marked' = marked \union {f}
               /\ Over(f)
               /\ UNCHANGED told
            \/ Error(f) /\ UNCHANGED <<task, marked>>
       ELSE Go(f, "reverting") /\ UNCHANGED <<task, marked, choice, told>>
    /\ UNCHANGED <<route, own, turn, process>>

\* default_task_candidate_to_separate: a task stays finishing only for another
\* follow-up that finishes it.
Default(f) ==
    /\ f \notin marked
    /\ route' = [route EXCEPT ![f] = "separate"]
    /\ task' = IF /\ route[f] = "finish" /\ task = "finishing"
                  /\ \A g \in FollowUps \ {f} : route[g] # "finish"
               THEN "active" ELSE task
    /\ UNCHANGED <<marked, own>>

Revert(f) ==
    /\ HostAt(f, "reverting")
    /\ \/ Default(f) /\ Go(f, "responding") /\ Choose(f, "separate") /\ UNCHANGED told
       \/ Error(f) /\ UNCHANGED rows
    /\ UNCHANGED <<turn, process>>

\* The follow-up's own turn begins, or is refused or fails before it does.
Respond(f) ==
    /\ HostAt(f, "responding")
    /\ \/ /\ own' = [own EXCEPT ![f] = "begun"]
          /\ Go(f, "done")
          /\ UNCHANGED <<choice, told>>
       \/ Error(f) /\ UNCHANGED own
    /\ UNCHANGED <<task, route, marked, turn, process>>

HostStep(f) ==
    \/ Record(f) \/ Offer(f) \/ Steer(f) \/ Decide(f) \/ DecideTimeout(f)
    \/ Commit(f) \/ CommitFails(f) \/ Confirm(f) \/ Answered(f)
    \/ Mark(f) \/ MarkFails(f) \/ CancelTask(f) \/ Revert(f) \/ Respond(f)

-------------------------------------------------------------------------------
(* Crash, restart and recovery                                             *)

ProcessEnds ==
    /\ up /\ starts < MaxStarts
    /\ up' = FALSE
    /\ phase' = "gone"
    /\ attempt' = 1
    /\ pending' = {}
    /\ decision' = [f \in FollowUps |-> "open"]
    /\ confirmed' = {}
    /\ authorized' = {}
    /\ host' = [f \in FollowUps |-> IF host[f] = "idle" THEN "idle" ELSE "done"]
    /\ choice' = [f \in FollowUps |-> "separate"]
    /\ recovery' = "done"
    /\ todo' = {}
    /\ UNCHANGED <<rows, taken, crossed, told, starts, old, left>>

\* Rows made before the start are the recovery's; left ones are tried again.
StartAgain ==
    /\ ~up
    /\ up' = TRUE
    /\ starts' = starts + 1
    /\ recovery' = "task"
    /\ old' = {f \in FollowUps : route[f] # "none"}
    /\ left' = {}
    /\ UNCHANGED <<rows, turn, handlers, todo>>

\* The interrupted task runs again from its own message, or is given up, or an
\* error leaves it as it is.
RecoverTask ==
    /\ recovery = "task"
    /\ recovery' = "running"
    /\ \/ /\ task \in OpenStates
          /\ task' = "active"
          /\ phase' = "turn"
          /\ attempt' = 1
       \/ /\ task \in OpenStates
          /\ task' = "failed"
          /\ UNCHANGED <<phase, attempt>>
       \/ UNCHANGED <<task, phase, attempt>>
    /\ UNCHANGED <<route, marked, own, candidates, taken, authorized, crossed, handlers,
                   up, starts, old, todo, left>>

\* A mistake to rule out: only rows without a decision are looked for.
UndecidedOnly(f) == own[f] = "waiting" /\ route[f] = "candidate"

\* A mistake to rule out: the rows of this life are recovered with the others.
UnroutedOfAnyAge(f) ==
    own[f] = "waiting" /\ (route[f] \in {"candidate", "separate"} \/ f \notin marked)

Unrouted(f) ==
    f \in old /\ own[f] = "waiting"
        /\ (route[f] \in {"candidate", "separate"} \/ f \notin marked)

\* Once the task has ended, the rows without a route, or with one that was not
\* applied, are listed.
ListUnrouted ==
    /\ recovery = "running" /\ ~Running
    /\ recovery' = "done"
    /\ todo' = {f \in FollowUps : Unrouted(f)}
    /\ UNCHANGED <<rows, turn, handlers, up, starts, old, left>>

RecoveryIdle == \A f \in FollowUps : ~HostAt(f, "recovering")

\* They are made separate, one after the other.
RecoverFollowUp(f) ==
    /\ f \in todo /\ RecoveryIdle
    /\ todo' = todo \ {f}
    /\ \/ Default(f) /\ Go(f, "recovering") /\ UNCHANGED left
       \/ left' = left \union {f} /\ UNCHANGED <<rows, host>>
    /\ UNCHANGED <<turn, choice, told, up, starts, recovery, old>>

\* Whether a write crossed the barrier under the follow-up's id.
ReplayBarrier(f) == f \in crossed

\* The follow-up runs on its own, or is given up: something was written, its
\* message is gone, or its turn is refused; or an error leaves it.
RecoverSeparately(f) ==
    /\ HostAt(f, "recovering")
    /\ \/ ~ReplayBarrier(f) /\ own' = [own EXCEPT ![f] = "begun"] /\ UNCHANGED left
       \/ own' = [own EXCEPT ![f] = "failed"] /\ UNCHANGED left
       \/ left' = left \union {f} /\ UNCHANGED own
    /\ Go(f, "done")
    /\ UNCHANGED <<task, route, marked, turn, choice, told, up, starts, recovery, old, todo>>

RecoveryStep ==
    \/ RecoverTask \/ ListUnrouted
    \/ \E f \in FollowUps : RecoverFollowUp(f) \/ RecoverSeparately(f)

-------------------------------------------------------------------------------
TurnStep == TurnEnds \/ TurnAgain \/ TaskEnds

CallStep(f) == Apply(f) \/ GiveUp(f)

\* What happens whatever the model and the people do.
RoutingStep ==
    \/ TurnStep
    \/ \E f \in FollowUps : HostStep(f) \/ CallStep(f)
    \/ StartAgain \/ RecoveryStep

RoutingNext ==
    \/ RoutingStep
    \/ UserCancels
    \/ \E f \in FollowUps : Arrive(f) \/ Write(f) \/ \E d \in Decisions : Stage(f, d)
    \/ ProcessEnds

\* Nothing is under way any more.
Quiet ==
    /\ up /\ ~Running /\ recovery = "done" /\ todo = {}
    /\ \A f \in FollowUps : host[f] \in {"idle", "done"}

RoutingSpec == RoutingInit /\ [][RoutingNext]_routingVars

\* As long as something can go on, something does: the loop runs, the waits are
\* bounded, and the process is started again.  Nothing is asked of the model.
FairRouting == RoutingSpec /\ WF_routingVars(RoutingStep)

-------------------------------------------------------------------------------
(* Properties                                                              *)

\* The handler is over and the row does not say that the route was applied.
Unmarked(f) == f \notin marked /\ host[f] \in {"recovering", "done"}

\* A follow-up has one fate.  What the turn took, its row says, unless the mark
\* failed or a crash came first; what is marked was taken so and never runs
\* separately; a follow-up under whose id the turn wrote does not run again
\* (service.py:576-843, cogs.py:11248).  A task finishes or is cancelled for a
\* follow-up only by a row that says so and an author who may.
OneFate ==
    /\ \A f \in FollowUps :
        /\ taken[f] \in {"attach", "finish"} /\ ~Unmarked(f) => route[f] = taken[f]
        /\ f \in marked => route[f] = taken[f] /\ own[f] = "waiting"
        /\ f \in crossed => own[f] # "begun"
        /\ f \in marked /\ taken[f] = "cancel" => task = "cancelled" /\ f \in MayCancel
    /\ task = "finishing" => \E f \in FollowUps : route[f] = "finish"

\* No mention disappears: one that was recorded is applied to the running task,
\* or its own turn begins or is given up with a reason, or its author is shown
\* an error, unless the recovery leaves it to the next start (README.md:378).
NoneDisappears ==
    <>[](\A f \in FollowUps :
            route[f] # "none" =>
                \/ f \in marked \union told \union left
                \/ own[f] \in {"begun", "failed"})

===============================================================================
