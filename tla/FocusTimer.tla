------------------------------ MODULE FocusTimer ------------------------------
(***************************************************************************)
(* Focus timers and the worker that posts their reminders                  *)
(* (services/focus_timer.py, FocusTimerCog in cogs.py:3546-3785).  A scan  *)
(* claims the rows that are due and delivers one after the other: it looks *)
(* for a reminder posted by an earlier attempt, posts one if there is none,*)
(* saves its id in the row and completes the row.  Telling the agent and   *)
(* the voice channel in between is left out: their failures are ignored.   *)
(* Each step may fail, the row may be cancelled and restored meanwhile,    *)
(* the process may restart, and people may delete the reminder.            *)
(*                                                                         *)
(* A row keeps no lease: a claimed row is "delivering" until the worker    *)
(* settles it or the process starts again.                                 *)
(***************************************************************************)
EXTENDS Integers, Sequences, FiniteSets

CONSTANTS
    Timers, Nothing,
    Duration,      \* of a new timer, in ticks of the clock
    RetryDelay,    \* delay_seconds of retry()
    RestoreDelay,  \* of a restored timer
    Window,        \* how long before due_at the history is searched
    Patience,      \* how long a reminder may stay unrecorded and be found again
    MaxTime,       \* bound: the clock; later instants count as this one
    MaxLives,      \* bound: how often a timer is started or restored
    MaxPosts,      \* bound: reminders posted
    MaxDeleted,    \* bound: reminders deleted by people
    MaxErrors      \* bound: failures of the timer database

ASSUME TimerAssumption ==
    /\ {Duration, RetryDelay, RestoreDelay, Window, Patience} \subseteq Nat
    /\ {MaxTime, MaxLives, MaxPosts, MaxDeleted, MaxErrors} \subseteq Nat
    /\ MaxLives # 0
    /\ Nothing \notin 1 .. MaxPosts
    /\ Nothing \notin Timers

VARIABLES
    now,
    row,           \* the row of each timer; "life" counts its restores
    posts,         \* reminders in the channel, in the order they landed
    worker,        \* what the delivery worker does
    errors,        \* failures of the timer database so far
    late           \* history: a reminder stayed unrecorded for longer

timerVars == <<now, row, posts, worker, errors, late>>

Statuses == {"none", "scheduled", "delivering", "completed", "cancelled"}
PostIds == 1 .. MaxPosts
Rows == [status : Statuses, due : 0 .. MaxTime, message : PostIds \union {Nothing},
         life : 0 .. MaxLives]
Posts == [timer : Timers, time : 0 .. MaxTime, life : 1 .. MaxLives, gone : BOOLEAN]
Steps == {"next", "fetch", "search", "send", "sent", "save", "finish",
          "retry"}

TimerTypeOK ==
    /\ now \in 0 .. MaxTime
    /\ row \in [Timers -> Rows]
    /\ posts \in Seq(Posts) /\ Len(posts) <= MaxPosts
    /\ worker \in [step : Steps, todo : SUBSET Timers, timer : Timers \union {Nothing},
                   due : 0 .. MaxTime, message : PostIds \union {Nothing}]
    /\ (worker.timer = Nothing) = (worker.step = "next")
    /\ worker.step \in {"fetch", "save"} => worker.message # Nothing
    /\ errors \in 0 .. MaxErrors
    /\ late \in BOOLEAN

Resting == [step |-> "next", todo |-> {}, timer |-> Nothing, due |-> 0, message |-> Nothing]

TimerInit ==
    /\ now = 0
    /\ row = [t \in Timers |-> [status |-> "none", due |-> 0, message |-> Nothing, life |-> 0]]
    /\ posts = <<>>
    /\ worker = Resting
    /\ errors = 0
    /\ late = FALSE

Later(ticks) == IF now + ticks < MaxTime THEN now + ticks ELSE MaxTime

-------------------------------------------------------------------------------
(* The clock, the users                                                    *)

\* A reminder of the running life whose id is not in its row.
Unrecorded(i) ==
    LET p == posts[i]  r == row[posts[i].timer]
    IN  /\ ~p.gone
        /\ p.life = r.life
        /\ r.status \in {"scheduled", "delivering"}
        /\ r.message # i

Tick ==
    /\ now < MaxTime
    /\ now' = now + 1
    /\ late' = (late \/ \E i \in DOMAIN posts : Unrecorded(i) /\ now >= posts[i].time + Patience)
    /\ UNCHANGED <<row, posts, worker, errors>>

Create(t) ==
    /\ row[t].status = "none"
    /\ row' = [row EXCEPT ![t] =
         [status |-> "scheduled", due |-> Later(Duration), message |-> Nothing, life |-> 1]]
    /\ UNCHANGED <<now, posts, worker, errors, late>>

Cancel(t) ==
    /\ row[t].status \in {"scheduled", "delivering"}
    /\ row' = [row EXCEPT ![t].status = "cancelled"]
    /\ UNCHANGED <<now, posts, worker, errors, late>>

\* The row after _restore(): a new life, its message forgotten.
Restored(r) ==
    [status |-> "scheduled",
     due |-> IF r.due > Later(RestoreDelay) THEN r.due ELSE Later(RestoreDelay),
     message |-> Nothing, life |-> r.life + 1]

Restore(t) ==
    /\ row[t].status = "cancelled"
    /\ row[t].life < MaxLives
    /\ row' = [row EXCEPT ![t] = Restored(row[t])]
    /\ UNCHANGED <<now, posts, worker, errors, late>>

\* Somebody deletes a reminder.
DeleteReminder(i) ==
    /\ ~posts[i].gone
    /\ Cardinality({j \in DOMAIN posts : posts[j].gone}) < MaxDeleted
    /\ posts' = [posts EXCEPT ![i].gone = TRUE]
    /\ UNCHANGED <<now, row, worker, errors, late>>

-------------------------------------------------------------------------------
(* The worker                                                              *)

Due(t) == row[t].status = "scheduled" /\ row[t].due <= now

\* claim_due: the rows that are due, at once.
Scan ==
    /\ worker.step = "next" /\ worker.todo = {}
    /\ \E t \in Timers : Due(t)
    /\ row' = [t \in Timers |->
         IF Due(t) THEN [row[t] EXCEPT !.status = "delivering"] ELSE row[t]]
    /\ worker' = [Resting EXCEPT !.todo = {t \in Timers : Due(t)}]
    /\ UNCHANGED <<now, posts, errors, late>>

Goto(step) == worker' = [worker EXCEPT !.step = step]

\* The next row is settled or given up; what is known of it is dropped.
Done == worker' = [Resting EXCEPT !.todo = worker.todo]

\* current(): the row again, before it is delivered.
Reload(t) ==
    /\ worker.step = "next" /\ t \in worker.todo
    /\ worker' =
         IF row[t].status = "delivering"
         THEN [step |-> IF row[t].message = Nothing THEN "search" ELSE "fetch",
               todo |-> worker.todo \ {t}, timer |-> t,
               due |-> row[t].due, message |-> row[t].message]
         ELSE [worker EXCEPT !.todo = @ \ {t}]
    /\ UNCHANGED <<now, row, posts, errors, late>>

\* The row cannot be read: the scan ends, what it claimed stays claimed.
ReloadFails ==
    /\ worker.step = "next" /\ worker.todo # {}
    /\ errors < MaxErrors
    /\ errors' = errors + 1
    /\ worker' = Resting
    /\ UNCHANGED <<now, row, posts, late>>

\* The saved message is fetched; a missing one is looked for in the history.
Fetch ==
    /\ worker.step = "fetch"
    /\ Goto(IF posts[worker.message].gone THEN "search" ELSE "finish")
    /\ UNCHANGED <<now, row, posts, errors, late>>

\* A mistake to rule out: the history is searched from the moment it was due.
FromDue(t) ==
    {i \in DOMAIN posts :
        posts[i].timer = t /\ ~posts[i].gone /\ posts[i].time >= worker.due}

\* Reminders of t in the part of the history that is searched.
Marked(t) ==
    {i \in DOMAIN posts :
        posts[i].timer = t /\ ~posts[i].gone /\ posts[i].time >= worker.due - Window}

\* The oldest one counts; without one, a reminder is posted.
Search ==
    /\ worker.step = "search"
    /\ \/ /\ Marked(worker.timer) = {}
          /\ Goto("send")
       \/ \E i \in Marked(worker.timer) :
            /\ \A j \in Marked(worker.timer) : i <= j
            /\ worker' = [worker EXCEPT !.step = "save", !.message = i]
    /\ UNCHANGED <<now, row, posts, errors, late>>

\* The request reaches Discord and the reminder is in the channel.
Post ==
    /\ worker.step = "send"
    /\ Len(posts) < MaxPosts
    /\ posts' = Append(posts, [timer |-> worker.timer, time |-> now,
                               life |-> row[worker.timer].life, gone |-> FALSE])
    /\ Goto("sent")
    /\ UNCHANGED <<now, row, errors, late>>

\* The response arrives.
Sent ==
    /\ worker.step = "sent"
    /\ worker' = [worker EXCEPT !.step = "save", !.message = Len(posts)]
    /\ UNCHANGED <<now, row, posts, errors, late>>

\* set_delivery_message: by the timer's id alone.
Save ==
    /\ worker.step = "save"
    /\ row' = [row EXCEPT ![worker.timer].message = worker.message]
    /\ Goto("finish")
    /\ UNCHANGED <<now, posts, errors, late>>

\* A mistake to rule out: the row is completed whatever it became.
CompletesAlways(t) == TRUE

\* _complete() touches a row that is being delivered only.
Completes(t) == row[t].status = "delivering"

Finish ==
    /\ worker.step = "finish"
    /\ row' = IF Completes(worker.timer)
              THEN [row EXCEPT ![worker.timer].status = "completed"]
              ELSE row
    /\ Done
    /\ UNCHANGED <<now, posts, errors, late>>

\* The channel, the message, the history, the request, its response or
\* the row fail.
AttemptFails ==
    /\ worker.step \in {"fetch", "search", "send", "sent", "save", "finish"}
    /\ Goto("retry")
    /\ UNCHANGED <<now, row, posts, errors, late>>

\* retry(): a row that is no longer being delivered stays as it is.
Retry ==
    /\ worker.step = "retry"
    /\ row' = IF row[worker.timer].status = "delivering"
              THEN [row EXCEPT ![worker.timer].status = "scheduled",
                               ![worker.timer].due = Later(RetryDelay)]
              ELSE row
    /\ Done
    /\ UNCHANGED <<now, posts, errors, late>>

\* The row cannot be written: it stays claimed.
RetryFails ==
    /\ worker.step = "retry"
    /\ errors < MaxErrors
    /\ errors' = errors + 1
    /\ Done
    /\ UNCHANGED <<now, row, posts, late>>

\* A mistake to rule out: claimed rows stay claimed.
RestartOnly ==
    /\ worker' = Resting
    /\ UNCHANGED <<now, row, posts, errors, late>>

\* The process ends and starts again: _requeue_interrupted.
RestartTimers ==
    /\ row' = [t \in Timers |->
         IF row[t].status = "delivering"
         THEN [row[t] EXCEPT !.status = "scheduled", !.due = now]
         ELSE row[t]]
    /\ worker' = Resting
    /\ UNCHANGED <<now, posts, errors, late>>

TimerNext ==
    \/ Tick
    \/ \E t \in Timers : Create(t) \/ Cancel(t) \/ Restore(t) \/ Reload(t)
    \/ \E i \in DOMAIN posts : DeleteReminder(i)
    \/ Scan \/ ReloadFails \/ Fetch \/ Search \/ Post \/ Sent \/ Save
    \/ Finish \/ AttemptFails \/ Retry \/ RetryFails \/ RestartTimers

TimerSpec == TimerInit /\ [][TimerNext]_timerVars

\* Time passes and the worker goes on; what may fail or be cut short by a
\* restart succeeds when it is tried again and again.
TimerFairSpec ==
    /\ TimerSpec
    /\ WF_timerVars(Tick)
    /\ SF_timerVars(Scan) /\ \A t \in Timers : SF_timerVars(Reload(t))
    /\ SF_timerVars(Fetch) /\ SF_timerVars(Search) /\ SF_timerVars(Post) /\ SF_timerVars(Sent)
    /\ SF_timerVars(Save) /\ SF_timerVars(Finish) /\ SF_timerVars(Retry)

-------------------------------------------------------------------------------
(* Properties                                                              *)

\* One reminder is visible per life of a timer, whatever attempts failed after
\* posting it: "Resolve the one timer message across retry and restart
\* boundaries" (cogs.py:3721-3751).  A reminder that stayed unrecorded for too
\* long is not found again (MCFocusTimerLate.cfg).
OnePost ==
    late \/ \A t \in Timers :
        Cardinality({i \in DOMAIN posts :
            posts[i].timer = t /\ posts[i].life = row[t].life /\ ~posts[i].gone}) <= 1

\* A completed timer was posted and its message is recorded, although rows are
\* cancelled and restored, and forget it, under a running delivery.
CompletedReminded ==
    \A t \in Timers : row[t].status = "completed" =>
        /\ row[t].message # Nothing
        /\ posts[row[t].message].timer = t

\* A delivery in flight never settles a row that was cancelled, restored or
\* settled meanwhile (tests/test_focus_timer.py:201).
CancelWins ==
    [][\A t \in Timers :
        row[t].status \notin {"delivering", "completed"}
            => row'[t].status # "completed"]_timerVars

\* A claimed row that nobody in this process is going to settle, because the
\* timer database failed.
Stranded(t) ==
    /\ errors > 0
    /\ row[t].status = "delivering" /\ worker.timer # t /\ t \notin worker.todo

\* A timer is reminded of or cancelled in the end, however often its delivery
\* fails or the process restarts: "retryable text delivery" (README.md:120).
\* Only a failure of the timer database leaves it behind, until the next start.
Ended ==
    \A t \in Timers :
        row[t].status = "scheduled" ~>
            row[t].status \in {"completed", "cancelled"} \/ Stranded(t)

\* The claim without that exception (MCFocusTimerStuck.cfg refutes it).
AlwaysEnded ==
    \A t \in Timers :
        row[t].status = "scheduled" ~> row[t].status \in {"completed", "cancelled"}

===============================================================================
