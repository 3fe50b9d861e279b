----------------------------- MODULE FocusSession -----------------------------
(***************************************************************************)
(* The temporary read-aloud mode of focus timers in one workspace: a focus *)
(* session makes the voice channel hear events only and puts the former    *)
(* mode back when the last one ends (capabilities/focus_timer.py:73-240,   *)
(* cogs.py:3788-3817, services/read_aloud.py:581-665).                     *)
(*                                                                         *)
(* The four operations hold the lock of the workspace; "op" is the one     *)
(* that does, and a step of it is what runs between two awaits.  People    *)
(* change the policy at any time, they do not take that lock.              *)
(***************************************************************************)
EXTENDS Naturals, FiniteSets

CONSTANTS
    Timers,       \* focus sessions of the workspace, each with its timer
    Kinds,        \* announcements: join, leave, move
    None,
    Faults,       \* the operations that may be cut short, by a crash, a
                  \* timeout or a failing call
    MaxChanges    \* bound: policy changes by people

ASSUME FocusAssumption ==
    /\ Kinds # {}
    /\ Faults \subseteq {"create", "cancel", "restore", "complete"}
    /\ MaxChanges \in Nat
    /\ None \notin {"all", "messages", "events", "off"}

VARIABLES
    policy,       \* the read-aloud policy, in memory and in its file
    status,       \* of each timer's row
    restore,      \* restore_content_mode of each row
    op,           \* the operation that holds focus_session_lock
    changes,      \* policy changes by people so far
    chosen,       \* every mode people had in force, the first one included
    before        \* the policy in force when the first of the sessions began,
                  \* if nobody changed it and no restoration was cut since

humanVars == <<changes, chosen>>
vars == <<policy, status, restore, op, changes, chosen, before>>

Modes == {"all", "messages", "events", "off"}
Policies == [messages : BOOLEAN, announce : SUBSET Kinds]
Statuses == {"none", "scheduled", "delivering", "completed", "cancelled"}
Steps == {"enter", "insert", "undo", "row", "note", "leave", "finish"}
Idle == [kind |-> "none", timer |-> None, step |-> "none",
         first |-> FALSE, mode |-> None]

TypeOK ==
    /\ policy \in Policies
    /\ status \in [Timers -> Statuses]
    /\ restore \in [Timers -> Modes \union {None}]
    /\ op = Idle \/ op \in
         [kind : {"create", "cancel", "restore", "complete"}, timer : Timers,
          step : Steps, first : BOOLEAN, mode : Modes]
    /\ changes \in 0 .. MaxChanges
    /\ chosen \subseteq Modes
    /\ before \in Policies \union {None}

-------------------------------------------------------------------------------
(* The policy                                                              *)

\* read_aloud_content_mode: the switches projected into a preset.
Mode(p) ==
    IF p.messages
    THEN IF p.announce = {} THEN "messages" ELSE "all"
    ELSE IF p.announce = {} THEN "off" ELSE "events"

\* A preset turns every kind of announcement on, or all of them off.
Preset(m) ==
    [messages |-> m \in {"all", "messages"},
     announce |-> IF m \in {"all", "events"} THEN Kinds ELSE {}]

Init ==
    /\ policy \in Policies
    /\ status = [t \in Timers |-> "none"]
    /\ restore = [t \in Timers |-> None]
    /\ op = Idle
    /\ changes = 0
    /\ chosen = {Mode(policy)}
    /\ before = None

\* set_content_mode(events) by the first session.
Silence == policy' = Preset("events")

\* compare_and_set_content_mode with events expected.
Swap(m) ==
    policy' = IF Mode(policy) = "events" THEN Preset(m) ELSE policy

\* The rows that active() lists.
Active == {t \in Timers : status[t] \in {"scheduled", "delivering"}}

\* A mistake to rule out: only the sessions that are not yet due count.
OthersNotDue(t) == {u \in Active \ {t} : status[u] = "scheduled"}

\* active_focus, without the timer that goes.
Others(t) == Active \ {t}

\* The first session finds the policy that is to be back after the last.
Remember(t) ==
    before' = IF Others(t) = {} THEN policy ELSE before

\* A mistake to rule out: a session that joins others notes the mode in force.
InheritedInForce(t, m) == m = Mode(policy)

\* The mode a new session has to put back: that of the session it joins.
Inherited(t, m) ==
    IF Others(t) = {} THEN m = Mode(policy)
    ELSE \E u \in Others(t) : m = IF restore[u] = None THEN Mode(policy) ELSE restore[u]

Begin(kind, t, step, m) ==
    op' = [kind |-> kind, timer |-> t, step |-> step,
           first |-> Others(t) = {}, mode |-> m]

At(kind, step) == op.kind = kind /\ op.step = step

Goto(step) == op' = [op EXCEPT !.step = step]

-------------------------------------------------------------------------------
(* timer.create with focus_session                                         *)

Create(t) ==
    /\ op = Idle
    /\ status[t] = "none"
    /\ \E m \in Modes :
        /\ Inherited(t, m)
        /\ Begin("create", t, IF Others(t) = {} THEN "enter" ELSE "insert", m)
    /\ Remember(t)
    /\ UNCHANGED <<policy, status, restore, humanVars>>

\* The first session silences messages.
EnterNew ==
    /\ At("create", "enter")
    /\ Silence
    /\ Goto("insert")
    /\ UNCHANGED <<status, restore, humanVars, before>>

\* dispatch_external_effect raises before anything was changed.
Refuse ==
    /\ At("create", "enter") \/ At("restore", "row")
    /\ op' = Idle
    /\ UNCHANGED <<policy, status, restore, humanVars, before>>

Insert ==
    /\ At("create", "insert")
    /\ status' = [status EXCEPT ![op.timer] = "scheduled"]
    /\ restore' = [restore EXCEPT ![op.timer] = op.mode]
    /\ op' = Idle
    /\ UNCHANGED <<policy, humanVars, before>>

\* A mistake to rule out: the session is not taken back.
InsertFailsOnly ==
    /\ At("create", "insert")
    /\ op' = Idle
    /\ UNCHANGED <<policy, status, restore, humanVars, before>>

\* The row cannot be written: the first session is taken back.
InsertFails ==
    /\ At("create", "insert")
    /\ IF op.first THEN Goto("undo") ELSE op' = Idle
    /\ UNCHANGED <<policy, status, restore, humanVars, before>>

Undo ==
    /\ At("create", "undo")
    /\ Swap(op.mode)
    /\ op' = Idle
    /\ UNCHANGED <<status, restore, humanVars, before>>

-------------------------------------------------------------------------------
(* timer.cancel, timer.restore                                             *)

\* The row is cancelled; the last session puts the mode back in a later step.
Cancel(t) ==
    /\ op = Idle
    /\ status[t] \in {"scheduled", "delivering"}
    /\ status' = [status EXCEPT ![t] = "cancelled"]
    /\ IF restore[t] # None /\ Others(t) = {}
       THEN Begin("cancel", t, "leave", restore[t])
       ELSE op' = Idle
    /\ UNCHANGED <<policy, restore, humanVars, before>>

\* The last session ends: what it silenced is heard again.
Leave ==
    /\ op.step = "leave"
    /\ Swap(op.mode)
    /\ IF op.kind = "complete" THEN Goto("finish") ELSE op' = Idle
    /\ UNCHANGED <<status, restore, humanVars, before>>

\* timer.restore reads who is active and which mode is in force.
Restore(t) ==
    /\ op = Idle
    /\ status[t] = "cancelled"
    /\ \E m \in Modes : Inherited(t, m) /\ Begin("restore", t, "row", m)
    /\ Remember(t)
    /\ UNCHANGED <<policy, status, restore, humanVars>>

RestoreRow ==
    /\ At("restore", "row")
    /\ status' = [status EXCEPT ![op.timer] = "scheduled"]
    /\ Goto("note")
    /\ UNCHANGED <<policy, restore, humanVars, before>>

Note ==
    /\ At("restore", "note")
    /\ restore' = [restore EXCEPT ![op.timer] = op.mode]
    /\ IF op.first THEN Goto("enter") ELSE op' = Idle
    /\ UNCHANGED <<policy, status, humanVars, before>>

EnterAgain ==
    /\ At("restore", "enter")
    /\ Silence
    /\ op' = Idle
    /\ UNCHANGED <<status, restore, humanVars, before>>

\* The mode to put back cannot be noted: the row is cancelled again.
NoteFails ==
    /\ At("restore", "note")
    /\ status' = [status EXCEPT ![op.timer] = "cancelled"]
    /\ op' = Idle
    /\ UNCHANGED <<policy, restore, humanVars, before>>

-------------------------------------------------------------------------------
(* The worker                                                              *)

Claim(t) ==
    /\ status[t] = "scheduled"
    /\ status' = [status EXCEPT ![t] = "delivering"]
    /\ UNCHANGED <<policy, restore, op, humanVars, before>>

\* The reminder could not be posted: retry().
Retry(t) ==
    /\ status[t] = "delivering"
    /\ ~(op.kind = "complete" /\ op.timer = t)
    /\ status' = [status EXCEPT ![t] = "scheduled"]
    /\ UNCHANGED <<policy, restore, op, humanVars, before>>

\* _complete_focus_timer: the mode first, the row afterwards.
Complete(t) ==
    /\ op = Idle
    /\ status[t] = "delivering"
    /\ IF restore[t] # None
       THEN Begin("complete", t, IF Others(t) = {} THEN "leave" ELSE "finish", restore[t])
       ELSE Begin("complete", t, "finish", Mode(policy))
    /\ UNCHANGED <<policy, status, restore, humanVars, before>>

Finish ==
    /\ At("complete", "finish")
    /\ status' = [status EXCEPT ![op.timer] = "completed"]
    /\ op' = Idle
    /\ UNCHANGED <<policy, restore, humanVars, before>>

\* complete() raises: the delivery is retried.
FinishFails ==
    /\ "complete" \in Faults
    /\ At("complete", "finish")
    /\ status' = [status EXCEPT ![op.timer] = "scheduled"]
    /\ op' = Idle
    /\ UNCHANGED <<policy, restore, humanVars, before>>

\* A restoration that is cut short leaves the mode of an earlier life noted.
Kept == IF op.kind = "restore" THEN None ELSE before

\* The operation is cancelled at an await: "except Exception" does not see it.
Interrupt ==
    /\ op.kind \in Faults
    /\ op' = Idle
    /\ before' = Kept
    /\ UNCHANGED <<policy, status, restore, humanVars>>

\* The process ends and starts again: _requeue_interrupted.
Restart ==
    /\ op = Idle \/ op.kind \in Faults
    /\ op' = Idle
    /\ status' = [t \in Timers |->
         IF status[t] = "delivering" THEN "scheduled" ELSE status[t]]
    /\ before' = Kept
    /\ UNCHANGED <<policy, restore, humanVars>>

\* Somebody changes the read-aloud policy.
Change(p) ==
    /\ changes < MaxChanges
    /\ p # policy
    /\ policy' = p
    /\ changes' = changes + 1
    /\ chosen' = chosen \union {Mode(p)}
    /\ before' = None
    /\ UNCHANGED <<status, restore, op>>

Next ==
    \/ \E t \in Timers :
        \/ Create(t) \/ Cancel(t) \/ Restore(t)
        \/ Claim(t) \/ Retry(t) \/ Complete(t)
    \/ EnterNew \/ Refuse \/ Insert \/ InsertFails \/ Undo \/ Leave
    \/ RestoreRow \/ Note \/ EnterAgain \/ NoteFails
    \/ Finish \/ FinishFails \/ Interrupt \/ Restart
    \/ \E p \in Policies : Change(p)

Spec == Init /\ [][Next]_vars

-------------------------------------------------------------------------------
(* Properties                                                              *)

\* No session is left and none is being created or ended.
Quiet == op = Idle /\ Active = {}

\* With no session left the events-only mode is in force only if people had
\* chosen it at some time: no end of a session leaves its mode behind, though
\* rows fail to be written and completions are cut short
\* (capabilities/focus_timer.py:110-129, cogs.py:3802-3817).
NothingLeftBehind ==
    Quiet /\ Mode(policy) = "events" => "events" \in chosen

\* When nobody touched the policy since the first of the sessions that overlap
\* read it, its mode is in force again after the last, in whatever order they
\* are created, cancelled, restored and completed.
ModeRestored == Quiet /\ before # None => Mode(policy) = Mode(before)

\* While people leave the policy alone, the events-only mode ends with the last
\* session only (tests/test_focus_timer.py:342), and a mode they chose meanwhile
\* outlives the end of the sessions: only the beginning of one replaces it
\* (tests/test_focus_timer.py:380).
SwapsJustified ==
    [][changes' = changes =>
          IF Mode(policy) = "events"
          THEN Mode(policy') # "events" => Active \subseteq {op.timer}
          ELSE policy' = policy \/ op.step = "enter"]_vars

===============================================================================
