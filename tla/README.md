# Formal models of Simajilord AI

Simajilord AI is a local-first capability platform: people use it through Discord commands, a
language-model agent uses the same capabilities through tools, and durable queues, ledgers and
timers keep the two honest across failures. The program is about 100 000 lines of asyncio Python
over SQLite under `src/src/simajilord/` (cited below without that prefix, tests as `tests/`,
the program's README as `README`).

This directory holds TLA+ models of the parts where interleavings, crashes and retries decide
whether the program is correct, TLC configurations that check them on small instances, and
theorems about them that TLAPS proves for every value of the constants.

- `tlc -config X.cfg M` checks module `M`, see [Runs](#runs);
- `tlapm M.tla` checks the proofs of a `*Proofs` module;
- `PROJECT.json` maps every definition to the lines of code it stands for and lists runs,
  mutants (a plausible bug per property that the run must catch), findings, hazards and theorems.

## The system

    Discord (cogs, views)      language model
            |                       |
            |            providers/codex.py  <-- shared app-server process
            |                       |
            |        AgentService: admission, turns, task routing
            |                       |
            +----> CapabilityRegistry <---- AgentToolCatalog (ledger of external effects)
                        |
              services (audio, speech, files, image, focus timers, temp voice, ...)
                        |
              providers / SQLite databases / files / audit journal

Everything runs in one process on one asyncio event loop. Blocking work (all SQLite
transactions, file writes) runs in worker threads through `asyncio.to_thread`; a coroutine that
is cancelled meanwhile abandons the thread, which goes on. So the units of interleaving are
*what runs between two awaits* on the loop and *one transaction* in a thread, and these are the
actions of the models.

### Components

Each entry: state | operations | who it talks to | what is hard | what makes it correct.

**Keyed lock pool** (`async_locks.py`; modelled). State: a table of reference-counted
`asyncio.Lock`s by key. Operations: `hold(key)`, its shielded cleanup. Used by file, timer,
room and workspace code. Hard: locks are dropped and made again under waiters; cancellation of a
woken waiter. Correct: mutual exclusion per key, no lost wake-up, no entry kept or dropped wrongly.

**Autonomous event queue** (`agent/autonomy.py`; modelled). State: SQLite rows of observed events
with debounce, batch, claim token, lease, attempt counts, and delivery rows; a wake event.
Operations: `enqueue`, `next_batch`, `renew`, `acknowledge`, `reschedule`, `defer`,
`dead_letter`, `seconds_until_ready`, delivery plan / message / receipt. Producers: the
observation cog; consumer: `AgentAutonomyCog`. Hard: leases against late workers, batches that
must stay together, the timer and the claim computing the same thing in separate SQL. Correct:
first in first out per channel, one fate per batch, no stale settlement, nothing slept over.

**Autonomous consumer** (`integrations/discord/cogs.py:11913-12727`; modelled). State: where it is in a batch; the
rows of the plan; Discord's history and its memory of nonces. Operations: claim, turn,
plan, look up, post, save, receipt, acknowledge, retry verdicts, heartbeat. Hard: crash between posting and saving,
late and repeated requests, deleted messages. Correct: a channel sees each chunk at most once, and
acknowledged means complete.

**Agent turn admission** (`agent/service.py:886-1148`; modelled). State: five counters, a registry of
per-workspace semaphores, an active-turn semaphore, a condition. Operations: `_admit`,
`_release`, clean-up of a failed admission at any of ten awaits. Hard: every counter must be given back
exactly once; a semaphore is awaited under the lock. Correct: see `CountersExact` and the rest.

**Agent turn execution and the write barrier** (`providers/codex.py:1283-2600, 3085-3790`, `agent/tools.py:1018-1110`,
`agent/actions.py:1230-1771`, `cogs.py:11157-11244`; modelled in part). State: request rows, the ledger of external
effects, attempts, tasks of tool calls, the app-server. Operations: attempt, retry on a fresh app-server, reset
and close, cancellation, plan / dispatch / act / confirm, recovery of interrupted mentions. Hard: a retry while calls of
the failed attempt still run; a crash between dispatch and confirmation. Correct: a write is not
repeated, and the ledger never lies.

**Focus sessions** (`capabilities/focus_timer.py`, `services/read_aloud.py:581-720`, `cogs.py:3788-3817`; modelled in part) and
**focus timers** (`services/focus_timer.py`, `cogs.py:3546-3785`; modelled in part). State: a timer row, the read-aloud
policy file, the reminder message. Operations: create, cancel, restore, claim, deliver, complete, retry. Hard: two durable
stores changed in turn, overlapping sessions, no lease on a claimed row. Correct: the former mode comes back, one reminder per life
of a timer, a cancelled timer stays cancelled, every timer ends.

**Action receipts and Undo** (`agent/actions.py:890-2388`; modelled in part). State: receipts with a status
`succeeded / undoing / undone`, retention by scope. Operations: `record`, `claim_latest_or_id`, `release_failed`,
`complete`. Hard: the inverse runs between two transactions; a start (and a diagnosis, see Findings) resets claims. Correct: an action is undone
at most once per claim; a receipt is never stuck while its process runs; two calls that lead to one receipt get one answer.

**Agent requests, task routing and host delivery** (`agent/store.py`, `service.py:509-884`, `providers/codex.py:2013-2196`; modelled in part). State: conversations,
requests, task candidates, an outbox of answer parts. Operations: begin, complete, fail, cancel, route a follow-up into a running turn,
default it to a turn of its own, plan / record / receipt / complete a host delivery. Hard: a follow-up that is routed while its target
finishes; an answer delivered twice or not at all. Correct: each follow-up is handled by one turn, or its author is told why not.

**Authority requests and capability leases** (`agent/authority.py`). State: SQLite rows of requests and leases: expiry, number of uses, exact
binding. Operations: request, create, revoke, list, resolve, consume. Hard: revocation or expiry between resolving and consuming.

**Agent memory** (`agent/memory.py`). State: notes by scope with review state. Operations: remember, update, forget, review, search, cleanup; each one
transaction. Hard: ranking, caps, evidence that is withdrawn.

**Tool catalogue, workflows, contracts** (`agent/tools.py`, `workflows.py`, `high_risk.py`, `contracts.py`, `human.py`). Stateless translation of tool calls
into capability invocations, except the dispatch handle, which is part of the turn model.

**Capability registry** (`core/`). State: a table filled at start-up. `invoke` checks permission, confirmation and egress policy, runs the handler, audits.

**Codex provider** (`agent/providers/codex.py`). State: the app-server process, its pending requests, the turns on it. Hard: framing, watchdogs, resets. The
control that decides over retries is in the turn model; JSON-RPC, prompts, budgets and consent plans are not.

**Audit journal** (`observability/journal.py`; modelled in part). State: a bounded queue, a batching writer task, an outbox in a second database. Operations: record, append, flush, close, replay, recovery of the writer. Hard: the writer
dies with events in hand; a flush may drop the reference to a live writer, so that two work side by side; outbox replay inserts and then deletes; overflow. Correct: an accepted event is stored or counted as lost, and was so when a later flush returns; a flush returns.

**Audio sessions** (`services/audio.py`, `integrations/discord/audio.py`; modelled in part). State: per workspace a music and a speech queue, reservations, the playing item, a playback
worker, a task that mixes speech into the track. Operations: about thirty (enqueue, reserve, skip, clear, seek, connect, disconnect, suspend, ...). Hard: commands that race the end of an item;
speech over music; reconnects. Correct: nothing accepted is duplicated, stranded or lost unasked; utterances keep their order; clearing empties; all is played in the end.

**Audio state** (`services/audio_state.py`). State: sessions, a dirty flag, a revision, a writer task. Correct: after `flush` the newest state is on disk.

**Speech and media schedulers** (`services/speech.py`, modelled in part; `services/media.py:77-282`). State: queues by workspace, a ring, active sets, workers; for speech that is played while it is synthesized a task, a producer
and a future. Hard: cancelled work, workers that die, callers, players and producers that stop each other. Correct: each guild that waits is in the ring once, one request of a guild at a time, everybody is heard, a call is nobody else's trouble.

**Read-aloud** (`services/read_aloud.py`, `integrations/discord/read_aloud.py`). State: routes, dictionary, voices, policy in one JSON file under one lock.

**Image jobs** (`services/image.py`; modelled in part). State: job rows, one worker, a wake event, a future per job that somebody waits for, delivery locks and retry tasks. Operations: `submit`, `wait_for_terminal`, claim, complete, fail, requeue at start.
Hard: the wake-up, calls that share a future and are cancelled in it, requeue after a restart. Correct: every accepted job ends, and everybody who waits for it gets its answer.

**Temporary voice rooms** (`services/temp_voice.py`, `integrations/discord/temp_voice.py:966-1760`; modelled in part). State: room rows (owner, empty since), Discord's channels and members, a lock and a deletion task per room. Hard: join, leave,
recovery, deletion and missed events race; a crash between channel and row. Correct: no channel is forgotten; a room somebody is in, or that was made permanent, is not removed; an empty one is, and an owner who left hands over, in the end.

**Compute, files, moderation, feedback, maintenance** (`services/`). Process slots and workspace locks around a sandbox; versioned files and publications; monthly quota reservations; idempotent reports; pruning.

**Translation, web, quotes, local media, source inspection** (`services/`). Request and answer with a cache.

**Discord bot, commands, permissions, platform actions** (`integrations/discord/`), **activity server, operator socket**, **configuration and runtime**, **diagnostics**, a **native translation helper**, and
vendored **yt-dlp**. Presentation, I/O, wiring, offline reports, third-party code.

The hazards these components are exposed to are listed at their lines in `PROJECT.json` (`hazards`), with the properties that would catch them going wrong.

## Modules

| module | models | state and actions |
|---|---|---|
| `KeyedMutex` | the promise of a keyed lock | holder per key; acquire, release |
| `KeyedAsyncLockPool` | `async_locks.py` with `asyncio.Lock` | table, lock objects, futures; enter, wake, cancel, leave, clean up |
| `AutonomyBacklog` | the promise of the event queue: a first-in-first-out backlog per channel | accept, settle a beginning of a backlog |
| `AutonomyQueue` | the transactions of `agent/autonomy.py` | rows, clock, every claim ever handed out; one action per transaction |
| `AutonomyWake` | the consumer's `_next_batch` loop and the wake event | event states, producer coroutine, flag, consumer's program counter and timer |
| `AutonomyReply` | what a channel may see of one batch | post chunks in order, acknowledge all or nothing, dead-letter |
| `AutonomyDelivery` | `_consume_batch`, `_inspect`, `_deliver_response` and the delivery rows | claims, plan, saved ids, receipts; Discord's messages, requests on their way, remembered nonces |
| `AgentAdmission` | `AgentService._admit`, `_release` | counters, semaphores, admission lock queue, condition; one action per stretch between awaits |
| `FocusSession` | the read-aloud mode of focus timers | policy, rows, modes to put back, the operation that holds the workspace's lock |
| `FocusTimer` | the timer rows and the delivery worker | rows, clock, worker, Discord's messages |
| `TempVoiceRooms` | temporary voice rooms | members, channels, rows; handlers of voice events, the reconciliation, a deletion task per room |
| `WriteBarrier` | the promise of the ledger of external effects | recorded writes, writes that happened |
| `ActionUndo` | receipts of undoable actions and `action.undo` | rows, calls and their threads, inverses still under way, starts and diagnoses |
| `AudioSession` | the playback worker, the overlay task, what people ask | queues, reservations, the current item and its flags, the connection; one action per stretch between awaits |
| `SpeechScheduler` | `FairSpeechScheduler` and the streamed requests of `SpeechService` | queues, ring, workers; where each call, its task, its futures and its producer are, the file; one action per stretch between awaits |
| `ImageQueue` | image jobs: `submit`, `wait_for_terminal`, the worker `_run` | job rows, where each call is, its view of the shared future, the flag, the worker's step and job |
| `TaskRouting` | follow-ups on a running task: `_route_candidate_locked`, `route_candidate`, the tool call `turn.route_task_event`, the rows in the store, the recovery at the start | task and route rows, candidates of the attempt's budget, where each handler is, what the recovery has in hand; one action per transaction or stretch between awaits of the host, the call, the turn |
| `AuditQueue` | the queue of audit events: `record_invocation`, flush and close, the writer and its recovery, the outbox | the two tables' rows, queue, overflow tasks, the writer that `_audit_writer_task` names, each live writer's step and what it has in hand, where each flush is and which writer it has seen, who waits for the outbox's lock; one action per transaction or stretch between awaits |
| `AgentTurn` | attempts, resets, tool-call tasks, ledger, crash and recovery | request rows, effects, stages of turns, calls |

`MC...` modules only give constants values. `...Proofs` modules hold theorems.

What the modules share is what the code shares. `AutonomyDelivery` sees the claims of `AutonomyQueue` through two
variables (who has the token, whether the lease runs) for one batch; `AutonomyWake` abstracts
when an event is ready to one flag, which `TimerAgreesWithClaim` of `AutonomyQueue` justifies. `FocusSession` and `FocusTimer` look at the
same rows for two different questions, the mode and the reminder, which meet only in `complete`.
`KeyedAsyncLockPool` is what the locks per workspace in `FocusSession` rest on, `ImplementsMutex` being what they use of it. `AgentTurn` starts
where `AgentAdmission` ends, and `TaskRouting` beside it: it sees of a turn that it runs, is between two attempts, or ends, and whether a write was made under a follow-up's id. `ActionUndo` takes up the receipts of what turns have done: the rows are others than those of the effects ledger, but one database start resets both, which is how a
diagnosis reaches a claim (see Findings). `TempVoiceRooms` and `AudioSession` meet in one await, the suspension of playback before a room is deleted; each model keeps the await and abstracts the other side.

Conventions. The name of an action is that of the code's function where there is one. `\* A
mistake to rule out` marks an operator that no specification uses: it is the form a plausible bug would give the
definition after it, and the mutants in `PROJECT.json` put it in to see the property fail.
Bounds (`Max...`) occur in guards only, and the constants' comments call them bounds. Times are ticks; a deadline that lies beyond the last tick counts as the last.

## Runs

| run | asks | instance and why it is enough |
|---|---|---|
| `autonomy_queue` | an overtaken claim is void; timer and claim agree; implements `AutonomyBacklog` | four events in two channels, window of two candidates, three claims, time 0..3 with a lease of 2 and delays of 1: a claim lapses, is claimed again, retried and overtaken by newcomers; limits 3/3/2 are all hit |
| `wake_ups` | every waiter served or gone; implements `KeyedMutex`; every ready event is worked on, so none is slept over | three tasks (a holder, a waiter to wake or cancel, a newcomer), two keys, three lock objects: the object of a key can be dropped and made again while the other two are anywhere. Three events: one worked on, one waiting, one being committed |
| `delivery_and_routing` | acknowledged means complete, with one receipt per chunk; no chunk twice; a saved chunk is not posted again; implements `AutonomyReply`; settled in the end; a follow-up has one fate, and none disappears | two consumers, two chunks, one failure and one trouble (late request, forgotten answer, deletion); with two failures and the same trouble TLC finds no error either (1.5 million states). Two follow-ups on one task, one of whose authors may cancel it: one finishes, cancels or is attached while the other is at any step; two attempts and two lives, so that a follow-up can be routed in the second life while the recovery looks at the first one's rows. |
| `images_and_audits` | no sleep over an image job but in the named ways, every other job ends and answers all who wait; no audit record is forgotten, a flush waits for those before it, and ends but in the named ways | two jobs and three calls, two of which share a job: one is admitted while the worker looks for the other, and one call joins, leaves or resolves the future the other waits for; one restart or failing transaction. Three records, a queue and an outbox of two, batches of two, one overflow task: a record overflows, is counted as lost, or waits behind a control; a reader beside `close()`; two faults, so that a writer fails and its recovery or its successor fails as well (records are alike and come in one order; in any order TLC finds no error in 1.1 million states of the audit queue alone). Two names for writers: with three, TLC finds that never more than two live within these bounds, and that a writer is made only when at most one lives, so that no name is missing |
| `agent_admission` | one turn per workspace; reserved share; every turn served (which fails when a notification is lost) | four turns of two workspaces, two of them autonomous, two active and two pending at most; every await interruptible |
| `focus_session` | nothing left behind; former mode restored; only the last end restores, and people's choice is kept (`SwapsJustified`); the ring of the speech scheduler is exact, a call is nobody else's trouble, every call is heard | two sessions, two kinds of announcement, two changes by people; restoring and completing may be cut short (with three sessions TLC finds no error in 730 000 states). Two workers, three requests of two guilds: two of one guild compete while the other guild waits its turn, one is streamed and may be stopped by its caller, the player and `close()` |
| `focus_timer` | one reminder per life; a cancel wins; every timer ends unless its database failed | one timer with fair steps, two lives, one error, one deletion, any number of restarts |
| `temp_voice` | no channel forgotten; no room removed with people in it, kept or just entered; owners and rows settle | one room, its owner and a guest, two handlers beside the reconciliation and the deletion task; two movements or commands and one trouble (a failing request, a channel deleted by hand, a restart): a join, a leave and a recovery can all be under way while the deletion task waits for the lock |
| `action_undo` | one inverse per claim; no claim without somebody who settles it; one answer per receipt | three undos over three actions of which two are kept, two of one turn and one a host posting: two calls race for the newest row while a third names one; a start and a diagnosis |
| `audio_session` | nothing duplicated, stranded or lost unasked; a clear empties; utterances in order; all played in the end | a track and a request of two utterances, one thing asked at any moment, two troubles (streams, mixes, the connection), two attempts and two failures per track: speech before, over and after the track, cut and handed back; a provider that refuses the track for good, at once or in a retry |
| `agent_turn` | a write is repeated only by an orphan; the ledger is honest; implements `WriteBarrier`; mentions settle | a mention that writes, a turn of events beside it (its presence is what makes a reset be skipped or wait), four attempts (two per life), two lives |
| `agent_turn_stale_write` | *violation* of `WritesOnce` | the same instance |

Four runs hold two systems each. The two share no variable, and a behaviour of the run is one of the one or of the other while the other rests (`part`).

Deadlock is checked except where the system may come to rest: `AutonomyDelivery` ends with the batch, and the task of `TaskRouting` beside it with its last life, `AgentTurn` with its last turn and its last life, `ActionUndo` when every call has answered, `AudioSession` when
nothing is queued and nobody asks, `TempVoiceRooms` when all rooms are gone and the bounds are used up. Where
rest is a step of its own (`Quiet`, `EventsOver`, `SpeechOver`, `ImagesOver`, `AuditsOver`) there is no deadlock besides.

Symmetry is used in `action_undo` and some configurations beside the runs, which check no liveness and whose
sessions, callers or timers are interchangeable.

Configurations beside the runs, for `tlc` by hand:

| configuration | module | shows |
|---|---|---|
| `MCAutonomyQueueBatches.cfg` | `MCAutonomyQueue` | `BatchIsUnit` and `LeaseRespected`: a batch keeps its members and shares one fate, nobody takes a running lease (530 000 states, no error) |
| `MCFocusTimerPair.cfg` | `MCFocusTimer` | two timers that share a scan: `OnePost`, `CancelWins`, and `CompletedReminded` (no error) |
| `MCAudioSessionPair.cfg` | `MCAudioSession` | two requests of one utterance each, so that reservations wait on each other (550 000 states, no error) |
| `MCAgentAdmissionBarging.cfg` | `MCAgentAdmission` | *violates* `NoBarging`, see Findings |
| `MCFocusSessionCut.cfg` | `FocusSession` | *violates* `NothingLeftBehind` when creation or cancellation may be cut short, see Findings |
| `MCFocusTimerStuck.cfg` | `MCFocusTimer` | *violates* `AlwaysEnded`, two timers of one scan and one error, see Findings |
| `MCFocusTimerLate.cfg` | `MCFocusTimer` | *violates* `OnePost` when the reminder stays unrecorded longer than the search goes back, see Findings |
| `MCTempVoiceRoomsWindow.cfg` | `TempVoiceRooms` | *violates* `WindowKept`, see Findings |
| `MCImageQueueShared.cfg` | `MCImageQueue` | *violates* `OwnEnd`, see Findings |
| `MCActionUndoTwice.cfg` | `MCActionUndo` | *violates* `StrictlyOnce`, see Findings |

## Fairness

- *Lock pool, admission*: weak fairness for each task that can run. The event loop runs ready
  callbacks in order, and awaited stores and callbacks return or raise. Nobody has to call, cancel or be
  interrupted. The admission lock is first in first out as `asyncio.Lock` is; which of several notified turns gets it first is left open.
- *Consumer*: weak fairness for its steps, the threads of producers and time; no fairness for arrivals, failures or crashes. `ReadyIsClaimed`
  excludes a consumer that keeps dying.
- *Delivery*: consumers poll, go on, and time passes; requests need not arrive (a timeout ends
  the wait). Attempts are counted in the rows, so `Settled` needs no assumption that Discord ever recovers.
- *Audit queue*: weak fairness for whatever can go on by itself, taken together: the writers, the overflow tasks, the calls that have begun. Every behaviour has finitely many such steps (records, calls and faults are bounded), so that taking
  them together leaves nobody out. Nobody has to record, call or cancel, and no transaction has to fail; one that is tried ends.
- *Focus timer*: time and the worker are weakly fair; what may fail, or be cut off by a restart, is strongly fair in its success ("tried again and again"). `MCFocusTimerStuck.cfg` shows that this is not enough
  when two timers share a scan.
- *Rooms*: strong fairness for each handler, the reconciliation and the deletion tasks, because the lock they share may be taken by another whenever they look: `asyncio.Lock` is first in first out, and
  `WaiterServed` of the lock pool is what the strong fairness stands for. Nobody has to move, and events may be missed; the reconciliation is the five-minute loop, which does come round.
- *Audio*: weak fairness for the worker, the overlay task, and a caller or a connect that has begun. Nobody need ask for anything; tracks end and streams answer or fail. `Served`
  presumes that from some point on the session is connected and not suspended, which is the user's decision.
- *Speech*: weak fairness for the calls that have begun, their tasks, the workers and a producer that goes on; strong fairness for a stream to come to an end, since every WAV declares its length. Nobody has to ask, cancel, discard or close.
- *Image jobs*: weak fairness for the worker and for the calls that have begun; a call is resumed when its thread ends, and the provider answers or gives up. Nobody has to call or be cancelled, no transaction has to fail, and the process need not restart.
- *Routing*: weak fairness for whatever can go on by itself, taken together: the handlers, whose waits are bounded, a call that has decided, the turn, which ends (a watchdog sees to it), the restart and the
  recovery. Each of them happens a bounded number of times, so taking them together leaves nobody out in the end. The model need not decide, and nobody need write, cancel or send.
- *Turn*: weak fairness for each turn's own task (the watchdog ends an attempt in which nothing happens) and for the restart of the process (a
  supervisor). Calls, the model and people owe nothing.

## Proofs

TLAPS proves the following for every value of the constants that the named assumptions admit.

- **`LockAndRoomProofs`**: of `KeyedAsyncLockPool`, `TypeCorrect`, `MutualExclusionHolds`, `UserCountCorrect`, `NoInactiveKeyKept`, `ImplementsMutexHolds`, for any
  tasks, keys and objects. None of these is inductive. The invariant `IInv` adds: a task inside `hold` still finds its lock
  state in the table (`HasEntry`); no two keys share a state, whose count is the cardinality of its users (`TableExact`); a queue lists its waiting tasks,
  each once (`QueueExact`); a resolved future is the first of its queue and its lock is free (`WakeExact`, which is what keeps a newcomer from
  barging in); a holder has the flag to itself (`LockExact`). The mapping `Holder` chooses the task that holds a key; mutual exclusion makes it the only one, so that a fast path or a resumption is an `Acquire`, the cleanup after a block a `Release`, and everything else a stutter.
  Of `TempVoiceRooms`, for any rooms, members, handlers and bounds (there being somebody at all): `RoomTypeCorrect`, `TrackedHolds`, `ExpiryJustifiedHolds`. Handlers act on what they saw some awaits ago, without the lock for the first or the last row of a room, so `RoomInv` adds what they may still rely on (`Fits`): who forgets a room
  has been told that its channel is gone; who unregisters one has seen the channel go, or has left a stray; who registers one has made the channel, nobody else is about to register it (`OwnRoom`), and it has neither been kept nor got a row. Channels only come and go once, which is why all this stays true while others step (`Steady`, `StillFits`).
  Of a room (`RoomsFit`): a row goes only after its channel or with a stray; what was kept never gets a row again; a deletion task that has looked under the lock still finds the room marked empty when it asks for the deletion, because whoever marks it occupied needs the lock, and a row that goes meanwhile goes with its channel or as a stray.
- **`AutonomyQueueProofs`**: `TypeCorrect`, `StaleClaimVoidHolds`, `BatchIsUnitHolds`, `LeaseRespectedHolds`, `ImplementsBacklogHolds`, `TimerAgreesWithClaimHolds`: all that is claimed of the queue. For the second the invariant is `TokenExact`: a row a claim has a share in carries no
  token, that claim's, or a later one's. Tokens only grow, so a claim that was overtaken on one of its rows never finds its token on all of them again. The others rest on `Sound`, which every transaction keeps of the table: a row without a batch is as it was
  written (`Unmarked`); a batch lists its rows, which differ in nothing a claim or a worker writes (`Units`); sequence numbers follow the clock, and what is claimed was due (`Timely`); a channel has one live batch at most, of this channel only, and it is a beginning of
  the backlog (`OneBatch`, `OneChannel`). A claim of new rows keeps the last because the window and the candidate limit both cut off an end, and because a channel with a batch forms no other. The timer compares the greatest of several times with the clock, the claim each of them;
  since the rows of a batch are alike, they agree.
- **`DeliveryProofs`**: of `AutonomyWake`, `WakeTypeCorrect` and `NoLostWakeUpHolds`. The second is what `ReadyIsClaimed` in the run `wake_ups` rests on. The invariant is inductive with two facts added: there is a timeout only while
  the consumer sleeps, and a row exists from its producer's commit on.
  Of `AutonomyDelivery`, for any number of consumers, chunks, failures and troubles: `DeliveryTypeCorrect`, `ReplyExactHolds`, `SavedNotRepostedHolds` and `ImplementsReplyHolds`. The invariant `DInv` has a part for each place where knowledge of a message is kept. `DiscordOK`: the
  channel shows a chunk at most once, and one that it shows can be on its way again only while Discord remembers the nonce. `RequestsOK`: a chunk is on its way only when those before it were made, and its sender waits for it or has gone. `LedgerOK`: receipts exist only when every id is saved,
  and all are the same. `RecordOK`: from the look at the history on, a consumer knows every message the channel shows whose nonce Discord may have forgotten (this is what keeps it from posting a chunk twice), its saved ids are those of the rows, and the chunks before its own are saved.
  `ClaimOK`: who has the token knows every saved id, since nobody else can have written one after the plan was read; a consumer that lost its lease need not, which is the residual race of `SavedNotReposted`. An acknowledgement comes from a consumer whose batch is complete, and completeness is never taken back.
  For the refinement, a request that makes the first message of a chunk is the next `Post`, whatever repeats it later is a stutter.
  Of `FocusTimer`, for any timers, delays and bounds: `OnePostHolds`, `CancelWinsHolds`, `CompletedRemindedHolds`. `TimerInv` says what makes posting safe. A reminder the row does not name is young as long as the row is pending (`YoungOK`), so that a delivery, which starts when the row is due,
  looks back far enough to find it (`SearchOK`): what the worker is about to post is not there. That is the one place where `Patience <= Window` is needed, and only `OnePostHolds` assumes it. `DeliveryOK` and `RowsOK` bound what a cancellation and a restoration may do to the row under a running delivery: it loses its message, or
  keeps it, but is claimed by nobody else, and no row that names no message is completed.
  Of `TaskRouting`, for any follow-ups and starts of the process: `RoutingTypeCorrect` and `OneFateHolds`. `HandlerOK` says, by how far a handler is, what its row and the turn hold of the follow-up; `FateOK` what remains when it is over. The argument: only a call whose decision was committed and confirmed
  applies it, while its handler waits for that; a row is marked only with what was taken; rows the recovery lists are older than the process, so nobody else moves them; and a write needs an authority, which only an attached follow-up of this life gives, so a separate task never
  runs beside it. A task that is finishing has a row that says so, because a row that is made separate puts it back to active unless another one remains.
- **`AgentProofs`**: of `AgentAdmission`, nine theorems (`SharesKeptHolds` for the run's property; counters, semaphore, workspaces, registry, reserve, limits, notifications,
  types; that a turn sleeps only while its share is full, `NoLostNotificationHolds`, is what `Served` rests on). `CountersExact` and, for the lock pool, `UserCountExact` are no longer in a run, which they would only repeat. Each counter equals the cardinality of the turns that hold its reservation; the line of a semaphore has the turns that wait for it, without repetition,
  and its value is what the holders leave; all turns of a workspace that refer to a semaphore refer to the registered one.
  Of `AgentTurn`: `TurnTypeCorrect`, `LedgerHonestHolds`, `ImplementsBarrierHolds` (step by step, with the stutter), and
  `RepeatsAreOrphansHolds`. The last rests on six facts: calls are asked for in their order, calls under way belong to this life and to a live process,
  a row in progress for each turn that is worked on, no call runs for a mention the recovery has still to look at, every counted call of a past attempt is dead
  (it neither acted nor will), and so is every call of an earlier life once the turn is worked on again.
- **`ReadAloudProofs`**: of `FocusSession`, `TypeCorrect`, and, under `NotCut` (creation and
  cancellation are not cut short; `MCFocusSessionCut.cfg` shows that the hypothesis is needed), `NothingLeftBehindHolds`, `ModeRestoredHolds` and `SwapsJustifiedHolds`. Beside the steps an operation goes through (`StepOK`, `RowOK`), the invariant says that
  whatever will be put back was once in force by somebody's choice (`Noted`), and that at each point where the running operation may leave no session behind the
  mode in force is such a one (`LastOK`). For the other two it also says that the operation still sees the other sessions it
  counted when it began (`FirstOK`: the rows of others change only under the lock, and the worker moves a row between two active
  statuses), and that as long as the former policy counts, every active row and the running operation carry its mode, which is in force again at
  every point where no session is left or none has silenced anything yet (`BackOK`).
  Of `SpeechScheduler`: `SpeechTypeCorrect`, `RingExactHolds` and `OwnAffairHolds`. For the ring the invariant adds that a queue lists
  requests of its guild, each once, that no worker has had (`QueuesOK`), and that a request is in one hand at most (`HandsOK`), without which a guild could be let go while another worker still serves it. For the calls it follows a cancellation
  from the future it hits to the caller who is blamed for it (`BlameOK`), and a file to the future that was resolved when its producer ended (`FileOK`): a producer that ends
  with an item nobody has got removes it, and a future once resolved stays so.
- **`ActionUndoProofs`**: `TypeCorrect`, `AtMostOnceHolds`, `NotStuckHolds`, `SameAnswerHolds` and, of the last two, `SettledOnceHolds`. The invariant counts: the calls whose inverse took effect are among those that claimed; a receipt has been claimed at most
  once more than it was opened again, and no more often than that while it is on offer; every claimed row has its one owner, or is known to be stranded; and a row that is undone names the call that completed it.
- **`BackgroundWorkProofs`**: of `ImageQueue`, `TypeCorrect` (with the limit on pending jobs) and `NoSleepOverHolds`. The invariant adds only that the worker has a job in hand at the steps that need one; the argument of the second is that a job enters the table with a
  caller who will set the flag, that whoever takes this caller away makes the job a missed one, and that only `Clear` unsets the flag.
  Of `AuditQueue`: `AuditTypeCorrect` and `KeptHolds`. That no record is forgotten follows step by step (`NoneMissing`): what leaves a place arrives in the next one or is counted. For the flush, `PromiseOK` says where the records a call was promised may still be:
  not in overflow tasks it does not wait for, once it has looked not in any, and in front of its control once that is in the queue; those of a control a writer holds are in a writer's batch, since a writer takes what is at the head of the
  queue; it answers a control only with no batch in hand, and no other writer has one unless the call is misled: `OneWriter` says that a call under way that was not misled shares the queue with no writer but the one `_audit_writer_task` names. The shortcut of a flush that finds nothing to do is `EndedOK`: a call whose writer has ended asked for the lock before any writer that lives now did, each of which therefore is still waiting for its first turn and has taken nothing, unless one was
  cancelled there, which misleads the call as well (`Unaware`). What a misled call was promised is in a writer's hands at worst, never in the queue (`Left`). `WriterOK` keeps a replay from deleting rows that are not stored, and `ClosedOK` makes what the closing flush was promised all there is. The sequences are reasoned about through the set of the first n items, in lemmas about `Append`, `Tail`, `SubSeq` and what the writer takes at once.
- **`AudioProofs`**: of `AudioSession`, for any tracks, requests, limits, failures and things asked for: `AudioInductive`, `AudioTypeCorrect`, `AccountedHolds`, `ClearEmptiesHolds` and `InOrderHolds`. The invariant `AudioInv` has a part for each thing the two tasks and the callers rely on of each other. `Hands`: at which steps the
  worker and the overlay task hold an item, that `current` is what the worker plays, and that the connection plays only then. `Placement`: no item is twice in a queue or in two places, one that is "in" is in one, and one that is heard, cleared, dropped or refused is in none; only an utterance that is "lost" may be either. An utterance the
  overlay reports as heard counts as gone, although a cancellation in that moment brings it back. `Reservations`: the parts of a request are committed in their order and a reservation stands for parts to come, so that what is committed next is new and in no place. `Why`: whoever stops the item the worker
  holds has set a flag, and the flag "skip" a history of skips. Without it a track that ends "by itself" after a stop could not be told from one that vanished; with `Drops`, which carries the count of failures, it gives the second half of `Accounted`, which is about the tracks that vanish for any other reason than their provider's refusal for good (`_is_permanent_playback_error`: such a track is not retried, unless a seek or a suspension was asked for meanwhile). `Wiped`: an item a clear took, if anyone holds it still, is the worker's, stopped,
  with no flag that would have it put back, and the caller that cleared waits for its end (`Ending`). That needs the transport lock: while the caller holds it no overlay falls back and nobody else asks for a restart, and the wait can end early only when nothing was playing, which `wiped` excludes.
  `AudioAssumption` makes the parts of all requests distinct: each is an item of its own, made for its place.
  The order of utterances needs a second invariant, `Orderly`, inductive beside `AudioInv`: what waits, what is in somebody's hands and what was heard is lined up along the log of commitments (`Lined`), so that whatever moves an utterance has to take the head of the queue or give back to its front. That holds only while nothing has
  failed, and `Untroubled` says why: the overlay task then lives and dies with the track that plays and finds it the same object; where no overlay runs over a playing track nothing waits for one; and a departure that cuts off what plays has waited for its end in vain, which counts as a trouble.

Assumptions: the `ASSUME`s on constants in the modules (finite sets where cardinalities count, disjoint mentions and events, records that are no controls, natural numbers for limits), and nothing else;
TLC evaluates each of them in a run.

Only model-checked: all liveness (`WaiterServed`, `ReadyIsClaimed`, `Ends`, `BatchSettled`, `AuditSettles`, `Ended`, `RoomsSettle`, `Settles`, `NoneDisappears`, `Heard`, both properties `Served`), which is out of the prover's reach.

Proved beyond what the runs check: the admission limits of the event queue (`TypeCorrect`), the counters of the admission and of the lock pool, mutual exclusion, no inactive key, that acquiring a workspace's semaphore under the admission lock never suspends (`AcquireNeverSuspendsHolds`), exact registry and limits, and type
correctness of most modules.

## Findings

The run marked *violation*, and the configurations beside the runs named here, show a disagreement between the code and what it says of itself; `PROJECT.json` quotes the sentences. Where a finding names
a passing run, the property of that run says exactly what remains true.

- **A call still being checked survives its attempt** (`agent_turn_stale_write`). Whether an attempt may be made again is decided from
  the writes it has *attempted*. A call that awaits its requester's confirmation has attempted none. The reset that would cancel it is skipped while another turn is active, and waits for the process first
  otherwise; the call then writes next to the one of the second attempt. `RepeatsAreOrphans` proves that this is the only way a mention's write is repeated.
- **Creating or cancelling a focus session is not restart-safe** (`MCFocusSessionCut.cfg`). The policy file and the timer row change in turn; cut off between them, the events-only mode
  stays with no session that would end it.
- **A claimed timer row without a lease** (`MCFocusTimerStuck.cfg`). One scan claims up to ten rows; when the second look at one of them fails, the scan is abandoned
  and its other rows stay claimed until the process starts again, and nothing makes it. A failing retry leaves its row the same way: `Ended` holds only of timers whose database did not fail.
- **A reminder recorded late is posted again** (`MCFocusTimerLate.cfg`): the history is searched from five minutes before `due_at`, which a retry or a restart moves to the present.
- **The recovery window is compared with an old row** (`MCTempVoiceRoomsWindow.cfg`). The deletion task waits for the room's lock with the row it read; under the lock it asks again whether the room is empty, not
  since when. A room that was entered and left meanwhile is removed at once. `ExpiryJustified` says what remains: nobody is in it, and it was empty for a window at some time.
- **An inverse can run twice** (`MCActionUndoTwice.cfg`). A claim is taken back by a release and by every start of the process, without asking whether the inverse took effect: a cancelled or failed call whose request went out,
  or a completion that failed, is undone again. `AtMostOnce` says what remains: no more often than claims were taken back, plus one.
- **Listing effects opens claimed undos** (`action_undo`): the diagnosis that must not reinterpret a running process's rows resets `undoing` receipts. It is one of the three ways `AtMostOnce` counts.
- **A stop that finds nothing playing is forgotten** (`audio_session`). While the worker resolves a stream or pauses before a retry, `stop()` changes nothing: a skipped or cleared track plays all the same, and a
  disconnect, which clears, finds it back at the head of the queue. A flag left from an earlier seek or suspension does the same to a later clear. `ClearEmpties` names these cases.
- **An utterance can be lost with its task** (`audio_session`). An overlay task cancelled before its first step, one cancelled while it gives up mixing, and one handed back after the track was resolved anew (whose file the
  `finally` clause has deleted) take their utterance with them. `InOrder` and `Accounted` count it as lost, and say that nothing else is.
- **A call can cut off another that wants the same image** (`MCImageQueueShared.cfg`). The two await one future; when one of them is cancelled or times out, asyncio cancels the future, and the other ends with a `CancelledError` nobody asked for, against
  the comment at `image.py:744`. The job goes on, and asking again finds it.
- **The image worker can sleep over a job** (`images_and_audits`). It looks first and clears the flag afterwards, so a job admitted and announced in between waits for the next submission or start. `NoSleepOver` and `Ends` name such jobs (`missed`) and say that, besides
  a caller cancelled before it could set the flag, nothing else is slept over.
- **A flush can forget the audit writer** (`images_and_audits`), against `README.md:737` (history reads and shutdown flush queued audits). A flush that finds nothing to wait for clears `_audit_writer_task` when the writer it looked at before it waited for the outbox's lock has ended
  (`journal.py:371-373`), although `append` or `record_invocation` may have made another one meanwhile. That one lives on in the queue's `get`, the next call makes a second, and a later flush may be answered by the one while the other has records in hand that were queued before.
  It takes no more than one failing transaction, the one that ended the first writer. `Kept` exempts the calls that begin or are under way while a forgotten writer lives (`misled`), says that nothing was forgotten even then, and without the exemption is violated.
- **A flush of the audit queue can hang** (`images_and_audits`), against the comment at `observability/journal.py:387`, in two ways, and `close()` in a third. A recovery whose last replay raises forgets the controls it has taken, and a flush that awaits one of them waits for ever if a record
  has come into the queue meanwhile, since it then makes a writer that knows nothing of its control. And a flush that waits for room in a full queue does not watch the writer, so a queue that fills up behind an ending recovery keeps it waiting until another call makes a writer.
  `close()` waits in the end for whatever writer `_audit_writer_task` names by then (`journal.py:306-308`), which a reader may just have made and nobody will stop. `AuditSettles` names the three and says that every other flush ends.
- **A new arrival can barge** (`MCAgentAdmissionBarging.cfg`): a queued turn that finds capacity on its first look takes it from one that was notified and has not run yet. Served all the same.
- **Events run again without the barrier** (no run): only the recovery of mentions asks whether the ledger holds a replay back; a claimed batch whose turn fails after a write is run again.
Two further observations about focus sessions, found with TLC and not kept as runs: only the *preset* of the former policy is remembered (`capabilities/focus_timer.py:93-102`), so a
workspace that announced joins only announces everything afterwards; and a change made by people between the reading of the mode (line 93) and its replacement (106) is overwritten.

Observations about follow-ups: one whose handling failed with an error shown keeps a row without a route, and one whose separate turn was refused as busy keeps one without a request; both are run again at the next start, unasked
(`told` in the model). After a crash the interrupted task is run again from its own message, and a follow-up that was attached to it, marked as applied, is not run again. A second attempt has a new budget, which does not know the follow-ups attached in the
first one (`providers/codex.py:1404`). When the app-server rejects a steer, the reserve of evidence calls is set back to what it was before the await (2067, 2152), whatever other candidates have reserved meanwhile.

Observations about rooms: making a room permanent reports success when the room is already gone; the rollback of a creation (1573-1575) deletes the channel whoever is in it by then; a rollback that fails, or a process that ends
between creation (1549) and registration, leaves a channel no row knows (`stray` in the model); an error of a creation skips the half of the handler that would note the departure; a join marks the room occupied without
looking who is in it. All but the first two are healed by the reconciliation or exempted by name.

Observations about Undo: a call cancelled while its thread claims leaves the row claimed until the next start (`stranded`), as does a release or a completion that fails; retention may delete a claimed row, whose completion then
raises after the inverse ran; an undo without an id always takes the newest row, also when that is undone already.

Observations about image jobs: a transaction that raises while a job is claimed or recorded as failed ends the worker, and the next submission makes another, which leaves the claimed row `running` until the process starts again (`Stranded`); a completion whose row cannot
be read back afterwards is recorded as a failure; a row is pruned at the start only once it was handed off, after which its key makes a new image.

Observations about the audit queue: a record accepted while a recovery replays the outbox stays in memory, with no writer, until the next call, and is lost if the process ends first; a flush looks at the writer before it waits for the outbox's lock, and
only the order of that lock keeps it from overlooking what a newer writer has in hand. A newer writer that is cancelled before it has had the lock escapes this order, and the flush may return while its recovery still holds records (`misled`).

Observations about audio: an item put back while a clear waits for its lock survives the clear; immediate retries of an utterance play a source that is used up; `_suspended` is set after an await in `suspend` and may override a
connect made meanwhile; an overlay cancelled after its utterance was heard, while its success is recorded, plays it again; speech that is left over after a failed mix can be overtaken by newer speech.

## What the models leave out

*Everywhere*: texts, identifiers, formatting, logging, metrics; SQLite's own failures other than a transaction that does not happen; two processes on one database, except in `AutonomyDelivery`, where they are the point
(the code takes no instance lock).

*Queue*: kinds, payloads and authors of events beyond what the limits count; deduplication is by key. Times are small naturals.

*Delivery*: one batch; chunks are numbers. Assumed of Discord: it remembers a nonce while a request with it is under way, and its history (at most 1000 messages are read) shows it. Receipts are idempotent by their id (`actions.py:2082-2126`).
`SavedNotReposted` leaves one residual race to its comment: a consumer that lost its lease without knowing it may repost a chunk that others found, saved and deleted.

*Admission*: cancellation while waiting on the condition is one pass through the lock. With four turns no interactive turn is refused by a full queue; that takes a fifth. Worth knowing, though no property is violated: turns of one
workspace are not first in first out while a queued one awaits its progress callback; a person's turn may sit behind an autonomous turn of its workspace; a newcomer may be told `queue_full` while a reserved slot is idle.

*Focus sessions*: a failing write of the policy file (`read_aloud.py:629`), after which memory and file disagree. *Focus timers*: the voice announcement, the message to the agent, the order and
the limit of a claim, pruning, a request that lands after a restart, a history longer than is read. `OnePost` assumes `Patience <= Window` (five minutes, in ticks).

*Turns*: each attempt asks for at most one write, which is not idempotent (capabilities marked safe to retry are repeated on purpose). An effect is `open` while the ledger holds nothing against a replay. Traces of started writes in the journal, the
second part of the barrier, are written on a best effort and never help here. An adapter records its dispatch before it acts, as the contract demands; the code notices a missing dispatch only afterwards (`tools.py:1060`). The cap
of the ledger (`_enforce_external_effect_caps`) may drop a confirmed row after a hundred later writes; it is not modelled. Left out as well: prompts, budgets, consent plans, the delivery of the answer,
threads that cannot be resumed.

*Routing*: the limits on follow-ups and the evidence budget, which refuse before anything is recorded or choose a separate task; edited and repeated messages; the reading of the message before its decision; what becomes of a separate turn that has begun (`AgentTurn`).
The futures of a candidate are folded into the sets `pending`, `confirmed` and `taken`: a call that was refused only gives up, and one whose task is cut off is like one that has not run yet. A call that was told that its route is durable applies it in its next steps, before the
host's 45 seconds are over; were it later than that, the turn would take a follow-up that also runs separately. A write under a follow-up's id is one bit.

*Rooms*: names, limits, access, saved profiles and panels; the commands of owners other than keeping a room and recovering it. Noting that a room is empty and cancelling its deletion task is one step under the lock; a deletion task's sleep ends at any time, since any tick
may be past the window. With two rooms and one handler the invariants were checked too.

*Undo*: actions of one actor; the inverse is a request that takes effect or not, possibly after its caller gave up. A record whose writing failed or has not happened yet is one that is not there, so an undo reaches an older action.

*Image jobs*: the limits per person and workspace, progress, pruning, shutdown, and the delivery by the bot with its locks and retries, which nothing asks for (`auto_deliver` is never set). A claim takes any queued job: their times of creation, by which the
code chooses, are not the order of their admission. `Submit` is one step: the key is looked up before and again under the admission lock.

*Audio*: radio, loops, pause, reordering, sessions that only read aloud, the limits of music, shutdown, the state on disk. A track that failed may come back at once (delays between rounds are not timed). A player that is stopped always reports its
end; an overlay that is cancelled ends within the two seconds `_wait_for_current` gives it. Asking to connect while disconnected is not counted in `MaxOps`, nor are a failing mix after a stop or the departure that cuts off another item
counted in `MaxTroubles`.

*Speech*: the provider's own limit (a semaphore inside the producers), metrics after a request. The condition's lock is free at every await but `wait`, so that nobody waits for it.

*Audit queue*: what is read, pruning, `append`'s own transaction, the projection of operations, the counters of retries (three attempts are one, which may have stored the batch all the same), a second cancellation while the first is being recovered from, and that `close()` raises when the writer of its last
wait is cancelled. Outbox rows are replayed in any order. A cancellation before the writer's first step is one while it waits for the lock.

Components without a module are listed with their reasons in `PROJECT.json`.

## Plan

The order follows what would hurt most and what the models so far rest on.

1. *Done*: keyed locks; the event queue, its wake-up and its delivery; admission; focus timers and sessions; turns and the write barrier; Undo; temporary voice rooms; audio sessions; image jobs; the routing of follow-ups; the audit queue; the speech scheduler.
2. The media scheduler beside `SpeechScheduler` (priorities, a limit per workspace). Abstract: round robin with a limit.
3. Beside `TaskRouting`: conversations and the outbox of answers (`store.py`), edits of follow-ups. Abstract: an answer is delivered once, part by part.
4. `AudioStateWriter` (`audio_state.py`): the other background writer; flush means stored. Abstract: a durable register, and for `AuditQueue` a durable log.
5. The rest of `AudioSession` (radio, loops, reordering, reading aloud without music), of `TempVoiceRooms` (owners' commands), of `FocusTimer` (the voice announcement).
6. `CapabilityLease` (`authority.py`), moderation quota, compute slots, files and publications.

The safety properties of all runs are proved. What the next proofs can add are refinements: a durable log for `AuditQueue`, an abstract player for `AudioSession`.

Runs stay one per question and short enough to be repeated on every change: each new module brings one passing run of at most a few minutes, with its liveness in the
same run where the state space allows. As the number of modules grows, small components share a run through a module that composes them, and runs of findings the maintainers have settled go. Type
invariants leave the runs once they are proved.
