----------------------------- MODULE AudioSession -----------------------------
(***************************************************************************)
(* The audio session of one workspace (services/audio.py) and its output   *)
(* (integrations/discord/audio.py): a playback worker, the queues of music *)
(* and of speech with its reservations, the task that mixes speech into    *)
(* the playing track, and what people ask for meanwhile.                   *)
(*                                                                         *)
(* One action is what runs between two suspensions.  Left out: radio,      *)
(* loops, pauses, read-aloud without music, the state on disk.             *)
(***************************************************************************)
EXTENDS Integers, Sequences, FiniteSets, SequencesExt

CONSTANTS
    Music, Requests,
    Parts,         \* the utterances of a request, in order
    Nil,
    MaxSpeech,     \* max_pending_speech
    MaxTries,      \* immediate attempts (_IMMEDIATE_RETRY_DELAYS)
    MaxFailures,   \* failed rounds until a track is dropped
    MaxOps,        \* bound: things people ask for
    MaxTroubles    \* bound: failures of streams, mixes and the connection

Speech == UNION {Range(Parts[r]) : r \in Requests}
Items == Music \union Speech

ASSUME AudioAssumption ==
    /\ IsFiniteSet(Music) /\ IsFiniteSet(Requests) /\ Music \intersect Speech = {}
    /\ Nil \notin Items /\ Nil \notin Requests
    /\ \A r \in Requests : Parts[r] \in Seq(Speech) /\ Parts[r] # <<>> /\ IsInjective(Parts[r])
    /\ \A r, q \in Requests : r # q => Range(Parts[r]) \intersect Range(Parts[q]) = {}
    /\ {MaxSpeech, MaxTries, MaxFailures} \subseteq Nat \ {0}
    /\ MaxOps \in Nat /\ MaxTroubles \in Nat

VARIABLES
    music, speech,  \* the queues
    line,           \* the reservations, in order; a slot per part to come
    current, started, active, \* _current, _current_playback_started, _speech_active
    flags,          \* what was asked of the current item
    suspended, bound, wake,   \* _suspended, a destination is known, _wake
    voice,          \* the connection: "gone", "idle" or "playing"
    work,           \* the worker
    overlay,        \* the task of _overlay_task
    op,             \* the caller that holds the transport lock
    joining,        \* a connect() under way
    fate,           \* what became of each item
    fails,          \* failure_count
    order,          \* history: the utterances in the order of their commitment
    wiped, skipped, \* history: what clears took and skips were meant for
    ops, troubles

queues == <<music, speech, line>>
session == <<current, started, active, flags, suspended, bound, wake>>
history == <<order, wiped, skipped>>
round == <<music, speech, current, active, flags, suspended, wake, fate, fails>>
rest == <<line, bound, joining, history, ops>>
audioVars == <<round, started, voice, work, overlay, op, rest, troubles>>

Flags == {"skip", "discard", "suspend", "restart"}
Fates == {"new", "in", "heard", "cleared", "dropped", "refused", "lost"}
NoOverlay == [step |-> "none", speech |-> Nil, same |-> FALSE, cut |-> FALSE]
NoOp == [step |-> "idle", kind |-> Nil, waits |-> FALSE]
Idle == [pc |-> "look", tries |-> 0, eof |-> FALSE, resolved |-> FALSE,
         quiet |-> FALSE, over |-> FALSE, outcome |-> Nil, target |-> Nil]

AudioTypeOK ==
    /\ music \in Seq(Music) /\ speech \in Seq(Speech) /\ line \in Seq(Requests)
    /\ current \in Items \union {Nil} /\ started \in BOOLEAN /\ active \in BOOLEAN
    /\ flags \subseteq Flags /\ suspended \in BOOLEAN /\ bound \in BOOLEAN
    /\ wake \in BOOLEAN /\ joining \in BOOLEAN
    /\ voice \in {"gone", "idle", "playing"}
    /\ fate \in [Items -> Fates]

AudioInit ==
    /\ music = <<>> /\ speech = <<>> /\ line = <<>>
    /\ current = Nil /\ started = FALSE /\ active = FALSE /\ flags = {}
    /\ suspended = FALSE /\ bound = FALSE /\ wake = FALSE
    /\ voice = "gone" /\ joining = FALSE
    /\ work = Idle /\ overlay = NoOverlay /\ op = NoOp
    /\ fate = [i \in Items |-> "new"] /\ fails = [m \in Music |-> 0]
    /\ order = <<>> /\ wiped = {} /\ skipped = {}
    /\ ops = 0 /\ troubles = 0

-------------------------------------------------------------------------------
(* The locks                                                               *)

\* _lock is held across a suspension only while a clear announces itself.
LockFree == ~(op.kind \in {"clear", "leave"} /\ op.step = "asked")
\* No caller of skip(), seek(), clear() or suspend() holds the transport lock.
NoCallerEver == TRUE       \* mutant: the overlay task does not wait for them
NoCaller == op.step = "idle"
TransportFree == NoCaller /\ overlay.step \notin {"mixing", "restoring"}

AtEnd(i, queue) == Append(queue, i)       \* mutant: append for appendleft
InFront(i, queue) == <<i>> \o queue

\* output.stop(): what is being resolved does not notice.
Stop ==
    /\ voice' = IF voice = "playing" THEN "idle" ELSE voice
    /\ work' = [work EXCEPT !.quiet = TRUE, !.over = @ \/ voice = "playing"]

-------------------------------------------------------------------------------
(* What is queued                                                          *)

EnqueueMusic(m) ==
    /\ fate[m] = "new" /\ LockFree
    /\ music' = Append(music, m)
    /\ fate' = [fate EXCEPT ![m] = "in"]
    /\ wake' = TRUE
    /\ UNCHANGED <<speech, line, current, started, active, flags, suspended, bound,
                   voice, work, overlay, op, joining, fails, history, ops, troubles>>

\* remove() and clear_for_actor(); what the worker holds is not theirs.
RemoveMusic(n) ==
    /\ ops < MaxOps /\ LockFree
    /\ n \in DOMAIN music
    /\ music' = RemoveAt(music, n)
    /\ fate' = [fate EXCEPT ![music[n]] = "cleared"]
    /\ ops' = ops + 1
    /\ UNCHANGED <<speech, line, session, voice, work, overlay, op, joining, fails,
                   history, troubles>>

Left(r) == Cardinality({s \in Range(Parts[r]) : fate[s] = "new"})

\* _speech_load_locked()
SpeechLoad ==
    Len(speech) + FoldSet(LAMBDA r, n : Left(r) + n, 0, Range(line))
                + (IF active \/ current \in Speech THEN 1 ELSE 0)

Reserve(r) ==
    /\ r \notin Range(line) /\ Left(r) = Len(Parts[r]) /\ LockFree
    /\ SpeechLoad + Left(r) <= MaxSpeech
    /\ line' = Append(line, r)
    /\ UNCHANGED <<music, speech, session, voice, work, overlay, op, joining,
                   fate, fails, history, ops, troubles>>

Release(r) ==
    /\ LockFree
    /\ \E n \in DOMAIN line : line[n] = r /\ line' = RemoveAt(line, n)
    /\ UNCHANGED <<music, speech, session, voice, work, overlay, op, joining,
                   fate, fails, history, ops, troubles>>

Mixes(s) == [NoOverlay EXCEPT !.step = "new", !.speech = s, !.same = TRUE]

\* A part is committed when its reservation heads the line; the last one ends
\* the reservation.  While a track plays with no overlay, it is mixed at once.
Commit(r) ==
    /\ line # <<>> /\ Head(line) = r /\ LockFree
    /\ LET s == Parts[r][Len(Parts[r]) - Left(r) + 1]
       IN  /\ fate' = [fate EXCEPT ![s] = "in"]
           /\ order' = Append(order, s)
           /\ IF current \in Music /\ started /\ overlay.step = "none"
              THEN /\ overlay' = Mixes(s) /\ active' = TRUE
                   /\ UNCHANGED speech
              ELSE /\ speech' = Append(speech, s)
                   /\ UNCHANGED <<overlay, active>>
    /\ line' = IF Left(r) = 1 THEN Tail(line) ELSE line
    /\ wake' = TRUE
    /\ UNCHANGED <<music, current, started, flags, suspended, bound, voice, work,
                   op, joining, fails, wiped, skipped, ops, troubles>>

-------------------------------------------------------------------------------
(* The worker: _run()                                                      *)

Sleeps == [Idle EXCEPT !.pc = "sleep"]

Suspended ==
    /\ work.pc = "look" /\ suspended
    /\ wake' = FALSE /\ work' = Sleeps
    /\ UNCHANGED <<queues, current, started, active, flags, suspended, bound, voice,
                   overlay, op, joining, fate, fails, history, ops, troubles>>

\* A lost connection holds the queue until connect().
Unconnected ==
    /\ work.pc = "look" /\ ~suspended /\ voice = "gone"
    /\ IF bound
       THEN /\ suspended' = TRUE /\ work' = [Idle EXCEPT !.pc = "hold"]
            /\ UNCHANGED wake
       ELSE /\ wake' = FALSE /\ work' = Sleeps
            /\ UNCHANGED suspended
    /\ UNCHANGED <<queues, current, started, active, flags, bound, voice, overlay,
                   op, joining, fate, fails, history, ops, troubles>>

HoldBlind ==               \* mutant: the connection is not looked at again after the clear
    /\ work.pc = "hold"
    /\ wake' = FALSE /\ work' = Sleeps
    /\ UNCHANGED <<queues, current, started, active, flags, suspended, bound, voice,
                   overlay, op, joining, fate, fails, history, ops, troubles>>

Hold ==
    /\ work.pc = "hold"
    /\ wake' = FALSE
    /\ work' = IF voice = "gone" THEN Sleeps ELSE Idle
    /\ UNCHANGED <<queues, current, started, active, flags, suspended, bound, voice,
                   overlay, op, joining, fate, fails, history, ops, troubles>>

Take(i) ==
    /\ current' = i /\ started' = FALSE /\ active' = (i \in Speech)
    /\ flags' = {}
    /\ work' = [Idle EXCEPT !.pc = "begin", !.target = i, !.tries = 1]
    /\ UNCHANGED wake

\* Speech first.
NextItem ==
    /\ work.pc = "look" /\ ~suspended /\ voice # "gone" /\ LockFree
    /\ \/ /\ speech # <<>> /\ Take(Head(speech))
          /\ speech' = Tail(speech) /\ UNCHANGED music
       \/ /\ speech = <<>> /\ music # <<>> /\ Take(Head(music))
          /\ music' = Tail(music) /\ UNCHANGED speech
       \/ /\ speech = <<>> /\ music = <<>>
          /\ wake' = FALSE /\ work' = Sleeps
          /\ UNCHANGED <<music, speech, current, started, active, flags>>
    /\ UNCHANGED <<line, suspended, bound, voice, overlay, op, joining, fate, fails,
                   history, ops, troubles>>

Awake ==
    /\ work.pc = "sleep" /\ wake
    /\ work' = Idle
    /\ UNCHANGED <<queues, session, voice, overlay, op, joining, fate, fails,
                   history, ops, troubles>>

\* Mutant: a restart counts only for a round that failed.
WhitherUnlessDone(i, outcome) ==
    CASE outcome = "cut" -> "held"
      [] outcome # "cut" /\ i \in Music /\ "suspend" \in flags -> "held"
      [] outcome = "failed" /\ i \in Music /\ "suspend" \notin flags /\ "restart" \in flags -> "front"
      [] outcome = "failed" /\ i \in Music /\ flags = {} /\ fails[i] + 1 < MaxFailures
           -> "back"
      [] OTHER -> "nowhere"

\* What follows the end of an item: back to the front of its queue ("held" if
\* the worker is not to go on), to its end after a failure that may be another
\* one next time, or nowhere.
Whither(i, outcome) ==
    CASE outcome = "cut" -> "held"
      [] outcome # "cut" /\ i \in Music /\ "suspend" \in flags -> "held"
      [] outcome # "cut" /\ i \in Music /\ flags \intersect {"suspend", "restart"} = {"restart"}
           -> "front"
      [] outcome = "failed" /\ i \in Music /\ flags = {} /\ fails[i] + 1 < MaxFailures
           -> "back"
      [] OTHER -> "nowhere"

Placed(i, where) ==
    LET joined(queue) == CASE where \in {"held", "front"} -> InFront(i, queue)
                           [] where = "back" -> Append(queue, i)
                           [] OTHER -> queue
    IN  /\ music' = IF i \in Music THEN joined(music) ELSE music
        /\ speech' = IF i \in Speech THEN joined(speech) ELSE speech
        /\ wake' = CASE where = "held" -> FALSE [] where = "front" -> TRUE [] OTHER -> wake

Ended(outcome) ==
    CASE outcome = "completed" /\ ~work.quiet -> "heard"
      [] "discard" \in flags -> "cleared"
      [] outcome = "refused" /\ flags = {} -> "refused"
      [] OTHER -> "dropped"

\* The rest of the finally clause and of the round.  To put the item back the
\* worker needs _lock; it may have to wait for it with the item in its hand.
Retire(outcome) ==
    LET i == work.target
        where == Whither(i, outcome)
    IN  /\ current' = Nil /\ started' = FALSE /\ active' = FALSE /\ flags' = {}
        /\ suspended' = (suspended \/ outcome = "cut")
        /\ fails' = IF where = "back" THEN [fails EXCEPT ![i] = @ + 1] ELSE fails
        /\ fate' = IF where = "nowhere" /\ fate[i] = "in"
                   THEN [fate EXCEPT ![i] = Ended(outcome)] ELSE fate
        /\ IF where # "nowhere" /\ ~LockFree
           THEN /\ work' = [work EXCEPT !.pc = "put", !.outcome = where]
                /\ UNCHANGED <<music, speech, wake>>
           ELSE /\ Placed(i, where)
                /\ work' = Idle

PutBack ==
    /\ work.pc = "put" /\ LockFree
    /\ Placed(work.target, work.outcome)
    /\ work' = Idle
    /\ UNCHANGED <<line, current, started, active, flags, suspended, bound, voice,
                   overlay, op, joining, fate, fails, history, ops, troubles>>

\* The overlay of the item is cancelled and awaited first, unless "current" is
\* an object resolved anew by a retry and "playable", after an exception, not.
Finally(outcome) ==
    IF overlay.step # "none" /\ (outcome = "completed" \/ ~work.resolved)
    THEN /\ overlay' = [overlay EXCEPT !.cut = TRUE]
         /\ work' = [work EXCEPT !.pc = "cancelling", !.outcome = outcome]
         /\ UNCHANGED <<round, started, op>>
    ELSE /\ Retire(outcome)
         /\ overlay' = [overlay EXCEPT !.same = FALSE]
         /\ op' = [op EXCEPT !.waits = FALSE]

Cancelled ==
    /\ work.pc = "cancelling" /\ overlay.step = "dead"
    /\ Retire(work.outcome)
    /\ overlay' = NoOverlay
    /\ op' = [op EXCEPT !.waits = FALSE]
    /\ UNCHANGED <<line, bound, voice, joining, history, ops, troubles>>

-------------------------------------------------------------------------------
(* The worker: _play_with_recovery() and the output                        *)

Trouble == troubles < MaxTroubles /\ troubles' = troubles + 1

Attempt(pc, tries) ==
    /\ work' = [work EXCEPT !.pc = pc, !.tries = tries]
    /\ UNCHANGED <<round, started, overlay, op>>

\* The next immediate attempt: a track is resolved anew, but speech has lost
\* its source (unresolved_copy) and cannot be played again.  The last failure
\* is that of the round.
AttemptFails(outcome) ==
    IF voice = "gone" THEN Finally("cut")
    ELSE IF work.tries = MaxTries THEN Finally(outcome)
    ELSE Attempt(IF work.target \in Music THEN "prepare" ELSE "ready", work.tries + 1)

Begin ==
    /\ work.pc = "begin"
    /\ IF voice = "gone" THEN Finally("cut")
       ELSE \/ Attempt("ready", 1)
            \/ work.target \in Music /\ Attempt("prepare", 1)
    /\ UNCHANGED <<voice, rest, troubles>>

\* The track gets a new object.
Resolved ==
    /\ work.pc = "prepare"
    /\ work' = [work EXCEPT !.pc = "ready", !.resolved = TRUE]
    /\ overlay' = [overlay EXCEPT !.same = FALSE]
    /\ op' = [op EXCEPT !.waits = FALSE]
    /\ UNCHANGED <<round, started, voice, rest, troubles>>

\* The provider may refuse the track for good (_is_permanent_playback_error).
ResolveFails ==
    /\ work.pc = "prepare" /\ Trouble
    /\ AttemptFails("failed") \/ AttemptFails("refused")
    /\ UNCHANGED <<voice, rest>>

Play ==
    /\ work.pc = "ready"
    /\ IF voice = "gone" THEN Finally("cut") /\ UNCHANGED voice
       ELSE IF work.target \in Speech /\ work.tries > 1
       THEN AttemptFails("failed") /\ UNCHANGED voice
       ELSE /\ voice' = "playing" /\ started' = FALSE
            /\ work' = [work EXCEPT !.pc = "starting", !.quiet = FALSE, !.over = FALSE]
            /\ UNCHANGED <<round, overlay, op>>
    /\ UNCHANGED <<rest, troubles>>

\* _mark_playback_started(): waiting speech is mixed from now on.
Started ==
    /\ work.pc = "starting" /\ LockFree
    /\ started' = TRUE
    /\ work' = [work EXCEPT !.pc = "play"]
    /\ IF current \in Music /\ overlay.step = "none" /\ speech # <<>>
       THEN /\ overlay' = Mixes(Head(speech)) /\ active' = TRUE
            /\ speech' = Tail(speech)
       ELSE UNCHANGED <<overlay, active, speech>>
    /\ UNCHANGED <<music, current, flags, suspended, wake, fate, fails, op, voice, rest, troubles>>

Silent == IF voice = "playing" THEN "idle" ELSE voice

\* Playback ends by itself, by stop() or with the connection.
Completed ==
    /\ work.pc = "play"
    /\ Finally("completed")
    /\ voice' = Silent
    /\ UNCHANGED <<rest, troubles>>

\* A track that nobody stopped ends too early: once it is resolved anew at once.
EarlyEnd ==
    /\ work.pc = "play" /\ work.target \in Music /\ ~work.quiet
    /\ Trouble
    /\ IF voice = "gone" THEN Finally("cut")
       ELSE IF work.eof THEN Finally("failed")
       ELSE /\ work' = [work EXCEPT !.pc = "prepare", !.eof = TRUE]
            /\ UNCHANGED <<round, started, overlay, op>>
    /\ voice' = Silent
    /\ UNCHANGED rest

PlayFails ==
    /\ work.pc = "play" /\ ~work.over
    /\ IF voice = "gone" THEN UNCHANGED troubles ELSE Trouble
    /\ AttemptFails("failed")
    /\ voice' = Silent
    /\ UNCHANGED rest

-------------------------------------------------------------------------------
(* The overlay task: _run_speech_overlays()                                *)

Overlays(step) ==
    /\ overlay.step = step /\ ~overlay.cut
    /\ UNCHANGED <<music, current, started, suspended, fails, rest>>

\* The transport lock is free, or the task waits for it.
Locks(held, waiting) == IF NoCaller THEN held ELSE waiting

\* The track is no longer the current object: the utterance goes back to the
\* queue, and then the finally clause deletes its file.
HandBack(s, queue) ==
    /\ speech' = InFront(s, queue)
    /\ fate' = [fate EXCEPT ![s] = "lost"]
    /\ wake' = TRUE /\ active' = FALSE
    /\ overlay' = NoOverlay

OverlayBegins ==
    /\ Overlays("new")
    /\ IF overlay.same
       THEN /\ overlay' = [overlay EXCEPT !.step = Locks("mixing", "want")]
            /\ UNCHANGED <<speech, fate, wake, active>>
       ELSE LockFree /\ HandBack(overlay.speech, speech)
    /\ UNCHANGED <<flags, voice, work, op, troubles>>

OverlayLocks ==
    /\ \/ Overlays("want") /\ overlay' = [overlay EXCEPT !.step = "mixing"]
       \/ Overlays("restore") /\ overlay' = [overlay EXCEPT !.step = "restoring"]
    /\ NoCaller
    /\ UNCHANGED <<speech, fate, wake, active, flags, voice, work, op, troubles>>

\* The utterance ends, with the music that plays under it.
Mixed ==
    /\ Overlays("mixing") /\ voice = "playing"
    /\ overlay' = [overlay EXCEPT !.step = "metric"]
    /\ fate' = [fate EXCEPT ![overlay.speech] = "heard"]
    /\ UNCHANGED <<speech, wake, active, flags, voice, work, op, troubles>>

\* What the mixer does by itself is bounded, what follows from a stop is not.
MixTrouble ==
    /\ voice = "playing" => troubles < MaxTroubles
    /\ troubles' = troubles + 1

\* The last of its attempts fails: with the mixer, or because nothing plays.
MixFails ==
    /\ Overlays("mixing")
    /\ overlay' = [overlay EXCEPT !.step = "broken"]
    /\ MixTrouble
    /\ UNCHANGED <<speech, fate, wake, active, flags, voice, work, op>>

\* The metric of an utterance that was heard, and of one that was not.
Reported ==
    /\ \/ /\ Overlays("metric")
          /\ overlay' = [overlay EXCEPT !.step = "next", !.speech = Nil]
       \/ /\ Overlays("broken")
          /\ overlay' = [overlay EXCEPT !.step = "fallback"]
    /\ UNCHANGED <<speech, fate, wake, active, flags, voice, work, op, troubles>>

NextSpeech ==
    /\ Overlays("next") /\ LockFree
    /\ IF speech = <<>>
       THEN /\ overlay' = [overlay EXCEPT !.step =
                  IF overlay.same /\ voice # "gone" THEN Locks("restoring", "restore")
                                                   ELSE "final"]
            /\ active' = FALSE
            /\ UNCHANGED <<speech, fate, wake>>
       ELSE IF overlay.same
       THEN /\ overlay' = [overlay EXCEPT !.step = Locks("mixing", "want"),
                                          !.speech = Head(speech)]
            /\ speech' = Tail(speech) /\ active' = TRUE
            /\ UNCHANGED <<fate, wake>>
       ELSE HandBack(Head(speech), Tail(speech))
    /\ UNCHANGED <<flags, voice, work, op, troubles>>

\* update_music(): the source of the track alone takes over again.
Restore ==
    /\ Overlays("restoring")
    /\ \/ /\ voice = "playing"
          /\ overlay' = [overlay EXCEPT !.step = "restored"]
          /\ UNCHANGED troubles
       \/ /\ overlay' = [overlay EXCEPT !.step = "final"]
          /\ MixTrouble
    /\ UNCHANGED <<speech, fate, wake, active, flags, voice, work, op>>

\* What was queued meanwhile is mixed next, if the track plays on.
OverlayEnds ==
    /\ \E step \in {"restored", "final"} : Overlays(step)
    /\ LockFree
    /\ IF overlay.step = "restored" /\ overlay.same /\ voice # "gone" /\ speech # <<>>
       THEN /\ overlay' = Mixes(Head(speech)) /\ speech' = Tail(speech)
            /\ active' = TRUE
       ELSE overlay' = NoOverlay /\ active' = FALSE /\ UNCHANGED speech
    /\ UNCHANGED <<fate, wake, flags, voice, work, op, troubles>>

\* _fallback_to_standalone_speech(): the worker plays it, then the track again.
Fallback ==
    /\ Overlays("fallback") /\ LockFree /\ NoCaller
    /\ overlay' = NoOverlay
    /\ speech' = InFront(overlay.speech, speech)
    /\ active' = FALSE /\ wake' = TRUE
    /\ IF overlay.same /\ voice # "gone"
       THEN flags' = flags \union {"restart"} /\ Stop
       ELSE UNCHANGED <<flags, voice, work>>
    /\ UNCHANGED <<fate, op, troubles>>

\* The worker has cancelled the task.  An utterance on its way to the listeners
\* goes back to the queue; one whose task has not begun, or is giving up, is lost.
OverlayCut ==
    /\ overlay.cut /\ overlay.step \notin {"none", "dead"}
    /\ CASE overlay.step \in {"want", "mixing", "metric"} ->
              /\ LockFree
              /\ speech' = InFront(overlay.speech, speech) /\ wake' = TRUE
              /\ fate' = [fate EXCEPT ![overlay.speech] = "in"]
         [] overlay.step \in {"new", "broken", "fallback"} ->
              /\ fate' = [fate EXCEPT ![overlay.speech] = "lost"]
              /\ UNCHANGED <<speech, wake>>
         [] OTHER -> UNCHANGED <<speech, fate, wake>>
    /\ overlay' = [overlay EXCEPT !.step = "dead", !.speech = Nil]
    /\ UNCHANGED <<music, current, started, active, flags, suspended, fails, voice,
                   work, op, rest, troubles>>

-------------------------------------------------------------------------------
(* What people ask for.  skip(), seek() (as do tune() and set_volume()) and *)
(* clear() first await before_mutation with the transport lock held.        *)

unasked == <<started, active, suspended, wake, overlay, fails, line, bound, joining, order>>

\* The lock is taken and the state looked at.
Ask(kind) ==
    /\ ops < MaxOps /\ TransportFree
    /\ CASE kind = "skip" -> current # Nil
         [] kind = "seek" -> current \in Music
         [] OTHER -> {current} \union Range(music \o speech) \union Range(line) # {Nil}
    /\ op' = [step |-> "asked", kind |-> kind, waits |-> kind = "seek"]
    /\ ops' = ops + 1
    /\ UNCHANGED <<round, started, voice, work, overlay, line, bound, joining,
                   history, troubles>>

Refused ==
    /\ op.step = "asked"
    /\ op' = NoOp
    /\ UNCHANGED <<round, started, voice, work, overlay, rest, troubles>>

Skip ==
    /\ op.kind = "skip" /\ op.step = "asked"
    /\ flags' = flags \union {"skip"}
    /\ skipped' = skipped \union {current}
    /\ Stop
    /\ op' = NoOp
    /\ UNCHANGED <<music, speech, current, fate, wiped, ops, troubles, unasked>>

Seek ==
    /\ op.kind = "seek" /\ op.step = "asked"
    /\ flags' = flags \union {"restart"}
    /\ Stop
    /\ op' = [op EXCEPT !.step = "waiting"]
    /\ UNCHANGED <<music, speech, current, fate, wiped, skipped, ops, troubles, unasked>>

Clear ==
    /\ op.kind \in {"clear", "leave"} /\ op.step = "asked"
    /\ LET gone == Range(music \o speech)
       IN  /\ fate' = [i \in Items |-> IF i \in gone THEN "cleared" ELSE fate[i]]
           /\ wiped' = wiped \union gone
                \union (IF voice = "playing" /\ flags \subseteq {"skip"} THEN {current} ELSE {})
    /\ music' = <<>> /\ speech' = <<>> /\ line' = <<>>
    /\ flags' = flags \union {"discard"}
    /\ IF current # Nil THEN Stop ELSE UNCHANGED <<voice, work>>
    /\ op' = [op EXCEPT !.step = "waiting", !.waits = current # Nil]
    /\ UNCHANGED <<current, started, active, suspended, wake, overlay, fails, bound,
                   joining, order, skipped, ops, troubles>>

\* suspend() awaits nothing before it acts.
Suspend ==
    /\ ops < MaxOps /\ TransportFree
    /\ ops' = ops + 1
    /\ suspended' = TRUE
    /\ flags' = flags \union {"suspend"}
    /\ IF current # Nil THEN Stop ELSE UNCHANGED <<voice, work>>
    /\ op' = [step |-> "waiting", kind |-> "suspend", waits |-> current # Nil]
    /\ UNCHANGED <<music, speech, current, started, active, wake, overlay, fate,
                   fails, line, bound, joining, history, troubles>>

\* _wait_for_current(): until the object is no longer current, at most two
\* seconds, which only a resolution, a pause before a retry and a lost
\* connection take.  A departure that cuts off another item is a trouble too.
Waited ==
    /\ op.step = "waiting"
    /\ op.waits => work.pc \in {"prepare", "ready"} \/ (voice = "gone" /\ ~work.over)
    /\ op' = NoOp
    /\ voice' = IF op.kind \in {"suspend", "leave"} THEN "gone" ELSE voice
    /\ bound' = (bound /\ op.kind # "leave")
    /\ troubles' = IF voice = "playing" /\ voice' = "gone" THEN troubles + 1 ELSE troubles
    /\ UNCHANGED <<round, started, work, overlay, line, joining, history, ops>>

\* What connects again is not counted.
Connect ==
    /\ ~joining
    /\ IF voice = "gone" THEN UNCHANGED ops ELSE ops < MaxOps /\ ops' = ops + 1
    /\ joining' = TRUE
    /\ UNCHANGED <<round, started, voice, work, overlay, op, line, bound, history, troubles>>

Connected ==
    /\ joining
    /\ joining' = FALSE
    /\ voice' = IF voice = "gone" THEN "idle" ELSE voice
    /\ bound' = TRUE /\ suspended' = FALSE /\ wake' = TRUE
    /\ UNCHANGED <<music, speech, current, started, active, flags, fate, fails, work,
                   overlay, op, line, history, ops, troubles>>

Drop ==
    /\ troubles < MaxTroubles /\ voice # "gone"
    /\ troubles' = troubles + 1
    /\ voice' = "gone"
    /\ UNCHANGED <<round, started, work, overlay, op, line, bound, joining, history, ops>>

Worker ==
    \/ Suspended \/ Unconnected \/ Hold \/ NextItem \/ Awake
    \/ PutBack \/ Cancelled
    \/ Begin \/ Resolved \/ ResolveFails \/ Play \/ Started
    \/ Completed \/ EarlyEnd \/ PlayFails

OverlayTask ==
    \/ OverlayBegins \/ OverlayLocks \/ Mixed \/ MixFails \/ Reported
    \/ NextSpeech \/ Restore \/ OverlayEnds \/ Fallback \/ OverlayCut

Asked ==
    \/ \E kind \in {"skip", "seek", "clear", "leave"} : Ask(kind)
    \/ Refused \/ Skip \/ Seek \/ Clear \/ Suspend \/ Waited
    \/ Connect \/ Connected

AudioNext ==
    \/ \E m \in Music : EnqueueMusic(m)
    \/ \E n \in DOMAIN music : RemoveMusic(n)
    \/ \E r \in Requests : Reserve(r) \/ Release(r) \/ Commit(r)
    \/ Worker \/ OverlayTask \/ Asked \/ Drop

AudioSpec == AudioInit /\ [][AudioNext]_audioVars

FairSpec ==
    /\ AudioSpec
    /\ WF_audioVars(Worker) /\ WF_audioVars(OverlayTask)
    /\ WF_audioVars(Refused \/ Skip \/ Seek \/ Clear \/ Waited \/ Connected)

-------------------------------------------------------------------------------
(* Properties                                                              *)

Places(i) ==
    Cardinality({n \in 1 .. Len(music) : music[n] = i})
    + Cardinality({n \in 1 .. Len(speech) : speech[n] = i})
    + (IF work.target = i THEN 1 ELSE 0)
    + (IF overlay.speech = i /\ overlay.step # "metric" THEN 1 ELSE 0)

\* An accepted item is in one place, a queue, the worker's hand or the overlay's,
\* until something became of it.  A track whose round ends in an error its provider
\* calls permanent is refused, unless something was asked of it meanwhile.  Every
\* other track that vanishes unheard was skipped or has failed as often as it may:
\* seeking, suspending, fallbacks and lost connections keep it (audio.py:1764-1881).
Accounted ==
    /\ \A i \in Items : CASE fate[i] = "in" -> Places(i) = 1
                         [] fate[i] = "lost" -> Places(i) <= 1
                         [] OTHER -> Places(i) = 0
    /\ \A m \in Music :
          fate[m] = "dropped" /\ fails[m] + 1 < MaxFailures => m \in skipped

\* A clear leaves nothing of what was queued or playing: neither the worker nor
\* the overlay task brings it back.
ClearEmpties == \A i \in wiped : op.step = "idle" => fate[i] # "in"

\* Utterances are heard in the order of their commitment, whatever people skip,
\* seek, clear, suspend and resume, while no stream, mix or connection fails.
InOrder ==
    \A n \in 1 .. Len(order) : \A k \in 1 .. n - 1 :
        troubles = 0 /\ fate[order[n]] = "heard" => fate[order[k]] # "in"

\* Once the session stays connected and is not suspended, everything accepted is
\* played or given up: no item is stranded in a queue or in a task.
Served ==
    <>[](voice # "gone" /\ ~suspended) => <>[](\A i \in Items : fate[i] # "in")
===============================================================================
