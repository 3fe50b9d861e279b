---------------------------- MODULE SpeechScheduler ----------------------------
(***************************************************************************)
(* Speech for many guilds from one provider (services/speech.py): the      *)
(* scheduler, which serves guilds in turn and one request of a guild at a  *)
(* time with a fixed number of workers, and the requests that are played   *)
(* while they are synthesized.  Such a request has a task of its own that  *)
(* goes through the scheduler, and a producer, which the worker starts and *)
(* which the caller, the player and close() may each stop.                 *)
(*                                                                         *)
(* A step is what runs between two awaits; the condition's lock is never   *)
(* held over one, so that nobody waits for it.  Left out: the provider's   *)
(* own limit, the text, parts and cache of a request that is not streamed, *)
(* metrics, and the removal of old files.                                  *)
(***************************************************************************)
EXTENDS Naturals, Sequences, FiniteSets

CONSTANTS
    Speeches,       \* calls of synthesize
    Streams,        \* those that are streamed
    Guilds, GuildOf,
    Workers

ASSUME SpeechAssumption == Streams \subseteq Speeches /\ GuildOf \in [Speeches -> Guilds]

VARIABLES
    queues,     \* _queues: per guild, requests that wait
    ring,       \* _workspaces: the guilds to serve, in order
    busy,       \* _active_workspaces
    task,       \* the workers: what each does
    hand,       \* the request each has in hand
    closed,     \* how far close() is
    call,       \* where each call is
    job,        \* a streamed request's own task
    promise,     \* the future of a request in the scheduler
    ready,      \* the future of the item a streamed call waits for
    stream,     \* the producer
    stopped,    \* producers that were cancelled and have not noticed
    file,       \* what a producer has written
    quit,       \* history: calls that were cancelled
    late        \* history: those that were cancelled too late for their producer to see

speechVars == <<queues, ring, busy, task, hand, closed, call, job, promise, ready,
                stream, stopped, file, quit, late>>

SpeechInit ==
    /\ queues = [g \in Guilds |-> <<>>]
    /\ ring = <<>> /\ busy = {}
    /\ task = [k \in Workers |-> "none"]
    /\ hand = [k \in Workers |-> {}]
    /\ closed = "no"
    /\ call = [s \in Speeches |-> "idle"]
    /\ job = [s \in Speeches |-> "none"]
    /\ promise = [s \in Speeches |-> "none"]
    /\ ready = [s \in Speeches |-> "pending"]
    /\ stream = [s \in Speeches |-> "none"]
    /\ stopped = {}
    /\ file = [s \in Speeches |-> "none"]
    /\ quit = {} /\ late = {}

With(f, s, what) == [f EXCEPT ![s] = what]

\* The outcome of a future that nobody has resolved or cancelled before.
Resolved(f, s, what) == IF f[s] = "pending" THEN With(f, s, what) ELSE f

-------------------------------------------------------------------------------
(* The scheduler's queue                                                   *)

unchangedQueue == <<queues, ring, busy>>
unchangedStreams == <<ready, stream, stopped, file, late>>
unchangedCalls == <<call, job, quit>>

\* A mistake to rule out: a guild that is being served is put into the ring.
OfferedAnyway(g) == queues[g] = <<>>

Offered(g) == queues[g] = <<>> /\ g \notin busy

\* A mistake to rule out: nobody is told.
NotifiedNobody(workers) == {workers}

\* One of the workers that sleep is woken.
Notified(workers) ==
    LET asleep == {k \in Workers : workers[k] = "asleep"} IN
    IF asleep = {} THEN {workers} ELSE {With(workers, k, "look") : k \in asleep}

\* _ensure_workers
Ensured == [k \in Workers |-> IF task[k] = "none" THEN "look" ELSE task[k]]

\* FairSpeechScheduler.run, up to its await.
Enqueue(s) ==
    LET g == GuildOf[s] IN
    IF closed # "no"
    THEN promise' = With(promise, s, "failed") /\ UNCHANGED <<queues, ring, task>>
    ELSE /\ promise' = With(promise, s, "pending")
         /\ queues' = [queues EXCEPT ![g] = Append(@, s)]
         /\ ring' = IF Offered(g) THEN Append(ring, g) ELSE ring
         /\ task' \in Notified(Ensured)

\* _finish_workspace, after the worker has got to where workers[k] says.
Freed(g, order, workers) ==
    /\ busy' = busy \ {g}
    /\ IF queues'[g] = <<>>
       THEN ring' = order /\ task' = workers
       ELSE ring' = Append(order, g) /\ task' \in Notified(workers)

-------------------------------------------------------------------------------
(* The calls                                                               *)

Ask(s) ==
    /\ call[s] = "idle"
    /\ call' = With(call, s, "waits")
    /\ IF s \in Streams
       THEN job' = With(job, s, "new") /\ UNCHANGED <<queues, ring, task, promise>>
       ELSE Enqueue(s) /\ UNCHANGED job
    /\ UNCHANGED <<busy, hand, closed, unchangedStreams, quit>>

StartJob(s) ==
    /\ job[s] = "new"
    /\ job' = With(job, s, "waits")
    /\ Enqueue(s)
    /\ UNCHANGED <<busy, hand, closed, call, quit, unchangedStreams>>

\* What the scheduler says of the request matters if no producer has said anything.
EndJob(s) ==
    /\ job[s] = "waits" /\ promise[s] \in {"done", "failed", "cancelled"}
    /\ job' = With(job, s, "over")
    /\ ready' = IF promise[s] = "done" THEN ready ELSE Resolved(ready, s, promise[s])
    /\ UNCHANGED <<unchangedQueue, task, hand, closed, call, quit, promise, stream, stopped,
                   file, late>>

\* The task of a request is cancelled, and with it the future it awaits.
DropJob(s) ==
    /\ job' = IF job[s] = "new" THEN With(job, s, "over") ELSE job
    /\ promise' = Resolved(promise, s, "cancelled")

\* What a call waits for.
Awaited(s) == IF s \in Streams THEN ready[s] ELSE promise[s]

Answer(s) ==
    /\ call[s] = "waits" /\ Awaited(s) # "pending"
    /\ IF Awaited(s) = "done"
       THEN call' = With(call, s, "returned") /\ UNCHANGED <<job, promise>>
       ELSE /\ call' = With(call, s, IF Awaited(s) = "failed" THEN "raised" ELSE "cancelled")
            /\ DropJob(s)
    /\ UNCHANGED <<unchangedQueue, task, hand, closed, quit, unchangedStreams>>

\* Somebody cancels the call, and with it what it awaits.  An item that is ready
\* by then is nobody's.
Quit(s) ==
    /\ call[s] = "waits"
    /\ call' = With(call, s, "quitting")
    /\ quit' = quit \union {s}
    /\ IF s \in Streams
       THEN /\ ready' = Resolved(ready, s, "cancelled")
            /\ late' = late \union {t \in {s} : ready[s] = "done"}
            /\ UNCHANGED promise
       ELSE promise' = Resolved(promise, s, "cancelled") /\ UNCHANGED <<ready, late>>
    /\ UNCHANGED <<unchangedQueue, task, hand, closed, job, stream, stopped, file>>

QuitEnds(s) ==
    /\ call[s] = "quitting"
    /\ call' = With(call, s, "cancelled")
    /\ DropJob(s)
    /\ UNCHANGED <<unchangedQueue, task, hand, closed, quit, unchangedStreams>>

Ended == {"complete", "failed", "cut"}

\* The player is done with an item it has got: the file goes, and its producer
\* with it (AudioItem.cleanup, SpeechStream.close).  When that has ended, only the
\* file does, which is nobody else's matter.
Discard(s) ==
    /\ call[s] = "returned" /\ file[s] = "there" /\ stream[s] \notin Ended
    /\ file' = With(file, s, "gone")
    /\ stopped' = stopped \union {s}
    /\ UNCHANGED <<unchangedQueue, task, hand, closed, unchangedCalls, promise, ready, stream,
                   late>>

-------------------------------------------------------------------------------
(* The producer of a stream                                                *)

\* A mistake to rule out: only a failure that the call is told of removes the file.
CleansUpUnheard(s) == ready[s] = "pending"

\* Nobody has got the item.
CleansUp(s) == ready[s] \in {"pending", "cancelled"}

\* It raises: an item that nobody has got is removed.
Breaks(s, how) ==
    /\ stream' = With(stream, s, how)
    /\ stopped' = stopped \ {s}
    /\ ready' = Resolved(ready, s, IF how = "cut" THEN "cancelled" ELSE "failed")
    /\ file' = IF CleansUp(s) THEN With(file, s, "gone") ELSE file

unchangedByStream == <<unchangedQueue, task, hand, closed, unchangedCalls, promise>>

\* A task that is cancelled before its first step does nothing.
Produce(s) ==
    /\ stream[s] = "new"
    /\ IF s \in stopped
       THEN stream' = With(stream, s, "cut") /\ stopped' = stopped \ {s} /\ UNCHANGED file
       ELSE stream' = With(stream, s, "speaking") /\ file' = With(file, s, "there")
            /\ UNCHANGED stopped
    /\ UNCHANGED <<unchangedByStream, ready, late>>

\* A piece comes in, and is written by a thread unless the call is gone.
Chunk(s) ==
    /\ stream[s] = "speaking" /\ s \notin stopped
    /\ IF ready[s] = "cancelled"
       THEN Breaks(s, "cut")
       ELSE stream' = With(stream, s, "writing") /\ UNCHANGED <<stopped, ready, file>>
    /\ UNCHANGED <<unchangedByStream, late>>

\* It is written; with enough of them the item is ready.
Written(s) ==
    /\ stream[s] = "writing" /\ s \notin stopped
    /\ stream' = With(stream, s, "speaking")
    /\ ready' \in {ready, Resolved(ready, s, "done")}
    /\ UNCHANGED <<unchangedByStream, stopped, file, late>>

\* All of it has come.
Completes(s) ==
    /\ stream[s] = "speaking" /\ s \notin stopped
    /\ stream' = With(stream, s, "complete")
    /\ ready' = Resolved(ready, s, "done")
    /\ late' = late \union {t \in {s} : ready[s] = "cancelled"}
    /\ UNCHANGED <<unchangedByStream, stopped, file>>

\* The provider fails, or the piece cannot be written; or the producer has been
\* cancelled.
Break(s) ==
    /\ stream[s] \in {"speaking", "writing"}
    /\ Breaks(s, IF s \in stopped THEN "cut" ELSE "failed")
    /\ UNCHANGED <<unchangedByStream, late>>

-------------------------------------------------------------------------------
(* The workers                                                             *)

\* It takes the first request of the first guild, and drops one that was cancelled.
Look(k) ==
    /\ task[k] = "look"
    /\ \/ /\ closed # "no"
          /\ task' = With(task, k, "ended")
          /\ UNCHANGED <<unchangedQueue, hand, stream>>
       \/ /\ closed = "no" /\ ring = <<>>
          /\ task' = With(task, k, "asleep")
          /\ UNCHANGED <<unchangedQueue, hand, stream>>
       \/ /\ closed = "no" /\ ring # <<>>
          /\ LET g == Head(ring)
                 s == Head(queues[g])
             IN  /\ queues' = [queues EXCEPT ![g] = Tail(@)]
                 /\ IF promise[s] = "cancelled"
                    THEN Freed(g, Tail(ring), task) /\ UNCHANGED <<hand, stream>>
                    ELSE /\ ring' = Tail(ring) /\ busy' = busy \union {g}
                         /\ task' = With(task, k, "serves") /\ hand' = With(hand, k, {s})
                         /\ stream' = IF s \in Streams THEN With(stream, s, "new") ELSE stream
    /\ UNCHANGED <<closed, unchangedCalls, promise, ready, stopped, file, late>>

\* How a request may end: the worker was cancelled by close(), or the synthesis or
\* its stream is over; one that was only stopped is as good as done.
Outcomes(s) ==
    IF closed # "no" THEN {"cancelled"}
    ELSE IF s \notin Streams THEN {"done", "failed"}
    ELSE {IF stream[s] = "failed" THEN "failed" ELSE "done"}

\* The worker settles the future, if that is left to it, and goes on, or ends with a
\* cancellation.
Settle(k) ==
    /\ task[k] = "serves"
    /\ \E s \in hand[k] : \E outcome \in Outcomes(s) :
        /\ s \in Streams => stream[s] \in Ended
        /\ promise' = Resolved(promise, s, outcome)
        /\ UNCHANGED queues
        /\ Freed(GuildOf[s], ring,
                 With(task, k, IF outcome = "cancelled" THEN "ended" ELSE "look"))
    /\ hand' = With(hand, k, {})
    /\ UNCHANGED <<closed, unchangedCalls, unchangedStreams>>

\* close() cancels the workers; a worker stops the producer it waits for.
Close ==
    /\ closed = "no"
    /\ closed' = "closing"
    /\ task' = [k \in Workers |-> IF task[k] = "asleep" THEN "look" ELSE task[k]]
    /\ stopped' = stopped \union
           {s \in Streams : (\E k \in Workers : s \in hand[k]) /\ stream[s] \notin Ended}
    /\ UNCHANGED <<unchangedQueue, hand, unchangedCalls, promise, ready, stream, file, late>>

\* The workers have ended: what was never taken is cancelled.
CloseEnds ==
    /\ closed = "closing" /\ \A k \in Workers : task[k] \in {"none", "ended"}
    /\ closed' = "closed"
    /\ promise' = [s \in Speeches |->
           IF promise[s] = "pending" /\ \E i \in DOMAIN queues[GuildOf[s]] : queues[GuildOf[s]][i] = s
           THEN "cancelled" ELSE promise[s]]
    /\ queues' = [g \in Guilds |-> <<>>]
    /\ ring' = <<>> /\ busy' = {}
    /\ UNCHANGED <<task, hand, unchangedCalls, unchangedStreams>>

-------------------------------------------------------------------------------
CallStep(s) == StartJob(s) \/ EndJob(s) \/ Answer(s) \/ QuitEnds(s)
WorkerStep(k) == Look(k) \/ Settle(k)
StreamStep(s) == Produce(s) \/ Chunk(s) \/ Written(s) \/ (s \in stopped /\ Break(s))

SpeechNext ==
    \/ \E s \in Speeches :
        \/ Ask(s) \/ CallStep(s) \/ Quit(s) \/ Discard(s)
        \/ StreamStep(s) \/ Completes(s) \/ Break(s)
    \/ \E k \in Workers : WorkerStep(k)
    \/ Close \/ CloseEnds

SpeechSpec == SpeechInit /\ [][SpeechNext]_speechVars

\* Tasks that can run do, and streams come to an end, as every WAV declares its
\* length.  Nobody has to ask, cancel, discard or close.
FairSpeech ==
    /\ SpeechSpec
    /\ \A s \in Speeches :
        /\ WF_speechVars(CallStep(s))
        /\ WF_speechVars(StreamStep(s))
        /\ SF_speechVars(Completes(s) \/ Break(s))
    /\ \A k \in Workers : WF_speechVars(WorkerStep(k))
    /\ WF_speechVars(CloseEnds)

-------------------------------------------------------------------------------
(* Properties                                                              *)

Serving == UNION {hand[k] : k \in Workers}

\* The ring holds, once, each guild that has something queued and is not being
\* served; and a guild is served by one worker at a time, whatever is cancelled,
\* queued or finished meanwhile (speech.py:145-260).
RingExact ==
    /\ \A i, j \in DOMAIN ring : ring[i] = ring[j] => i = j
    /\ \A g \in Guilds :
        (\E i \in DOMAIN ring : ring[i] = g) <=> queues[g] # <<>> /\ g \notin busy
    /\ busy = {GuildOf[s] : s \in Serving}
    /\ \A s, t \in Serving : GuildOf[s] = GuildOf[t] => s = t

\* A call is its caller's affair.  It ends with a cancellation only if it was
\* cancelled, or the scheduler closed; and what its producer has written is
\* removed with it, unless the call went when its item was ready, or after the
\* producer had looked for it for the last time (speech.py:373-526).
OwnAffair ==
    /\ \A s \in Speeches : call[s] = "cancelled" => s \in quit \/ closed # "no"
    /\ \A s \in Streams \ late :
        stream[s] \in Ended /\ call[s] \in {"raised", "cancelled"} => file[s] # "there"

\* Every call is answered or ends with an error, also when others are cancelled,
\* streams stopped or the scheduler closed: the workers outlive all but close(), which
\* ends as well (speech.py:139-260).
Heard ==
    <>[](/\ \A s \in Speeches : call[s] \notin {"waits", "quitting"}
         /\ closed # "closing"
         /\ closed = "no" => ring = <<>>)

===============================================================================
