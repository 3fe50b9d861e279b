------------------------------ MODULE AuditQueue ------------------------------
(***************************************************************************)
(* The queue of audit events (observability/journal.py).  Outcomes of      *)
(* capabilities are queued without waiting; one writer stores them in      *)
(* batches, moves a batch that cannot be stored to an outbox in a second   *)
(* database, and replays the outbox.  Readers, and whoever closes the      *)
(* journal, put a control into the queue and wait until the writer has     *)
(* come to it.  A writer that fails saves what it held and what is queued  *)
(* in the outbox, answers the controls and ends; the next call makes       *)
(* another.  There is one writer, unless the journal forgets it: a flush   *)
(* that finds nothing to wait for drops the reference to the writer, which *)
(* may by then be another one than it has looked at.  The forgotten writer *)
(* lives on beside the next.                                               *)
(*                                                                         *)
(* A step is what runs between two awaits, or a transaction in a thread.   *)
(* Left out: what is read, pruning, append(), which stores its event       *)
(* itself (it does make a writer), the counters of retries, a second       *)
(* cancellation, and that close() raises when its last wait is for a       *)
(* writer that is cancelled.                                               *)
(***************************************************************************)
EXTENDS Naturals, Sequences, FiniteSets

CONSTANTS
    Records,      \* outcomes of capabilities
    Readers,      \* calls that flush: recent, agent_trace, prune
    Closer, Stop, \* close(): its flush, and then the control that ends the writer
    Writers,      \* tasks of writers that live at the same time: a name is used again
    NoTask, Done, \* no task; a task that has ended
    BatchMax, QueueMax, OverflowMax, OutboxMax,
    MaxFaults   \* bound: failing transactions and cancellations

ASSUME AuditAssumption ==
    /\ BatchMax \in Nat /\ MaxFaults \in Nat
    /\ {Closer, Stop} \intersect Readers = {} /\ Closer # Stop
    /\ Records \intersect (Readers \union {Closer, Stop}) = {}
    /\ Writers \intersect (Readers \union {Closer, Stop}) = {}
    /\ {NoTask, Done} \intersect Writers = {} /\ NoTask # Done

VARIABLES
    events,    \* the rows of events.sqlite3
    outbox,    \* the rows of audit_outbox.sqlite3
    turns,     \* _outbox_lock: the calls and the writers, in the order they asked
    queue,     \* _audit_queue: records and controls
    overflow,  \* _overflow_tasks: records on their way into the outbox
    closed,    \* _closed
    task,      \* _audit_writer_task
    at,        \* what each writer does; "absent" if there is none of that name
    rescuing,  \* whether it is in _recover_failed_audit_writer
    batch,     \* records it has taken from the queue
    rows,      \* rows of the outbox it replays
    held,      \* the control it has taken; in the recovery, the controls
    durable,   \* whether the recovery has saved everything so far
    place,     \* where each call is
    awaits,    \* the overflow tasks a call waits for
    seen,      \* the task that a call has read from _audit_writer_task
    reply,     \* the future of a call's control
    accepted,  \* history: records taken from their capability
    lost,      \* history: records counted in _lost_event_count
    promised,  \* history: records accepted before a call began
    orphaned,  \* history: controls nobody will answer
    misled,    \* history: calls which the journal has hidden a writer from
    faults     \* counted for the bound

stores == <<events, outbox>>
hands == <<rescuing, batch, rows, held, durable>>
calls == <<place, awaits, seen, reply, promised>>
past == <<accepted, lost, orphaned, misled, faults>>
auditVars == <<stores, turns, queue, overflow, closed, task, at, hands, calls, past>>

Controls == Readers \union {Closer, Stop}

AuditInit ==
    /\ events = {} /\ outbox = {} /\ turns = <<>>
    /\ queue = <<>> /\ overflow = {} /\ closed = FALSE
    /\ task = NoTask /\ at = [w \in Writers |-> "absent"]
    /\ rescuing = [w \in Writers |-> FALSE] /\ durable = [w \in Writers |-> TRUE]
    /\ batch = [w \in Writers |-> {}] /\ rows = [w \in Writers |-> {}]
    /\ held = [w \in Writers |-> {}]
    /\ place = [c \in Controls |-> "idle"]
    /\ awaits = [c \in Controls |-> {}]
    /\ seen = [c \in Controls |-> NoTask]
    /\ reply = [c \in Controls |-> "none"]
    /\ promised = [c \in Controls |-> {}]
    /\ accepted = {} /\ lost = {} /\ orphaned = {} /\ misled = {}
    /\ faults = 0

-------------------------------------------------------------------------------
Moves(c, there) == place' = [place EXCEPT ![c] = there]

Room == Len(queue) < QueueMax

Turn(who) == turns # <<>> /\ Head(turns) = who

Lives(w) == at[w] # "absent"

\* A task that has none of the names in use.
NewTask == CHOOSE w \in Writers : ~Lives(w)

\* _ensure_audit_writer: the new task asks for the lock behind those who wait.
EnsureWriter(waiting) ==
    IF task \in Writers
    THEN turns' = waiting /\ UNCHANGED <<task, at>>
    ELSE /\ \E w \in Writers : ~Lives(w)
         /\ task' = NewTask
         /\ at' = [at EXCEPT ![NewTask] = "select"]
         /\ turns' = Append(waiting, NewTask)

UnderWay == {c \in Controls : place[c] \notin {"idle", "returned", "raised"}}

\* The calls that have found no writer, or one that has ended since: they take whichever
\* is made by now for none.
Unaware == {c \in Controls : place[c] = "count" /\ seen[c] \notin Writers}

\* The calls that begin, or are under way, while a writer lives that _audit_writer_task
\* does not name.
Misleads(begun) ==
    misled' = misled \union
        (IF \E w \in Writers \ {task'} : Lives(w)' THEN begun \union UnderWay' ELSE {})

Fails == faults < MaxFaults /\ faults' = faults + 1

\* _outbox_put, all or nothing: the outbox has a limit.
Saves(records) ==
    /\ Cardinality(outbox \union records) <= OutboxMax
    /\ outbox' = outbox \union records
    /\ UNCHANGED <<lost, faults>>

Loses(records) ==
    /\ \/ Cardinality(outbox \union records) > OutboxMax /\ UNCHANGED faults
       \/ Fails
    /\ lost' = lost \union records
    /\ UNCHANGED outbox

-------------------------------------------------------------------------------
(* Records                                                                 *)

\* record_invocation: into the queue, or to the outbox when the queue is full, by
\* one of a bounded number of tasks.
Record(r) ==
    /\ ~closed /\ r \notin accepted
    /\ accepted' = accepted \union {r}
    /\ EnsureWriter(turns)
    /\ IF Room
       THEN queue' = Append(queue, r) /\ UNCHANGED <<overflow, lost>>
       ELSE /\ UNCHANGED queue
            /\ IF Cardinality(overflow) < OverflowMax
               THEN overflow' = overflow \union {r} /\ UNCHANGED lost
               ELSE lost' = lost \union {r} /\ UNCHANGED overflow
    /\ UNCHANGED <<stores, closed, hands, calls, orphaned, misled, faults>>

SpoolOverflow(r) ==
    /\ r \in overflow
    /\ overflow' = overflow \ {r}
    /\ Saves({r}) \/ Loses({r})
    /\ UNCHANGED <<events, turns, queue, closed, task, at, hands, calls, accepted, orphaned,
                   misled>>

\* append() makes a writer, if there is none.
AppendEvent ==
    /\ ~closed /\ task \notin Writers
    /\ EnsureWriter(turns)
    /\ UNCHANGED <<stores, queue, overflow, closed, hands, calls, past>>

-------------------------------------------------------------------------------
(* Controls that flush                                                        *)

Begin(c) ==
    /\ place[c] = "idle"
    /\ \/ c \in Readers /\ UNCHANGED closed
       \/ c = Closer /\ ~closed /\ closed' = TRUE
    /\ Moves(c, "overflow")
    /\ awaits' = [awaits EXCEPT ![c] = overflow]
    /\ promised' = [promised EXCEPT ![c] = accepted]
    /\ UNCHANGED <<stores, turns, queue, overflow, task, at, hands, seen, reply, accepted,
                   lost, orphaned, faults>>
    /\ Misleads({c})

Sees(c, t) == seen' = [seen EXCEPT ![c] = t]

\* The overflow tasks it saw are done: the call looks for the writer, and asks for
\* the lock.
Look(c) ==
    /\ place[c] = "overflow" /\ awaits[c] \intersect overflow = {}
    /\ awaits' = [awaits EXCEPT ![c] = {}]
    /\ Sees(c, task)
    /\ turns' = Append(turns, c)
    /\ Moves(c, "count")
    /\ UNCHANGED <<stores, queue, overflow, closed, task, at, hands, reply, promised, past>>

\* A mistake to rule out: what a writer has in hand is forgotten.
NothingQueued(c) == queue = <<>> /\ outbox = {}

\* Nothing is queued or spooled, and the writer it has seen has nothing in hand.
NothingPending(c) == queue = <<>> /\ outbox = {} /\ seen[c] \notin Writers

\* The control goes into the queue, and the call watches the writer; or it waits until
\* there is room.
PutControl(c) ==
    IF Room
    THEN queue' = Append(queue, c) /\ Moves(c, "wait") /\ Sees(c, task')
    ELSE UNCHANGED queue /\ Moves(c, "put") /\ Sees(c, NoTask)

\* With the lock it counts the outbox, and goes on when it gives the lock back.  If it
\* has seen a writer that has ended, it drops the reference to whichever there is.
Decide(c) ==
    /\ place[c] = "count" /\ Turn(c)
    /\ UNCHANGED <<stores, overflow, closed, hands, awaits, reply, promised, accepted, lost,
                   orphaned>>
    /\ \/ /\ NothingPending(c)
          /\ Moves(c, "returned") /\ Sees(c, NoTask) /\ turns' = Tail(turns)
          /\ task' = IF seen[c] = Done THEN NoTask ELSE task
          /\ UNCHANGED <<at, queue, faults>>
          /\ Misleads({})
       \/ /\ ~NothingPending(c)
          /\ EnsureWriter(Tail(turns)) /\ PutControl(c)
          /\ UNCHANGED <<misled, faults>>
       \/ /\ Fails
          /\ Moves(c, "raised") /\ Sees(c, NoTask) /\ turns' = Tail(turns)
          /\ UNCHANGED <<task, at, queue, misled>>

\* After its flush, close() ends the writer, if there is one.
BeginStop ==
    /\ place[Closer] = "returned" /\ place[Stop] = "idle"
    /\ IF task \in Writers
       THEN UNCHANGED task /\ PutControl(Stop)
       ELSE task' = NoTask /\ Moves(Stop, "returned") /\ UNCHANGED <<queue, seen>>
    /\ promised' = [promised EXCEPT ![Stop] = accepted]
    /\ UNCHANGED <<stores, turns, overflow, closed, at, hands, awaits, reply, accepted, lost,
                   orphaned, faults>>
    /\ Misleads({Stop})

Put(c) ==
    /\ place[c] = "put" /\ Room
    /\ EnsureWriter(turns) /\ PutControl(c)
    /\ UNCHANGED <<stores, overflow, closed, hands, awaits, reply, promised, past>>

\* close() waits in the end for the task that _audit_writer_task names by then.
Answered(c) ==
    /\ place[c] = "wait" /\ reply[c] # "none"
    /\ IF c = Stop /\ reply[c] = "done" /\ task \in Writers
       THEN Moves(c, "last") /\ Sees(c, task) /\ UNCHANGED task
       ELSE /\ Moves(c, IF reply[c] = "done" THEN "returned" ELSE "raised")
            /\ Sees(c, NoTask)
            /\ task' = IF c = Stop /\ reply[c] = "done" THEN NoTask ELSE task
    /\ UNCHANGED <<stores, turns, queue, overflow, closed, at, hands, awaits, reply, promised,
                   past>>

\* A mistake to rule out: only the reply is awaited.
Unwatched(c) == FALSE

WriterGone(c) == seen[c] = Done

\* The writer that the call watches has ended: another one is made for what is queued,
\* or the control is lost.
WatchWriter(c) ==
    /\ place[c] = "wait" /\ reply[c] = "none" /\ WriterGone(c)
    /\ IF task \notin Writers /\ queue = <<>>
       THEN task' = NoTask /\ Moves(c, "raised") /\ Sees(c, NoTask) /\ UNCHANGED <<at, turns>>
       ELSE EnsureWriter(turns) /\ Sees(c, task') /\ UNCHANGED place
    /\ UNCHANGED <<stores, queue, overflow, closed, hands, awaits, reply, promised, past>>

\* The end of close(), which drops the reference to whichever writer there is.
LastWait ==
    /\ place[Stop] = "last" /\ seen[Stop] \notin Writers
    /\ task' = NoTask
    /\ Moves(Stop, "returned") /\ Sees(Stop, NoTask)
    /\ UNCHANGED <<stores, turns, queue, overflow, closed, at, hands, awaits, reply, promised,
                   accepted, lost, orphaned, faults>>
    /\ Misleads({})

CallStep(c) ==
    Look(c) \/ Decide(c) \/ Put(c) \/ Answered(c) \/ WatchWriter(c)

-------------------------------------------------------------------------------
(* The writer                                                              *)

\* How many items at the head of q are of a kind.
Leading(q, kind) ==
    CHOOSE n \in 0 .. Len(q) :
        /\ \A i \in 1 .. n : q[i] \in kind
        /\ n < Len(q) => q[n + 1] \notin kind

\* What is taken at once: a batch of records and, behind one that is not full, the
\* control there.  The taking ends early when the queue is empty.
Taken(q) ==
    LET most == Leading(q, Records)
        n == IF most < BatchMax THEN most ELSE BatchMax
        more == n < BatchMax /\ n < Len(q)
    IN  [run |-> {q[i] : i \in 1 .. n},
         behind |-> IF more THEN {q[n + 1]} ELSE {},
         rest |-> SubSeq(q, IF more THEN n + 2 ELSE n + 1, Len(q)),
         emptied |-> n < BatchMax /\ ~more]

Locking == {"select", "delete", "spool", "save", "saveLast"}

\* The line of the lock without the writer w, which is at most once in it.
WithoutWriter(w, line) ==
    IF \E i \in DOMAIN line : line[i] = w
    THEN LET its == CHOOSE i \in DOMAIN line : line[i] = w
         IN  [i \in 1 .. Len(line) - 1 |-> line[IF i < its THEN i ELSE i + 1]]
    ELSE line

\* The writer gives the lock back, or asks for it.
TakesTurns(w) ==
    LET others == WithoutWriter(w, turns) IN
    turns' = IF at'[w] \notin Locking THEN others
             ELSE IF at[w] \in Locking THEN Append(others, w) ELSE Append(turns, w)

Becomes(w, there) == at' = [at EXCEPT ![w] = there]

Tells(controls, what) ==
    reply' = [c \in Controls |-> IF c \in controls THEN what ELSE reply[c]]

\* Whoever holds the task that ends holds one that is done.
EndsWriter(w) ==
    /\ Becomes(w, "absent")
    /\ rescuing' = [rescuing EXCEPT ![w] = FALSE]
    /\ durable' = [durable EXCEPT ![w] = TRUE]
    /\ held' = [held EXCEPT ![w] = {}]
    /\ task' = IF task = w THEN Done ELSE task
    /\ seen' = [c \in Controls |-> IF seen[c] = w THEN Done ELSE seen[c]]

unchangedCalls == <<place, awaits, promised>>

Get(w) ==
    /\ at[w] = "get" /\ queue # <<>>
    /\ batch' = [batch EXCEPT ![w] = Taken(queue).run]
    /\ held' = [held EXCEPT ![w] = Taken(queue).behind]
    /\ queue' = Taken(queue).rest
    /\ Becomes(w, IF Taken(queue).run = {} THEN "select" ELSE "write")
    /\ TakesTurns(w)
    /\ UNCHANGED <<stores, overflow, closed, task, rescuing, rows, durable, calls, past>>

\* Three attempts may fail, of which one may have stored the batch all the same.
Write(w) ==
    /\ at[w] = "write"
    /\ \/ /\ events' = events \union batch[w]
          /\ batch' = [batch EXCEPT ![w] = {}] /\ Becomes(w, "select")
          /\ UNCHANGED faults
       \/ /\ events' \in {events, events \union batch[w]} /\ Fails
          /\ Becomes(w, "spool") /\ UNCHANGED batch
    /\ TakesTurns(w)
    /\ UNCHANGED <<outbox, queue, overflow, closed, task, rescuing, rows, held, durable, calls,
                   accepted, lost, orphaned, misled>>

Spool(w) ==
    /\ at[w] = "spool" /\ Turn(w)
    /\ Saves(batch[w]) \/ Loses(batch[w])
    /\ batch' = [batch EXCEPT ![w] = {}] /\ Becomes(w, "select")
    /\ TakesTurns(w)
    /\ UNCHANGED <<events, queue, overflow, closed, task, rescuing, rows, held, durable, calls,
                   accepted, orphaned, misled>>

\* What follows a replay: the controls are answered, and the writer goes on unless
\* it recovers or is to stop.
ReplayEnds(w) ==
    /\ Tells(held[w], "done")
    /\ IF rescuing[w] \/ Stop \in held[w]
       THEN EndsWriter(w)
       ELSE /\ Becomes(w, "get") /\ held' = [held EXCEPT ![w] = {}]
            /\ UNCHANGED <<task, rescuing, durable, seen>>
    /\ rows' = [rows EXCEPT ![w] = {}]

ReplayGoesOn(w, there) ==
    Becomes(w, there) /\ UNCHANGED <<task, rescuing, held, durable, seen, reply>>

\* _outbox_select: the rows that have waited longest, in any order here.
Select(w) ==
    /\ at[w] = "select" /\ Turn(w)
    /\ \/ outbox = {} /\ ReplayEnds(w)
       \/ /\ \E some \in SUBSET outbox \ {{}} :
                /\ Cardinality(some) = BatchMax \/ (some = outbox /\ Cardinality(some) < BatchMax)
                /\ rows' = [rows EXCEPT ![w] = some]
          /\ ReplayGoesOn(w, "insert")
    /\ TakesTurns(w)
    /\ UNCHANGED <<stores, queue, overflow, closed, batch, unchangedCalls, past>>

Insert(w) ==
    /\ at[w] = "insert"
    /\ \/ /\ events' = events \union rows[w] /\ ReplayGoesOn(w, "delete")
          /\ UNCHANGED <<rows, faults>>
       \/ events' \in {events, events \union rows[w]} /\ Fails /\ ReplayEnds(w)
    /\ TakesTurns(w)
    /\ UNCHANGED <<outbox, queue, overflow, closed, batch, unchangedCalls, accepted,
                   lost, orphaned, misled>>

\* With nobody to reply, a replay ends after four batches.
DeleteRows(w) ==
    /\ at[w] = "delete" /\ Turn(w)
    /\ \/ /\ outbox' = outbox \ rows[w]
          /\ \/ rows' = [rows EXCEPT ![w] = {}] /\ ReplayGoesOn(w, "select")
             \/ ~rescuing[w] /\ held[w] = {} /\ ReplayEnds(w)
          /\ UNCHANGED faults
       \/ outbox' \in {outbox, outbox \ rows[w]} /\ Fails /\ ReplayEnds(w)
    /\ TakesTurns(w)
    /\ UNCHANGED <<events, queue, overflow, closed, batch, unchangedCalls, accepted,
                   lost, orphaned, misled>>

-------------------------------------------------------------------------------
(* The end of a writer that fails                                          *)

\* The recovery of w goes on with these controls.
Rescuing(w, there, controls, saved) ==
    /\ Becomes(w, there)
    /\ rescuing' = [rescuing EXCEPT ![w] = TRUE]
    /\ held' = [held EXCEPT ![w] = controls]
    /\ durable' = [durable EXCEPT ![w] = saved]
    /\ UNCHANGED <<task, seen, reply>>

\* Nothing is left to save: the outbox is replayed before the controls are answered,
\* unless something was lost.
Drained(w, controls, saved) ==
    /\ batch' = [batch EXCEPT ![w] = {}]
    /\ IF saved
       THEN Rescuing(w, "select", controls, TRUE)
       ELSE EndsWriter(w) /\ Tells(controls, "failed")

\* The queue is emptied up to the next batch to save.
Drains(w, controls, saved) ==
    LET n == Leading(queue, Controls)
        next == Taken(SubSeq(queue, n + 1, Len(queue)))
        all == controls \union {queue[i] : i \in 1 .. n} \union next.behind
    IN  /\ queue' = next.rest
        /\ IF next.run = {}
           THEN Drained(w, all, saved)
           ELSE /\ batch' = [batch EXCEPT ![w] = next.run]
                /\ Rescuing(w, IF next.emptied THEN "saveLast" ELSE "save", all, saved)

\* It begins with what the writer has in hand.
Rescues(w) ==
    IF batch[w] = {}
    THEN Drains(w, held[w], TRUE)
    ELSE Rescuing(w, "save", held[w], TRUE) /\ UNCHANGED <<batch, queue>>

Save(w) ==
    /\ at[w] \in {"save", "saveLast"} /\ Turn(w)
    /\ \E saved \in {durable[w], FALSE} :
         /\ (Saves(batch[w]) /\ saved = durable[w]) \/ (Loses(batch[w]) /\ saved = FALSE)
         /\ IF at[w] = "save"
            THEN Drains(w, held[w], saved)
            ELSE Drained(w, held[w], saved) /\ UNCHANGED queue
    /\ TakesTurns(w)
    /\ UNCHANGED <<events, overflow, closed, rows, unchangedCalls, accepted, orphaned, misled>>

\* The outbox cannot be read.  When this happens to the recovery, the controls it
\* holds are lost with it.
SelectFails(w) ==
    /\ at[w] = "select" /\ Turn(w) /\ Fails
    /\ IF rescuing[w]
       THEN /\ orphaned' = orphaned \union held[w]
            /\ EndsWriter(w) /\ UNCHANGED <<queue, batch, reply>>
       ELSE Rescues(w) /\ UNCHANGED orphaned
    /\ rows' = [rows EXCEPT ![w] = {}]
    /\ TakesTurns(w)
    /\ UNCHANGED <<stores, overflow, closed, unchangedCalls, accepted, lost, misled>>

\* The task of a writer is cancelled, and rescues what there is.  The transaction
\* of a thread it awaits still happens or fails; that it may happen later makes no
\* difference, as rows are stored once and only those replayed are deleted.  A flush
\* that has seen an older writer and is ahead of this one for the lock may find the
\* queue empty while the recovery has the records in hand.
Cancelled(w) ==
    /\ at[w] \in {"select", "insert", "delete", "get", "write", "spool"} /\ ~rescuing[w]
    /\ Fails
    /\ \/ UNCHANGED stores
       \/ at[w] = "write" /\ events' = events \union batch[w] /\ UNCHANGED outbox
       \/ at[w] = "insert" /\ events' = events \union rows[w] /\ UNCHANGED outbox
       \/ at[w] = "delete" /\ Turn(w) /\ outbox' = outbox \ rows[w] /\ UNCHANGED events
       \/ /\ at[w] = "spool" /\ Turn(w) /\ Cardinality(outbox \union batch[w]) <= OutboxMax
          /\ outbox' = outbox \union batch[w] /\ UNCHANGED events
    /\ IF batch[w] = {} /\ held[w] = {} /\ queue = <<>>
       THEN EndsWriter(w) /\ UNCHANGED <<queue, batch, reply>>
       ELSE Rescues(w)
    /\ misled' = misled \union Unaware
    /\ rows' = [rows EXCEPT ![w] = {}]
    /\ TakesTurns(w)
    /\ UNCHANGED <<overflow, closed, unchangedCalls, accepted, lost, orphaned>>

WriterStep(w) ==
    \/ Get(w) \/ Write(w) \/ Spool(w) \/ Select(w) \/ Insert(w) \/ DeleteRows(w)
    \/ Save(w) \/ SelectFails(w)

-------------------------------------------------------------------------------
AuditNext ==
    \/ \E r \in Records : Record(r) \/ SpoolOverflow(r)
    \/ AppendEvent \/ BeginStop \/ LastWait
    \/ \E w \in Writers : WriterStep(w) \/ Cancelled(w)
    \/ \E c \in Controls : Begin(c) \/ CallStep(c)

Progress ==
    \/ \E w \in Writers : WriterStep(w)
    \/ \E r \in Records : SpoolOverflow(r)
    \/ LastWait \/ \E c \in Controls : CallStep(c)

\* Tasks that are awake go on, and transactions come to an end.  Each has finitely many
\* steps, so that what is fair to all of them is fair to each.
AuditSpec == AuditInit /\ [][AuditNext]_auditVars /\ WF_auditVars(Progress)

-------------------------------------------------------------------------------
InHand == UNION {batch[w] : w \in Writers}
InMemory == {queue[i] : i \in DOMAIN queue} \union InHand \union overflow
Safe == events \union outbox \union lost

\* Whatever the writers, their recovery and a full queue do to a record, it is in
\* memory, stored, in the outbox or counted as lost; and what was accepted before a
\* flush is no longer in memory when a flush returns that was not misled: it was not
\* under way while a forgotten writer lived, nor did it take a writer that was
\* cancelled for none (journal.py:154-381).
Kept ==
    /\ accepted \subseteq InMemory \union Safe
    /\ \A c \in Controls \ misled : place[c] = "returned" => promised[c] \subseteq Safe

\* A flush ends, with or without an error, unless the recovery has lost its control,
\* the queue was full when it came and no writer is left, or close() waits in the end
\* for a writer that it has not stopped; and no record stays in memory while a writer
\* lives (journal.py:288-568).
AuditSettles ==
    <>[](/\ \A c \in Controls \ orphaned :
              \/ place[c] \in {"idle", "returned", "raised"}
              \/ place[c] = "put" /\ \A w \in Writers : ~Lives(w)
              \/ place[c] = "last" /\ seen[c] \in Writers
         /\ InMemory # {} => \A w \in Writers : ~Lives(w))

===============================================================================
