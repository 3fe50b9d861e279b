----------------------------- MODULE AutonomyQueue -----------------------------
(***************************************************************************)
(* The durable queue of autonomous-agent events (agent/autonomy.py).       *)
(*                                                                         *)
(* An event is a row of the table autonomy_events.  A claim fixes a batch  *)
(* of the rows of one channel, marks them with a fresh token and a lease,  *)
(* and hands them to a worker.  The worker renews the lease and in the end *)
(* acknowledges the batch, gives it up for a later retry, or dead-letters  *)
(* it; each of these succeeds only while every row of the batch carries    *)
(* the token under an unexpired lease.                                     *)
(*                                                                         *)
(* Every operation is one SQLite transaction (BEGIN IMMEDIATE ... COMMIT)  *)
(* and so one action.  A claim, once handed out, is never forgotten here:  *)
(* whoever holds one may use it at any later time, as a worker does that   *)
(* was suspended, cut off or overtaken.  A crash loses nothing the table   *)
(* holds, so it needs no action.                                           *)
(*                                                                         *)
(* The identity of a batch is a digest of the sequence numbers of its      *)
(* members; it is modelled by the set of these numbers.  NULL is 0 for     *)
(* times and tokens and {} for batches.                                    *)
(***************************************************************************)
EXTENDS Naturals, Sequences, FiniteSets, FiniteSetsExt

CONSTANTS
    Events,         \* deduplication keys of the source events
    Channels,       \* (workspace, channel) pairs
    Actors,         \* (workspace, human actor) pairs
    None,           \* the actor of an event whose kind is not limited per actor
    ChannelOf,      \* the channel of an event
    ActorOf,        \* the actor of an event, or None
    Debounce,       \* agent_autonomy_batch_seconds
    CandidateLimit, \* agent_autonomy_candidate_limit
    Lease,          \* lease_seconds
    Delays,         \* retry_after_seconds, clamped to at least 1
    Retention,      \* _PROCESSED_EVENT_RETENTION
    MaxPending,     \* max_pending_events
    MaxPerChannel,  \* max_pending_events_per_channel
    MaxPerActor,    \* max_pending_events_per_actor
    MaxTime,        \* bound: the clock stops there
    MaxClaims       \* bound: how many claims are handed out

ASSUME QueueAssumption ==
    /\ ChannelOf \in [Events -> Channels]
    /\ ActorOf \in [Events -> Actors \union {None}]
    /\ None \notin Actors
    /\ {Debounce, Retention, MaxTime, MaxClaims} \subseteq Nat
    /\ {CandidateLimit, Lease, MaxPending, MaxPerChannel, MaxPerActor} \subseteq Nat \ {0}
    /\ Delays \subseteq Nat \ {0}

VARIABLES
    now,      \* datetime.now(UTC)
    sequence, \* the last value of the AUTOINCREMENT column
    rows,     \* the table: sequence number -> row
    claims    \* the claims handed out; a token is an index into it

vars == <<now, sequence, rows, claims>>

Row ==
    [event      : Events,
     enqueuedAt : Nat,
     notBefore  : Nat,
     failures   : Nat,
     deferrals  : Nat,
     batch      : SUBSET Nat,
     token      : Nat,
     leaseUntil : Nat,
     status     : {"live", "processed", "dead_lettered"},
     endedAt    : Nat]

Claim == [batch : SUBSET Nat, members : SUBSET Nat]

Live(table) == {s \in DOMAIN table : table[s].status = "live"}

Channel(table, s) == ChannelOf[table[s].event]

Actor(table, s) == ActorOf[table[s].event]

OfChannel(table, c) == {s \in Live(table) : Channel(table, s) = c}

OfActor(table, a) == {s \in Live(table) : Actor(table, s) = a}

TypeOK ==
    /\ now \in Nat
    /\ sequence \in Nat
    /\ DOMAIN rows \subseteq 1 .. sequence
    /\ \A s \in DOMAIN rows : rows[s] \in Row
    /\ claims \in Seq(Claim)
    /\ Cardinality(Live(rows)) <= MaxPending
    /\ \A c \in Channels : Cardinality(OfChannel(rows, c)) <= MaxPerChannel
    /\ \A a \in Actors : Cardinality(OfActor(rows, a)) <= MaxPerActor

Init ==
    /\ now = 0
    /\ sequence = 0
    /\ rows = [s \in {} |-> 0]
    /\ claims = <<>>

\* The table with the rows of a set changed.
Updated(table, chosen, Change(_)) ==
    [s \in DOMAIN table |-> IF s \in chosen THEN Change(table[s]) ELSE table[s]]

-------------------------------------------------------------------------------
(* enqueue                                                                 *)

\* Rows that ended longer ago than the retention time are deleted.
Retained(table) ==
    [s \in {u \in DOMAIN table :
                table[u].status = "live" \/ table[u].endedAt + Retention >= now}
        |-> table[s]]

\* No duplicate, and no limit reached: of the queue, the actor, the channel.
Admitted(table, e) ==
    /\ \A s \in DOMAIN table : table[s].event # e
    /\ Cardinality(Live(table)) < MaxPending
    /\ ActorOf[e] # None => Cardinality(OfActor(table, ActorOf[e])) < MaxPerActor
    /\ Cardinality(OfChannel(table, ChannelOf[e])) < MaxPerChannel

NewRow(e) ==
    [event |-> e, enqueuedAt |-> now, notBefore |-> now, failures |-> 0, deferrals |-> 0,
     batch |-> {}, token |-> 0, leaseUntil |-> 0, status |-> "live", endedAt |-> 0]

\* A refused event rolls everything back, the deletion of old rows included.
Enqueue(e) ==
    LET kept == Retained(rows)
    IN  /\ Admitted(kept, e)
        /\ sequence' = sequence + 1
        /\ rows' = [s \in DOMAIN kept \union {sequence + 1} |->
                        IF s \in DOMAIN kept THEN kept[s] ELSE NewRow(e)]
        /\ UNCHANGED <<now, claims>>

\* A new process opens the database: old rows are deleted.
Initialize ==
    /\ rows' = Retained(rows)
    /\ UNCHANGED <<now, sequence, claims>>

-------------------------------------------------------------------------------
(* next_batch                                                              *)

Lapsed(row) == row.status = "live" /\ row.token # 0 /\ row.leaseUntil <= now

WithoutClaim(row) == [row EXCEPT !.token = 0, !.leaseUntil = 0]

\* Claims that lapsed are taken off the rows.
Unclaimed(table) ==
    Updated(table, {s \in DOMAIN table : Lapsed(table[s])}, WithoutClaim)

Members(table, batch) == {s \in Live(table) : table[s].batch = batch}

Batches(table) == {table[s].batch : s \in Live(table)} \ {{}}

\* Fixed batches that wait for their retry, and whose time has come.
RetryBatches(table) ==
    {b \in Batches(table) :
        \A s \in Members(table, b) : table[s].token = 0 /\ table[s].notBefore <= now}

Blocked(table) == {Channel(table, s) : s \in {u \in Live(table) : table[u].batch # {}}}

Waiting(table, c) ==
    {s \in Live(table) :
        /\ table[s].batch = {} /\ table[s].token = 0
        /\ Channel(table, s) = c}

Deadline(table, c) == table[Min(Waiting(table, c))].enqueuedAt + Debounce

RipeChannels(table) ==
    {c \in Channels \ Blocked(table) :
        Waiting(table, c) # {} /\ Deadline(table, c) <= now}

Window(table, c) ==
    {s \in Waiting(table, c) : table[s].enqueuedAt <= Deadline(table, c)}

\* A mistake to rule out: the latest instead of the oldest candidates.
CandidatesLatest(table, c) ==
    {s \in Window(table, c) :
        Cardinality({u \in Window(table, c) : u > s}) < CandidateLimit}

\* The oldest events of the window, up to the limit.
Candidates(table, c) ==
    {s \in Window(table, c) :
        Cardinality({u \in Window(table, c) : u < s}) < CandidateLimit}

\* The set whose first event is the oldest.
Earliest(sets) == CHOOSE x \in sets : \A y \in sets : Min(x) <= Min(y)

\* A batch to retry comes first, then the ripe channel with the oldest event.
Selected(table) ==
    IF RetryBatches(table) # {}
    THEN Earliest({Members(table, b) : b \in RetryBatches(table)})
    ELSE IF RipeChannels(table) # {}
         THEN Earliest({Candidates(table, c) : c \in RipeChannels(table)})
         ELSE {}

\* Nothing to hand out: the lapsed claims are committed all the same.
NoBatch ==
    /\ Selected(Unclaimed(rows)) = {}
    /\ rows' = Unclaimed(rows)
    /\ UNCHANGED <<now, sequence, claims>>

BatchId(table, chosen) ==
    IF table[Min(chosen)].batch # {} THEN table[Min(chosen)].batch ELSE chosen

NextBatch ==
    LET table  == Unclaimed(rows)
        chosen == Selected(table)
        Taken(row) == [row EXCEPT !.batch = BatchId(table, chosen),
                                  !.token = Len(claims) + 1,
                                  !.leaseUntil = now + Lease]
    IN  /\ Len(claims) < MaxClaims
        /\ chosen # {}
        /\ rows' = Updated(table, chosen, Taken)
        /\ claims' = Append(claims, [batch |-> BatchId(table, chosen), members |-> chosen])
        /\ UNCHANGED <<now, sequence>>

-------------------------------------------------------------------------------
(* What a worker does with the claim t.                                    *)

\* A mistake to rule out: a batch is recognised by its rows alone.
BatchOwnedByAnyone(t) ==
    /\ Members(rows, claims[t].batch) = claims[t].members
    /\ \A s \in claims[t].members : rows[s].leaseUntil > now

\* Every live row of the batch, and each of the members, is under the claim.
BatchOwned(t) ==
    /\ Cardinality(Members(rows, claims[t].batch)) = Cardinality(claims[t].members)
    /\ \A s \in claims[t].members :
          /\ s \in Members(rows, claims[t].batch)
          /\ rows[s].token = t
          /\ rows[s].leaseUntil > now

Settle(t, Change(_)) ==
    /\ BatchOwned(t)
    /\ rows' = Updated(rows, claims[t].members, Change)
    /\ UNCHANGED <<now, sequence, claims>>

RenewLease(t) ==
    LET Renewed(row) == [row EXCEPT !.leaseUntil = now + Lease]
    IN  Settle(t, Renewed)

MarkProcessed(t) ==
    LET Done(row) ==
          [WithoutClaim(row) EXCEPT !.status = "processed", !.endedAt = now]
    IN  Settle(t, Done)

\* A failed attempt is counted, a deferral is counted apart.
Reschedule(t, delay, failed) ==
    LET Again(row) ==
          [WithoutClaim(row) EXCEPT
              !.notBefore = now + delay,
              !.failures  = IF failed THEN @ + 1 ELSE @,
              !.deferrals = IF failed THEN @ ELSE @ + 1]
    IN  Settle(t, Again)

DeadLetter(t) ==
    LET Dead(row) ==
          [WithoutClaim(row) EXCEPT
              !.status = "dead_lettered", !.endedAt = now, !.failures = @ + 1]
    IN  Settle(t, Dead)

-------------------------------------------------------------------------------
Tick ==
    /\ now < MaxTime
    /\ now' = now + 1
    /\ UNCHANGED <<sequence, rows, claims>>

Next ==
    \/ \E e \in Events : Enqueue(e)
    \/ Initialize
    \/ NoBatch
    \/ NextBatch
    \/ \E t \in DOMAIN claims :
          \/ RenewLease(t)
          \/ MarkProcessed(t)
          \/ \E delay \in Delays, failed \in BOOLEAN : Reschedule(t, delay, failed)
          \/ DeadLetter(t)
    \/ Tick

Spec == Init /\ [][Next]_vars

-------------------------------------------------------------------------------
(* seconds_until_ready                                                     *)

\* A mistake to rule out: the timer looks at the rows of a blocked channel.
ReadyTimesUnblocked(table) ==
    {table[Min(Waiting(table, c))].enqueuedAt + Debounce :
        c \in {d \in Channels : Waiting(table, d) # {}}}

\* When each batch, and each channel without one, has something to hand out.
ReadyTimes(table) ==
    {Max({IF \E u \in Members(table, b) : table[u].token # 0
          THEN table[s].leaseUntil
          ELSE table[s].notBefore : s \in Members(table, b)}) : b \in Batches(table)}
    \union
    {table[Min(Waiting(table, c))].enqueuedAt + Debounce :
        c \in {d \in Channels \ Blocked(table) : Waiting(table, d) # {}}}

-------------------------------------------------------------------------------
(* Properties                                                              *)

\* The rows of a batch have one fate: whatever fails, whoever claims them
\* again and whatever arrives meanwhile, the batch has the members it was
\* formed with and they are claimed, retried and settled together
\* (autonomy.py:910-925, 1463-1504).
BatchIsUnit ==
    \A s \in DOMAIN rows : rows[s].batch # {} =>
        /\ s \in rows[s].batch
        /\ \A u \in rows[s].batch \intersect DOMAIN rows :
              [rows[u] EXCEPT !.event = rows[s].event, !.enqueuedAt = rows[s].enqueuedAt,
                              !.notBefore = rows[s].notBefore] = rows[s]

\* The claim of a batch that was claimed again later is void for ever, even
\* if its worker comes back before the new one is done.
StaleClaimVoid ==
    \A t, u \in DOMAIN claims :
        t < u /\ claims[t].members \intersect claims[u].members # {} => ~BatchOwned(t)

\* Nobody takes a batch from a worker whose lease runs: a claim that is good
\* stays good until its own worker settles the batch or time passes.
LeaseRespected ==
    [][\A t \in DOMAIN claims :
          BatchOwned(t) /\ now' = now /\ ~BatchOwned(t)'
              => \A s \in claims[t].members : rows'[s].token = 0]_vars

\* The timer of the consumer and the claim agree: the timer is due exactly
\* when a claim would hand something out.  Were it late, ready events would be
\* slept over; were it early, the consumer would spin.
TimerAgreesWithClaim ==
    (Selected(Unclaimed(rows)) # {}) <=> (\E r \in ReadyTimes(rows) : r <= now)

\* The queue implements the backlog: first in, first out in each channel.
Unsettled == [c \in Channels |-> OfChannel(rows, c)]

Backlog == INSTANCE AutonomyBacklog WITH accepted <- sequence, backlog <- Unsettled

ImplementsBacklog == Backlog!Spec

===============================================================================
