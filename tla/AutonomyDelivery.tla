---------------------------- MODULE AutonomyDelivery ----------------------------
(***************************************************************************)
(* How one batch of autonomous-agent events becomes a reply on Discord:    *)
(* AgentAutonomyCog._consume_batch, _inspect and _deliver_response with    *)
(* the delivery rows of AutonomyEventQueue.                                *)
(*                                                                         *)
(* A consumer claims the batch, asks the agent, writes a plan of one row   *)
(* per chunk of the answer, finds out which chunks Discord has already,    *)
(* posts the others and saves the id of each message, records a receipt    *)
(* for all of them, and acknowledges the batch.  It may fail, crash or     *)
(* lose its lease between any two of these, and the next claim goes on     *)
(* from the rows and from Discord's history.  The claims are those of      *)
(* AutonomyQueue, seen by one batch: owner is the consumer whose token the *)
(* rows carry, leased tells whether its lease runs.                        *)
(*                                                                         *)
(* Consumers are processes on one database; a consumer that crashed starts *)
(* again.  Discord is external: a request lands any time later, even after *)
(* its sender is gone, and more than once when the client repeats it; a    *)
(* nonce that Discord remembers yields the message it had made before.     *)
(* Assumed: Discord remembers a nonce as long as a request with it is on   *)
(* its way and a delivery is being made, and its history shows the nonce.  *)
(***************************************************************************)
EXTENDS Naturals, FiniteSets, FiniteSetsExt

CONSTANTS
    Consumers,   \* the consumer processes
    None,        \* nobody
    N,           \* how many chunks the answer has
    MaxFailures, \* attempt_count at which a failure becomes a dead letter (7)
    MaxTrouble   \* bound: crashes, deferrals and leases lost by a live owner

ASSUME DeliveryAssumption ==
    /\ None \notin Consumers
    /\ N \in Nat \ {0}
    /\ MaxFailures \in Nat
    /\ MaxTrouble \in Nat

Chunks == 1 .. N

VARIABLES
    status,     \* of the batch
    owner,      \* whose claim token the rows carry, or None
    leased,     \* lease_until > now
    due,        \* not_before <= now
    attempts,   \* attempt_count
    answer,     \* the stored answer of the agent: none yet, silent, or text
    planned,    \* the delivery rows exist
    saved,      \* message_id of each delivery row, 0: NULL
    receipted,  \* receipt_state of each delivery row
    ledger,     \* the receipts recorded for the batch, each for its message ids
    made,       \* how many messages Discord made for each chunk
    visible,    \* the messages of each chunk nobody deleted
    remembered, \* the nonces Discord remembers
    requests,   \* the posts on their way, with who waits for them
    work,       \* where each consumer is, and what it holds
    trouble

rowvars == <<status, owner, leased, due, attempts, planned, saved, receipted>>
discord == <<made, visible, remembered>>
vars == <<rowvars, answer, ledger, discord, requests, work, trouble>>

Delivering == {"reading", "sending", "waiting", "marking"}
Working == {"asking", "planning", "receipting", "noting"} \union Delivering
Verdicts == {"defer", "retry", "drop"}

Work ==
    [pc      : {"idle", "acking", "ending"} \union Working,
     chunk   : Chunks,
     ids     : [Chunks -> Nat],   \* the message of each chunk, as far as known
     known   : SUBSET Chunks,     \* the chunks whose record has a message id
     pending : SUBSET Chunks,     \* the chunks whose record has no receipt
     tries   : Nat,               \* batch.attempt_count
     verdict : Verdicts]

Idle ==
    [pc |-> "idle", chunk |-> 1, ids |-> [c \in Chunks |-> 0], known |-> {},
     pending |-> {}, tries |-> 0, verdict |-> "defer"]

TypeOK ==
    /\ status \in {"live", "processed", "dead_lettered"}
    /\ owner \in Consumers \union {None}
    /\ leased \in BOOLEAN /\ due \in BOOLEAN
    /\ attempts \in 0 .. MaxFailures + 1
    /\ answer \in {"none", "silent", "text"}
    /\ planned \in BOOLEAN
    /\ saved \in [Chunks -> Nat]
    /\ receipted \in [Chunks -> BOOLEAN]
    /\ ledger \subseteq [Chunks -> Nat]
    /\ made \in [Chunks -> Nat]
    /\ \A c \in Chunks : visible[c] \subseteq 1 .. made[c]
    /\ remembered \subseteq Chunks
    /\ requests \subseteq (Consumers \union {None}) \X Chunks
    /\ work \in [Consumers -> Work]
    /\ trouble \in 0 .. MaxTrouble

Init ==
    /\ status = "live"
    /\ owner = None
    /\ leased = FALSE
    /\ due = TRUE
    /\ attempts = 0
    /\ answer = "none"
    /\ planned = FALSE
    /\ saved = [c \in Chunks |-> 0]
    /\ receipted = [c \in Chunks |-> FALSE]
    /\ ledger = {}
    /\ made = [c \in Chunks |-> 0]
    /\ visible = [c \in Chunks |-> {}]
    /\ remembered = {}
    /\ requests = {}
    /\ work = [w \in Consumers |-> Idle]
    /\ trouble = 0

At(w, places) == work[w].pc \in places

Trouble == trouble < MaxTrouble /\ trouble' = trouble + 1

-------------------------------------------------------------------------------
(* The rows                                                                *)

Owned(w) == status = "live" /\ owner = w /\ leased

\* next_batch hands the batch out; a claim whose lease ended does not count.
NextBatch(w) ==
    /\ At(w, {"idle"})
    /\ status = "live" /\ due
    /\ owner = None \/ ~leased
    /\ owner' = w
    /\ leased' = TRUE
    /\ work' = [work EXCEPT ![w] = [Idle EXCEPT !.pc = "asking", !.tries = attempts]]
    /\ UNCHANGED <<status, due, attempts, planned, saved, receipted, answer, ledger,
                   discord, requests, trouble>>

\* The lease ends.  The heartbeat of a live owner prevents it, unless the
\* renewals fail for as long as the lease.
Expire ==
    /\ status = "live" /\ owner # None /\ leased
    /\ leased' = FALSE
    /\ IF At(owner, {"idle"}) THEN UNCHANGED trouble ELSE Trouble
    /\ UNCHANGED <<status, owner, due, attempts, planned, saved, receipted, answer,
                   ledger, discord, requests, work>>

\* The time of the next attempt comes.
FallDue ==
    /\ ~due
    /\ due' = TRUE
    /\ UNCHANGED <<status, owner, leased, attempts, planned, saved, receipted, answer,
                   ledger, discord, requests, work, trouble>>

\* The consumer stops working on the batch; its requests stay on their way.
Abandoned(w) ==
    {r \in requests : r[1] # w} \union {<<None, r[2]>> : r \in {q \in requests : q[1] = w}}

\* A step of w on the rows needs the claim; without it w gives the batch up.
OnRows(w, Change) ==
    \/ Owned(w) /\ Change
    \/ /\ ~Owned(w)
       /\ work' = [work EXCEPT ![w] = Idle]
       /\ UNCHANGED rowvars

-------------------------------------------------------------------------------
(* One attempt                                                             *)

\* agent.respond: the stored answer, or a turn of the model whose answer is
\* stored.  A silent answer needs no delivery.
Ask(w) ==
    /\ At(w, {"asking"})
    /\ IF answer = "none" THEN answer' \in {"silent", "text"} ELSE UNCHANGED answer
    /\ work' = [work EXCEPT ![w].pc = IF answer' = "silent" THEN "acking" ELSE "planning"]
    /\ UNCHANGED <<rowvars, ledger, discord, requests, trouble>>

\* prepare_deliveries: the rows as they are, new ones for what has none.
Plan(w) ==
    /\ At(w, {"planning"})
    /\ OnRows(w,
        /\ planned' = TRUE
        /\ work' = [work EXCEPT ![w].pc = "reading",
                                ![w].ids = saved,
                                ![w].known = {c \in Chunks : saved[c] # 0},
                                ![w].pending = {c \in Chunks : ~receipted[c]}]
        /\ UNCHANGED <<status, owner, leased, due, attempts, saved, receipted>>)
    /\ UNCHANGED <<answer, ledger, discord, requests, trouble>>

\* The rows are from a process that cut the answer into other chunks.
Conflict(w) ==
    /\ At(w, {"planning"}) /\ planned /\ Owned(w)
    /\ work' = [work EXCEPT ![w].pc = "ending", ![w].verdict = "drop"]
    /\ UNCHANGED <<rowvars, answer, ledger, discord, requests, trouble>>

\* A mistake to rule out: a message that was saved and deleted is missing.
MissingIfDeleted(w) ==
    {c \in Chunks : work[w].ids[c] \notin visible[c]}

\* The chunks without a saved id; a saved id is proof enough.
Missing(w) == Chunks \ work[w].known

\* A mistake to rule out: posting without a look at the history.
FoundNothing(w) == work[w].ids

\* What the history shows of the missing chunks.
Found(w) ==
    [c \in Chunks |->
        IF c \in Missing(w) /\ visible[c] # {} THEN Max(visible[c])
        ELSE IF c \in Missing(w) THEN 0
        ELSE work[w].ids[c]]

\* Saved messages are fetched and the history is searched for the others.
Reconcile(w) ==
    /\ At(w, {"reading"})
    /\ work' = [work EXCEPT ![w].pc = "sending", ![w].ids = Found(w),
                            ![w].known = Chunks \ Missing(w)]
    /\ UNCHANGED <<rowvars, answer, ledger, discord, requests, trouble>>

\* A mistake to rule out: the last chunk is left out.
AdvancedShort(state) ==
    IF state.chunk + 1 < N
    THEN [state EXCEPT !.chunk = @ + 1, !.pc = "sending"]
    ELSE [state EXCEPT !.pc = "receipting"]

\* What follows when w is through with its current chunk.
Advanced(state) ==
    IF state.chunk < N
    THEN [state EXCEPT !.chunk = @ + 1, !.pc = "sending"]
    ELSE [state EXCEPT !.pc = "receipting"]

\* The current chunk is known, was found, or is posted.
Send(w) ==
    LET c == work[w].chunk
    IN  /\ At(w, {"sending"})
        /\ \/ /\ c \in work[w].known
              /\ work' = [work EXCEPT ![w] = Advanced(@)]
              /\ UNCHANGED requests
           \/ /\ c \notin work[w].known /\ work[w].ids[c] # 0
              /\ work' = [work EXCEPT ![w].pc = "marking"]
              /\ UNCHANGED requests
           \/ /\ c \notin work[w].known /\ work[w].ids[c] = 0
              /\ requests' = requests \union {<<w, c>>}
              /\ work' = [work EXCEPT ![w].pc = "waiting"]
        /\ UNCHANGED <<rowvars, answer, ledger, discord, trouble>>

\* mark_delivery_sent: an id once saved never changes.
MarkSent(w) ==
    LET c == work[w].chunk
        id == work[w].ids[c]
    IN  /\ At(w, {"marking"})
        /\ OnRows(w,
            \/ /\ saved[c] \in {0, id}
               /\ saved' = [saved EXCEPT ![c] = id]
               /\ work' = [work EXCEPT ![w] =
                              Advanced([work[w] EXCEPT !.known = @ \union {c}])]
               /\ UNCHANGED <<status, owner, leased, due, attempts, planned, receipted>>
            \/ /\ saved[c] \notin {0, id}
               /\ work' = [work EXCEPT ![w].pc = "ending", ![w].verdict = "drop"]
               /\ UNCHANGED rowvars)
        /\ UNCHANGED <<answer, ledger, discord, requests, trouble>>

\* The messages a receipt names: all of the reply.
Receipted(w) == work[w].ids

\* A mistake to rule out: a receipt that cannot be recorded is forgotten.
ReceiptSkipped(w) ==
    /\ At(w, {"receipting"})
    /\ work' = [work EXCEPT ![w].pc = "acking"]
    /\ UNCHANGED <<rowvars, answer, ledger, discord, requests, trouble>>

\* One receipt for all messages, unless none of the records lacks its own.
Receipt(w) ==
    /\ At(w, {"receipting"})
    /\ IF work[w].pending = {}
       THEN /\ work' = [work EXCEPT ![w].pc = "acking"]
            /\ UNCHANGED ledger
       ELSE /\ ledger' = ledger \union {Receipted(w)}
            /\ work' = [work EXCEPT ![w].pc = "noting"]
    /\ UNCHANGED <<rowvars, answer, discord, requests, trouble>>

\* mark_delivery_receipted, one chunk after the other.
MarkReceipted(w) ==
    LET c == Min(work[w].pending)
        rest == work[w].pending \ {c}
    IN  /\ At(w, {"noting"})
        /\ OnRows(w,
            /\ receipted' = [receipted EXCEPT ![c] = TRUE]
            /\ work' = [work EXCEPT ![w].pending = rest,
                                    ![w].pc = IF rest = {} THEN "acking" ELSE @]
            /\ UNCHANGED <<status, owner, leased, due, attempts, planned, saved>>)
        /\ UNCHANGED <<answer, ledger, discord, requests, trouble>>

\* mark_processed.  An error of the database is retried without end.
Acknowledge(w) ==
    /\ At(w, {"acking"})
    /\ OnRows(w,
        /\ status' = "processed"
        /\ owner' = None
        /\ leased' = FALSE
        /\ work' = [work EXCEPT ![w] = Idle]
        /\ UNCHANGED <<due, attempts, planned, saved, receipted>>)
    /\ UNCHANGED <<answer, ledger, discord, requests, trouble>>

-------------------------------------------------------------------------------
(* What goes wrong                                                         *)

\* Any exception but those with a verdict of their own.
OnError(w) == IF work[w].tries >= MaxFailures THEN "drop" ELSE "retry"

Ends(w, verdict) ==
    /\ work' = [work EXCEPT ![w].pc = "ending", ![w].verdict = verdict]
    /\ requests' = Abandoned(w)
    /\ UNCHANGED <<rowvars, answer, ledger, discord>>

\* The agent, Discord or the database raise an error.
Fail(w) ==
    /\ At(w, Working \ {"receipting"})
    /\ Ends(w, OnError(w))
    /\ UNCHANGED trouble

\* The place to post in is gone, closed or forbidden.
Forbid(w) ==
    /\ At(w, {"asking", "planning", "reading", "sending", "waiting"})
    /\ Ends(w, "drop")
    /\ UNCHANGED trouble

\* The agent is busy or over its rate, or the receipt could not be recorded.
Postpone(w) ==
    /\ At(w, {"asking", "receipting"})
    /\ At(w, {"receipting"}) => work[w].pending # {}
    /\ Ends(w, "defer")
    /\ Trouble

\* A mistake to rule out: a failed attempt is not counted.
AttemptsUncounted(w) == attempts

AttemptsAfter(w) == IF work[w].verdict = "defer" THEN attempts ELSE attempts + 1

\* The verdict is written to the rows.
Settle(w) ==
    /\ At(w, {"ending"})
    /\ OnRows(w,
        /\ status' = IF work[w].verdict = "drop" THEN "dead_lettered" ELSE status
        /\ due' = (work[w].verdict = "drop")
        /\ attempts' = AttemptsAfter(w)
        /\ owner' = None
        /\ leased' = FALSE
        /\ work' = [work EXCEPT ![w] = Idle]
        /\ UNCHANGED <<planned, saved, receipted>>)
    /\ UNCHANGED <<answer, ledger, discord, requests, trouble>>

\* Writing the verdict fails, which leaves the claim to its lease.
SettleFails(w) ==
    /\ At(w, {"ending"})
    /\ work' = [work EXCEPT ![w] = Idle]
    /\ Trouble
    /\ UNCHANGED <<rowvars, answer, ledger, discord, requests>>

\* The heartbeat finds the lease lost and the work is cancelled.
Revoke(w) ==
    /\ At(w, Working \union {"acking"})
    /\ ~Owned(w)
    /\ requests' = Abandoned(w)
    /\ work' = [work EXCEPT ![w] = Idle]
    /\ UNCHANGED <<rowvars, answer, ledger, discord, trouble>>

\* The process dies and starts again.
Crash(w) ==
    /\ ~At(w, {"idle"})
    /\ requests' = Abandoned(w)
    /\ work' = [work EXCEPT ![w] = Idle]
    /\ Trouble
    /\ UNCHANGED <<rowvars, answer, ledger, discord>>

-------------------------------------------------------------------------------
(* Discord                                                                 *)

\* The call that posted a chunk returns the message, whose id is saved next.
PostReturned(state) == [state EXCEPT !.pc = "marking"]

\* A request lands: its message is made unless the nonce is remembered.  The
\* answer reaches who waits for it, or is lost; a request nobody waits for may
\* have been sent again by the client.
Land(w, c) ==
    /\ <<w, c>> \in requests
    /\ IF c \in remembered
       THEN UNCHANGED discord
       ELSE /\ made' = [made EXCEPT ![c] = @ + 1]
            /\ visible' = [visible EXCEPT ![c] = @ \union {made[c] + 1}]
            /\ remembered' = remembered \union {c}
    /\ \/ /\ w # None
          /\ requests' = requests \ {<<w, c>>}
          /\ work' = [work EXCEPT ![w] =
                         PostReturned([work[w] EXCEPT !.ids[c] = made'[c]])]
       \/ UNCHANGED <<requests, work>>
    /\ UNCHANGED <<rowvars, answer, ledger, trouble>>

\* A request gets lost on its way.
Lose(w, c) ==
    /\ <<w, c>> \in requests
    /\ requests' = requests \ {<<w, c>>}
    /\ UNCHANGED <<rowvars, answer, ledger, discord, work, trouble>>

\* Discord forgets a nonce (see the assumption above).
Forget(c) ==
    /\ c \in remembered
    /\ \A r \in requests : r[2] # c
    /\ \A w \in Consumers : ~At(w, Delivering)
    /\ remembered' = remembered \ {c}
    /\ UNCHANGED <<rowvars, answer, ledger, made, visible, requests, work, trouble>>

\* Somebody deletes a message of the reply.
Delete(c) ==
    /\ visible[c] # {}
    /\ visible' = [visible EXCEPT ![c] = {}]
    /\ UNCHANGED <<rowvars, answer, ledger, made, remembered, requests, work, trouble>>

-------------------------------------------------------------------------------
Step(w) ==
    \/ Ask(w) \/ Plan(w) \/ Conflict(w) \/ Reconcile(w) \/ Send(w) \/ MarkSent(w)
    \/ Receipt(w) \/ MarkReceipted(w) \/ Acknowledge(w)
    \/ Fail(w) \/ Forbid(w) \/ Settle(w) \/ Revoke(w)

Next ==
    \/ \E w \in Consumers :
          NextBatch(w) \/ Step(w) \/ Postpone(w) \/ SettleFails(w) \/ Crash(w)
    \/ Expire
    \/ FallDue
    \/ \E w \in Consumers \union {None}, c \in Chunks : Land(w, c) \/ Lose(w, c)
    \/ \E c \in Chunks : Forget(c) \/ Delete(c)

Spec == Init /\ [][Next]_vars

\* Consumers poll and go on with what they do, and time passes.  No request has
\* to arrive: a consumer that waits for one gives up after its timeout.
Fairness ==
    /\ \A w \in Consumers : WF_vars(Step(w))
    /\ WF_vars(\E w \in Consumers : NextBatch(w))
    /\ WF_vars(Expire)
    /\ WF_vars(FallDue)

FairSpec == Spec /\ Fairness

-------------------------------------------------------------------------------
(* Properties                                                              *)

\* A batch is acknowledged only when its answer was silent or each chunk of it
\* is on Discord under a saved id and has its receipt.  All receipts of the batch
\* are one: the message ids it was recorded with are those the rows keep.
AckedComplete ==
    /\ \A r \in ledger : r = saved
    /\ status = "processed" =>
        \/ answer = "silent"
        \/ ledger # {} /\ \A c \in Chunks : saved[c] \in 1 .. made[c] /\ receipted[c]

\* The channel never shows one chunk twice, wherever an attempt was cut off and
\* whichever requests of it arrive late or repeatedly.
NoDuplicate == \A c \in Chunks : Cardinality(visible[c]) <= 1

\* Each chunk of a reply is there once, and all are when the batch is acknowledged.
ReplyExact == AckedComplete /\ NoDuplicate

\* Who has the claim does not post a chunk whose message id is saved, not even
\* when its message was deleted (cogs.py:12389-12392).  A consumer that does not
\* know yet that its lease is lost may, if the message it missed was found,
\* saved and deleted by others before it looked.
SavedNotReposted ==
    [][\A w \in Consumers, c \in Chunks :
          Owned(w) /\ <<w, c>> \in requests' \ requests => saved[c] = 0]_vars

\* The batch is settled in the end, however its attempts fail.
Settled == <>(status # "live")

\* What the channel sees is a reply.
Posted == {c \in Chunks : made[c] > 0}

Reply == INSTANCE AutonomyReply WITH posted <- Posted

ImplementsReply == Reply!Spec

===============================================================================
