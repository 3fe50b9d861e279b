------------------------------ MODULE ImageQueue ------------------------------
(***************************************************************************)
(* The image jobs (services/image.py) as image.generate uses them: a call  *)
(* admits a job under a key of its request and waits for the job's end;    *)
(* one worker takes jobs from the table.  Every transaction runs in a      *)
(* thread that goes on when its caller is cancelled, and what it found is  *)
(* acted upon in a later step of the loop.                                 *)
(*                                                                         *)
(* Calls with one key share a job, and wait for one future.  Left out: the *)
(* limits per person and workspace, progress, the delivery of jobs by the  *)
(* bot, which no caller asks for, and shutdown, which is a restart here.   *)
(***************************************************************************)
EXTENDS Naturals, FiniteSets

CONSTANTS
    Jobs,
    Callers,      \* calls of image.generate
    JobOf,        \* the job a call's key names
    None,
    MaxPending,   \* max_pending_jobs
    MaxTroubles   \* bound: restarts, and transactions of the worker that raise

ASSUME ImageAssumption ==
    /\ IsFiniteSet(Jobs) /\ None \notin Jobs
    /\ JobOf \in [Callers -> Jobs]
    /\ MaxPending \in Nat /\ MaxTroubles \in Nat

VARIABLES
    row,      \* the status of each job, "none" before its admission
    call,     \* where each call is
    future,   \* _terminal_futures as its callers see it
    wake,     \* _wake.is_set()
    worker,   \* where _run is, and its job
    troubles, \* counted for the bound
    missed,   \* history: queued jobs whose wake-up was lost
    silent    \* history: jobs at whose end the worker died

vars == <<row, call, future, wake, worker, troubles, missed, silent>>
history == <<missed, silent>>

Ended(j) == row[j] \in {"completed", "failed"}
Pending == {j \in Jobs : row[j] \in {"queued", "running"}}

\* A call that has put its job into the table and will set the flag.
Wakes(j) == \E c \in Callers : JobOf[c] = j /\ call[c] \in {"admitted", "journal"}

Waiting == {"read", "publish", "again", "await"}

Awaited(j) == \E c \in Callers : JobOf[c] = j /\ call[c] \in Waiting

TypeOK ==
    /\ row \in [Jobs -> {"none", "queued", "running", "completed", "failed"}]
    /\ call \in [Callers -> {"idle", "dispatched", "orphan", "admitted",
                             "journal", "over", "cut"} \union Waiting]
    /\ future \in [Callers -> {"none", "pending", "done", "cancelled"}]
    /\ wake \in BOOLEAN
    /\ worker \in [pc : {"claim", "empty", "asleep", "generate", "complete", "fail",
                         "resolve", "dead"},
                   job : Jobs \union {None}]
    /\ missed \union silent \subseteq Jobs
    /\ Cardinality(Pending) <= MaxPending

Init ==
    /\ row = [j \in Jobs |-> "none"]
    /\ call = [c \in Callers |-> "idle"]
    /\ future = [c \in Callers |-> "none"]
    /\ wake = FALSE
    /\ worker = [pc |-> "claim", job |-> None]
    /\ troubles = 0
    /\ missed = {} /\ silent = {}

-------------------------------------------------------------------------------
(* submit()                                                                *)

Goes(c, step) == call' = [call EXCEPT ![c] = step]

\* The admission lock is held from the preflight to the end of the admission.
AdmissionFree == \A c \in Callers : call[c] \notin {"dispatched", "admitted"}

Full == Cardinality(Pending) >= MaxPending

\* A key that is known already is a replay.  Under the admission lock the key and
\* the limits are looked at before the effect is dispatched (before_enqueue).
Submit(c) ==
    /\ call[c] = "idle"
    /\ \/ row[JobOf[c]] # "none" /\ Goes(c, "read")
       \/ /\ row[JobOf[c]] = "none" /\ AdmissionFree
          /\ Goes(c, IF Full THEN "over" ELSE "dispatched")
    /\ UNCHANGED <<row, future, wake, worker, troubles, history>>

Admitted(j) == row[j] = "none" /\ ~Full

\* admit(): the limits and the row in one transaction.  When its caller was
\* cancelled meanwhile, nobody sets the flag.
Admit(c) ==
    /\ call[c] \in {"dispatched", "orphan"}
    /\ LET j == JobOf[c]
       IN  IF Admitted(j)
           THEN /\ row' = [row EXCEPT ![j] = "queued"]
                /\ Goes(c, IF call[c] = "orphan" THEN "over" ELSE "admitted")
                /\ missed' = IF call[c] = "orphan" THEN missed \union {j} ELSE missed
           ELSE /\ Goes(c, "over")
                /\ UNCHANGED <<row, missed>>
    /\ UNCHANGED <<future, wake, worker, troubles, silent>>

\* _ensure_worker()
EnsureWorker(c) ==
    /\ call[c] = "admitted"
    /\ Goes(c, "journal")
    /\ worker' = IF worker.pc = "dead" THEN [pc |-> "claim", job |-> None] ELSE worker
    /\ UNCHANGED <<row, future, wake, troubles, history>>

\* A mistake to rule out: a call cancelled while it writes the journal's entry sets
\* no flag.
WakeIfEntered(c) ==
    /\ call[c] = "journal"
    /\ \E step \in {"read", "over"} : Goes(c, step) /\ wake' = (step = "read")
    /\ UNCHANGED <<row, future, worker, troubles, history>>

\* The flag is set whatever becomes of the journal's entry.
Wake(c) ==
    /\ call[c] = "journal"
    /\ \E step \in {"read", "over"} : Goes(c, step)
    /\ wake' = TRUE
    /\ UNCHANGED <<row, future, worker, troubles, history>>

-------------------------------------------------------------------------------
(* wait_for_terminal()                                                     *)

\* Futures of a job's callers that are pending change their state.
Settle(j, state) ==
    [c \in Callers |-> IF JobOf[c] = j /\ future[c] = "pending" THEN state ELSE future[c]]

\* The row is read, a first time and a second.  A caller that finds the end the
\* second time resolves the future for the others.
Read(c) ==
    /\ call[c] \in {"read", "again"}
    /\ Goes(c, IF Ended(JobOf[c]) THEN "over"
               ELSE IF call[c] = "read" THEN "publish" ELSE "await")
    /\ future' = IF Ended(JobOf[c]) /\ call[c] = "again"
                 THEN [Settle(JobOf[c], "done") EXCEPT ![c] = "none"] ELSE future
    /\ UNCHANGED <<row, wake, worker, troubles, history>>

\* A mistake to rule out: the future is waited for without a second look.
PublishedLast == "await"

Published == "again"

\* A pending future of the job is joined, or a new one made.
Publish(c) ==
    /\ call[c] = "publish"
    /\ Goes(c, Published)
    /\ future' = [future EXCEPT ![c] = "pending"]
    /\ UNCHANGED <<row, wake, worker, troubles, history>>

\* The future is resolved, or somebody who waited for it was cancelled, and the
\* future with it.
Resume(c) ==
    /\ call[c] = "await"
    /\ \/ future[c] = "done" /\ Goes(c, "read")
       \/ future[c] = "cancelled" /\ Goes(c, "cut")
    /\ future' = [future EXCEPT ![c] = "none"]
    /\ UNCHANGED <<row, wake, worker, troubles, history>>

\* The call's timeout, or its turn's end.  An admission under way goes on in its
\* thread, or was never begun.
Cancel(c) ==
    /\ call[c] \in {"dispatched", "admitted"} \union Waiting
    /\ \/ call[c] = "dispatched" /\ Goes(c, "orphan")
       \/ Goes(c, "over")
    /\ future' = IF call[c] = "await" /\ future[c] = "pending"
                 THEN [Settle(JobOf[c], "cancelled") EXCEPT ![c] = "none"]
                 ELSE [future EXCEPT ![c] = "none"]
    /\ missed' = IF call[c] = "admitted" THEN missed \union {JobOf[c]} ELSE missed
    /\ UNCHANGED <<row, wake, worker, troubles, silent>>

-------------------------------------------------------------------------------
(* _run()                                                                  *)

Works(pc, j) == worker' = [pc |-> pc, job |-> j]

\* claim_next(): the choice among queued jobs is by their time of creation, which
\* is not the order of their admission.
Claim ==
    /\ worker.pc = "claim"
    /\ \/ \E j \in Jobs :
             /\ row[j] = "queued"
             /\ row' = [row EXCEPT ![j] = "running"]
             /\ missed' = missed \ {j}
             /\ Works("generate", j)
       \/ /\ \A j \in Jobs : row[j] # "queued"
          /\ Works("empty", None)
          /\ UNCHANGED <<row, missed>>
    /\ UNCHANGED <<call, future, wake, troubles, silent>>

\* Nothing was found: the flag is cleared and waited for.  A job that was admitted
\* since, and whose caller has set the flag already, is missed.
Clear ==
    /\ worker.pc = "empty"
    /\ wake' = FALSE
    /\ missed' = missed \union {j \in Jobs : row[j] = "queued" /\ ~Wakes(j)}
    /\ Works("asleep", None)
    /\ UNCHANGED <<row, call, future, troubles, silent>>

Woken ==
    /\ worker.pc = "asleep" /\ wake
    /\ Works("claim", None)
    /\ UNCHANGED <<row, call, future, wake, troubles, history>>

\* The provider answers or raises.
Generate ==
    /\ worker.pc = "generate"
    /\ \E pc \in {"complete", "fail"} : Works(pc, worker.job)
    /\ UNCHANGED <<row, call, future, wake, troubles, history>>

Statuses == [complete |-> "completed", fail |-> "failed"]

\* complete() or fail()
Store ==
    /\ worker.pc \in {"complete", "fail"}
    /\ row' = [row EXCEPT ![worker.job] = Statuses[worker.pc]]
    /\ Works("resolve", worker.job)
    /\ UNCHANGED <<call, future, wake, troubles, history>>

Resolve ==
    /\ worker.pc = "resolve"
    /\ future' = Settle(worker.job, "done")
    /\ Works("claim", None)
    /\ UNCHANGED <<row, call, wake, troubles, history>>

\* A transaction raises, before its commit or when the row is read after it.  One
\* that completes a job makes it a failure; the others end the worker.
Raises ==
    /\ troubles < MaxTroubles
    /\ troubles' = troubles + 1
    /\ \/ /\ worker.pc = "claim"
          /\ \/ UNCHANGED row
             \/ \E j \in Jobs : row[j] = "queued" /\ row' = [row EXCEPT ![j] = "running"]
          /\ Works("dead", None)
          /\ UNCHANGED silent
       \/ /\ worker.pc = "complete"
          /\ row' \in {row, [row EXCEPT ![worker.job] = "completed"]}
          /\ Works("fail", worker.job)
          /\ UNCHANGED silent
       \/ /\ worker.pc = "fail"
          /\ row' \in {row, [row EXCEPT ![worker.job] = "failed"]}
          /\ Works("dead", None)
          /\ silent' = silent \union {worker.job}
    /\ UNCHANGED <<call, future, wake, missed>>

Requeued == [j \in Jobs |-> IF row[j] = "running" THEN "queued" ELSE row[j]]

\* The process ends and starts again: start() requeues the running job.
Restart ==
    /\ troubles < MaxTroubles
    /\ troubles' = troubles + 1
    /\ row' = Requeued
    /\ call' = [c \in Callers |-> IF call[c] = "idle" THEN "idle" ELSE "over"]
    /\ future' = [c \in Callers |-> "none"]
    /\ wake' = (\E j \in Jobs : row'[j] \in {"queued", "running"})
    /\ Works("claim", None)
    /\ missed' = {} /\ silent' = {}

Calls ==
    \E c \in Callers :
        \/ Admit(c) \/ EnsureWorker(c) \/ Wake(c)
        \/ Read(c) \/ Publish(c) \/ Resume(c)

Run == Claim \/ Clear \/ Woken \/ Generate \/ Store \/ Resolve

Next ==
    \/ \E c \in Callers : Submit(c) \/ Cancel(c)
    \/ Calls \/ Run \/ Raises \/ Restart

Spec == Init /\ [][Next]_vars

\* The loop runs what can run, threads end, the provider answers or gives up.
Fairness == WF_vars(Run) /\ WF_vars(Calls)

FairSpec == Spec /\ Fairness

-------------------------------------------------------------------------------
(* Properties                                                              *)

\* The worker sleeps over a queued job only if the job's caller is about to set the
\* flag, was cancelled before it could, or set it between the worker's look at the
\* table and its clearing of the flag (819-821).
NoSleepOver ==
    worker.pc = "asleep" /\ ~wake =>
        \A j \in Jobs : row[j] = "queued" => Wakes(j) \/ j \in missed

\* Nobody was there to end the job: the worker died (its restart leaves what it
\* had claimed), which takes a transaction that raises.
Stranded(j) ==
    /\ troubles > 0
    /\ worker.pc = "dead" \/ (row[j] = "running" /\ worker.job # j)

\* Every accepted job ends, and everybody who waits for it gets an answer: the calls
\* that join, leave and resolve its future never forget one of them.  Only a lost
\* wake-up and the death of the worker leave a job or those who wait for it behind.
Ends ==
    \A j \in Jobs :
        (j \in Pending \/ Awaited(j)) ~>
            (Ended(j) /\ ~Awaited(j)) \/ j \in missed \union silent \/ Stranded(j)

\* "one waiter cannot clear another waiter's notification" (image.py:744-747): no
\* caller is cut off by what others do.  (MCImageQueueShared.cfg refutes it: the
\* future that a cancelled caller waits for is cancelled with it.)
OwnEnd == \A c \in Callers : call[c] # "cut"

===============================================================================
