------------------------- MODULE BackgroundWorkProofs -------------------------
(***************************************************************************)
(* Work that a background task does for calls which wait.  Image jobs: the *)
(* limit on pending jobs, and what the worker may sleep over, for any      *)
(* jobs, calls and limits.  Audit records: none is forgotten, and a flush  *)
(* that returns has left none of its own in memory, for any records,       *)
(* readers and limits.                                                     *)
(***************************************************************************)
EXTENDS ImageQueue, AuditQueue, FiniteSetTheorems, WellFoundedInduction, TLAPS

\* The steps at which the worker has a job in hand.
Working == {"generate", "complete", "fail", "resolve"}

WorkerHasJob == worker.pc \in Working => worker.job \in Jobs

IInv == TypeOK /\ WorkerHasJob /\ NoSleepOver

-------------------------------------------------------------------------------
(* The number of pending jobs                                              *)

\* Fewer pending jobs keep to the limit.
LEMMA PendingShrinks ==
    ASSUME NEW A, NEW B, IsFiniteSet(A), B \subseteq A, Cardinality(A) <= MaxPending
    PROVE  Cardinality(B) <= MaxPending
<1>1. Cardinality(B) <= Cardinality(A)
  BY FS_Subset
<1>2. IsFiniteSet(B)
  BY FS_Subset
<1>3. Cardinality(A) \in Nat /\ Cardinality(B) \in Nat
  BY <1>2, FS_CardinalityType
<1> QED BY <1>1, <1>3, ImageAssumption

\* One more is within the limit when it was not reached.
LEMMA PendingGrows ==
    ASSUME NEW A, NEW j, IsFiniteSet(A), ~(Cardinality(A) >= MaxPending)
    PROVE  Cardinality(A \union {j}) <= MaxPending
<1>1. Cardinality(A) \in Nat
  BY FS_CardinalityType
<1>2. Cardinality(A \union {j}) <= Cardinality(A) + 1
  BY <1>1, FS_AddElement
<1>3. Cardinality(A \union {j}) \in Nat
  BY FS_AddElement, FS_CardinalityType
<1> QED BY <1>1, <1>2, <1>3, ImageAssumption

LEMMA PendingFinite == IsFiniteSet(Pending)
<1>1. Pending \subseteq Jobs
  BY DEF Pending
<1> QED BY <1>1, FS_Subset, ImageAssumption DEF ImageAssumption

\* What the table holds after a step keeps to the limit when no job is added.
LEMMA LimitKept ==
    ASSUME TypeOK,
           \A j \in Jobs : row'[j] \in {"queued", "running"} => j \in Pending
    PROVE  Cardinality(Pending') <= MaxPending
<1>1. Pending' \subseteq Pending
  BY DEF Pending
<1>2. Cardinality(Pending) <= MaxPending
  BY DEF TypeOK
<1> QED BY <1>1, <1>2, PendingShrinks, PendingFinite

-------------------------------------------------------------------------------
(* Types                                                                   *)

LEMMA AdmitTypes ==
    ASSUME TypeOK, NEW c \in Callers, Admit(c)
    PROVE  TypeOK'
<1> DEFINE j == JobOf[c]
<1>1. j \in Jobs
  BY ImageAssumption DEF ImageAssumption
<1>2. CASE Admitted(j)
  <2>1. /\ row' = [row EXCEPT ![j] = "queued"]
        /\ call' = [call EXCEPT ![c] = IF call[c] = "orphan" THEN "over" ELSE "admitted"]
        /\ missed' \subseteq missed \union {j}
        /\ UNCHANGED <<future, wake, worker, silent>>
    BY <1>2 DEF Admit, Goes
  <2>2. Pending' = Pending \union {j}
    BY <2>1, <1>1 DEF Pending, TypeOK
  <2>3. Cardinality(Pending') <= MaxPending
    BY <2>2, <1>2, PendingGrows, PendingFinite DEF Admitted, Full
  <2> HIDE DEF j
  <2> QED BY <2>1, <2>3, <1>1 DEF TypeOK, Waiting
<1>3. CASE ~Admitted(j)
  <2>1. call' = [call EXCEPT ![c] = "over"] /\ UNCHANGED <<row, missed, future, wake, worker, silent>>
    BY <1>3 DEF Admit, Goes
  <2>2. Cardinality(Pending') <= MaxPending
    BY <2>1, LimitKept DEF Pending
  <2> QED BY <2>1, <2>2 DEF TypeOK, Waiting
<1> QED BY <1>2, <1>3

LEMMA CallTypes ==
    ASSUME TypeOK, NEW c \in Callers,
           Submit(c) \/ EnsureWorker(c) \/ Wake(c) \/ Read(c) \/ Publish(c) \/ Resume(c)
             \/ Cancel(c)
    PROVE  TypeOK'
<1>1. UNCHANGED <<row, silent>>
  BY DEF Submit, EnsureWorker, Wake, Read, Publish, Resume, Cancel, history
<1>2. Cardinality(Pending') <= MaxPending
  BY <1>1, LimitKept DEF Pending
<1>3. JobOf[c] \in Jobs
  BY ImageAssumption DEF ImageAssumption
<1>4. CASE Submit(c)
  BY <1>1, <1>2, <1>4 DEF TypeOK, Submit, Goes, Waiting, history
<1>5. CASE EnsureWorker(c)
  BY <1>1, <1>2, <1>5 DEF TypeOK, EnsureWorker, Goes, Waiting, history
<1>6. CASE Wake(c)
  BY <1>1, <1>2, <1>6 DEF TypeOK, Wake, Goes, Waiting, history
<1>7. CASE Read(c)
  <2>1. Settle(JobOf[c], "done") \in [Callers -> {"none", "pending", "done", "cancelled"}]
    BY DEF TypeOK, Settle
  <2> QED BY <1>1, <1>2, <1>7, <2>1 DEF TypeOK, Read, Goes, Waiting, history
<1>8. CASE Publish(c)
  BY <1>1, <1>2, <1>8 DEF TypeOK, Publish, Published, Goes, Waiting, history
<1>9. CASE Resume(c)
  BY <1>1, <1>2, <1>9 DEF TypeOK, Resume, Goes, Waiting, history
<1>10. CASE Cancel(c)
  <2>1. Settle(JobOf[c], "cancelled") \in [Callers -> {"none", "pending", "done", "cancelled"}]
    BY DEF TypeOK, Settle
  <2> QED BY <1>1, <1>2, <1>3, <1>10, <2>1 DEF TypeOK, Cancel, Goes, Waiting
<1> QED BY <1>4, <1>5, <1>6, <1>7, <1>8, <1>9, <1>10

LEMMA WorkerTypes ==
    ASSUME TypeOK, WorkerHasJob, Run \/ Raises \/ Restart
    PROVE  TypeOK'
<1>1. CASE Claim
  <2>1. Cardinality(Pending') <= MaxPending
    BY <1>1, LimitKept DEF Claim, Pending, TypeOK
  <2> QED BY <1>1, <2>1 DEF TypeOK, Claim, Works
<1>2. CASE Clear \/ Woken \/ Generate \/ Resolve
  <2>1. Cardinality(Pending') <= MaxPending
    BY <1>2, LimitKept DEF Clear, Woken, Generate, Resolve, Pending
  <2>2. CASE Clear
    BY <2>2, <2>1 DEF TypeOK, Clear, Works
  <2>3. CASE Woken
    BY <2>3, <2>1 DEF TypeOK, Woken, Works, history
  <2>4. CASE Generate
    BY <2>4, <2>1 DEF TypeOK, Generate, Works, history
  <2>5. CASE Resolve
    BY <2>5, <2>1 DEF TypeOK, Resolve, Works, Settle, history
  <2> QED BY <1>2, <2>2, <2>3, <2>4, <2>5
<1>3. CASE Store
  <2>1. Statuses[worker.pc] \in {"completed", "failed"} /\ worker.job \in Jobs
    BY <1>3 DEF Store, Statuses, WorkerHasJob, Working
  <2>2. Cardinality(Pending') <= MaxPending
    BY <1>3, <2>1, LimitKept DEF Store, Pending, TypeOK
  <2> QED BY <1>3, <2>1, <2>2 DEF TypeOK, Store, Works, history
<1>4. CASE Raises
  <2>1. worker.pc \in {"complete", "fail"} => worker.job \in Jobs
    BY DEF WorkerHasJob, Working
  <2>2. Cardinality(Pending') <= MaxPending
    BY <1>4, <2>1, LimitKept DEF Raises, Pending, TypeOK
  <2> QED BY <1>4, <2>1, <2>2 DEF TypeOK, Raises, Works
<1>5. CASE Restart
  <2>1. Cardinality(Pending') <= MaxPending
    BY <1>5, LimitKept DEF Restart, Requeued, Pending, TypeOK
  <2>2. wake' \in BOOLEAN
    BY <1>5 DEF Restart
  <2> QED BY <1>5, <2>1, <2>2 DEF TypeOK, Restart, Requeued, Works, Waiting
<1> QED BY <1>1, <1>2, <1>3, <1>4, <1>5 DEF Run

-------------------------------------------------------------------------------
(* The worker                                                              *)

LEMMA WorkerStep ==
    ASSUME TypeOK, WorkerHasJob, Next
    PROVE  WorkerHasJob'
<1> USE DEF WorkerHasJob, Working
<1>1. CASE UNCHANGED worker
  BY <1>1
<1>2. ASSUME NEW c \in Callers, EnsureWorker(c)
      PROVE  WorkerHasJob'
  BY <1>2 DEF EnsureWorker
<1>3. CASE Run
  BY <1>3 DEF Run, Claim, Clear, Woken, Generate, Store, Resolve, Works
<1>4. CASE Raises
  <2>1. \/ worker' = [pc |-> "dead", job |-> None]
        \/ worker.pc = "complete" /\ worker' = [pc |-> "fail", job |-> worker.job]
    BY <1>4, ZenonT(30) DEF Raises, Works
  <2> QED BY <2>1
<1>5. CASE Restart
  BY <1>5 DEF Restart, Works
<1> QED
  BY <1>1, <1>2, <1>3, <1>4, <1>5
  DEF Next, Calls, Submit, Cancel, Admit, Wake, Read, Publish, Resume

\* Whatever a call does about its job, the worker may sleep on: a job that gets
\* into the table has its caller to set the flag, or is known to be missed.
LEMMA SleepCalls ==
    ASSUME TypeOK, NoSleepOver, NEW c \in Callers,
           Submit(c) \/ Cancel(c) \/ Admit(c) \/ EnsureWorker(c) \/ Wake(c)
             \/ Read(c) \/ Publish(c) \/ Resume(c)
    PROVE  NoSleepOver'
<1>1. CASE Submit(c) \/ Read(c) \/ Publish(c) \/ Resume(c)
  <2>1. UNCHANGED <<row, worker, wake, missed>>
    BY <1>1 DEF Submit, Read, Publish, Resume, history
  <2>2. call[c] \notin {"admitted", "journal"}
    BY <1>1 DEF Submit, Read, Publish, Resume
  <2>3. \A d \in Callers : call[d] \in {"admitted", "journal"} => call'[d] = call[d]
    BY <1>1, <2>2 DEF Submit, Read, Publish, Resume, Goes, TypeOK
  <2> QED BY <2>1, <2>3 DEF NoSleepOver, Wakes
<1>2. CASE Cancel(c)
  <2>1. UNCHANGED <<row, worker, wake>>
    BY <1>2 DEF Cancel
  <2>2. \A d \in Callers \ {c} : call'[d] = call[d]
    BY <1>2 DEF Cancel, Goes, TypeOK
  <2>3. call[c] # "journal"
    BY <1>2 DEF Cancel, Waiting
  <2>4. missed \subseteq missed' /\ (call[c] = "admitted" => JobOf[c] \in missed')
    BY <1>2 DEF Cancel
  <2> QED BY <2>1, <2>2, <2>3, <2>4 DEF NoSleepOver, Wakes
<1>3. CASE Admit(c)
  <2>1. UNCHANGED <<worker, wake>> /\ missed \subseteq missed'
    BY <1>3 DEF Admit
  <2>2. call[c] \notin {"admitted", "journal"}
    BY <1>3 DEF Admit
  <2>3. \A d \in Callers \ {c} : call'[d] = call[d]
    BY <1>3 DEF Admit, Goes, TypeOK
  <2>4. \A j \in Jobs : row'[j] = "queued" =>
          \/ row[j] = "queued"
          \/ j = JobOf[c] /\ (call'[c] = "admitted" \/ j \in missed')
    BY <1>3 DEF Admit, Goes, TypeOK
  <2> QED BY <2>1, <2>2, <2>3, <2>4 DEF NoSleepOver, Wakes
<1>4. CASE EnsureWorker(c)
  <2>1. UNCHANGED <<row, wake, missed>>
    BY <1>4 DEF EnsureWorker, history
  <2>2. worker'.pc = "asleep" => worker.pc = "asleep"
    BY <1>4 DEF EnsureWorker
  <2>3. call'[c] = "journal" /\ \A d \in Callers \ {c} : call'[d] = call[d]
    BY <1>4 DEF EnsureWorker, Goes, TypeOK
  <2> QED BY <2>1, <2>2, <2>3 DEF NoSleepOver, Wakes
<1>5. CASE Wake(c)
  BY <1>5 DEF Wake, NoSleepOver
<1> QED BY <1>1, <1>2, <1>3, <1>4, <1>5

LEMMA SleepWorker ==
    ASSUME TypeOK, NoSleepOver, Run \/ Raises \/ Restart
    PROVE  NoSleepOver'
<1>1. CASE Clear
  <2>1. UNCHANGED <<row, call>>
    BY <1>1 DEF Clear
  <2>2. \A j \in Jobs : row[j] = "queued" => Wakes(j) \/ j \in missed'
    BY <1>1 DEF Clear
  <2>3. \A j \in Jobs : Wakes(j)' <=> Wakes(j)
    BY <2>1 DEF Wakes
  <2> QED BY <2>1, <2>2, <2>3 DEF NoSleepOver
<1>2. CASE Claim \/ Woken \/ Generate \/ Store \/ Resolve \/ Restart
  <2>1. CASE Claim
    BY <2>1 DEF Claim, Works, NoSleepOver
  <2>2. CASE Generate
    BY <2>2 DEF Generate, Works, NoSleepOver
  <2>3. CASE Woken \/ Resolve
    BY <2>3 DEF Woken, Resolve, Works, NoSleepOver
  <2>4. CASE Store
    BY <2>4 DEF Store, Works, NoSleepOver
  <2>5. CASE Restart
    BY <2>5 DEF Restart, Works, NoSleepOver
  <2> QED BY <1>2, <2>1, <2>2, <2>3, <2>4, <2>5
<1>3. CASE Raises
  <2>1. \/ worker' = [pc |-> "dead", job |-> None]
        \/ worker' = [pc |-> "fail", job |-> worker.job]
    BY <1>3, ZenonT(30) DEF Raises, Works
  <2>2. worker'.pc # "asleep"
    BY <2>1
  <2> QED BY <2>2 DEF NoSleepOver
<1> QED BY <1>1, <1>2, <1>3 DEF Run

-------------------------------------------------------------------------------
(* The invariant and the theorems                                          *)

LEMMA InitIInv == Init => IInv
<1> SUFFICES ASSUME Init PROVE IInv
  OBVIOUS
<1>1. Pending = {} /\ Cardinality({}) = 0
  BY FS_EmptySet DEF Init, Pending
<1>2. TypeOK
  <2>1. Cardinality(Pending) <= MaxPending
    BY <1>1, ImageAssumption DEF ImageAssumption
  <2> QED BY <2>1 DEF Init, TypeOK
<1> QED BY <1>2 DEF IInv, Init, WorkerHasJob, Working, NoSleepOver

LEMMA StepIInv == IInv /\ [Next]_vars => IInv'
<1> SUFFICES ASSUME IInv, [Next]_vars PROVE IInv'
  OBVIOUS
<1>0. TypeOK /\ WorkerHasJob /\ NoSleepOver
  BY DEF IInv
<1>1. ASSUME NEW c \in Callers, Submit(c) \/ Cancel(c)
      PROVE  IInv'
  <2>1. Next
    BY <1>1 DEF Next
  <2> QED BY <1>0, <1>1, <2>1, CallTypes, WorkerStep, SleepCalls DEF IInv
<1>2. ASSUME NEW c \in Callers, Admit(c)
      PROVE  IInv'
  <2>1. Next
    BY <1>2 DEF Next, Calls
  <2> QED BY <1>0, <1>2, <2>1, AdmitTypes, WorkerStep, SleepCalls DEF IInv
<1>3. ASSUME NEW c \in Callers,
             EnsureWorker(c) \/ Wake(c) \/ Read(c) \/ Publish(c) \/ Resume(c)
      PROVE  IInv'
  <2>1. Next
    BY <1>3 DEF Next, Calls
  <2> QED BY <1>0, <1>3, <2>1, CallTypes, WorkerStep, SleepCalls DEF IInv
<1>4. CASE Run \/ Raises \/ Restart
  <2>1. Next
    BY <1>4 DEF Next
  <2> QED BY <1>0, <1>4, <2>1, WorkerTypes, WorkerStep, SleepWorker DEF IInv
<1>5. CASE UNCHANGED vars
  BY <1>0, <1>5
  DEF IInv, vars, history, TypeOK, WorkerHasJob, NoSleepOver, Wakes, Pending
<1> QED BY <1>1, <1>2, <1>3, <1>4, <1>5 DEF Next, Calls

\* The types, and the limit on pending jobs: no cancellation, restart or failing
\* transaction lets more in than max_pending_jobs (image.py:558-566).
THEOREM TypeCorrect == Spec => []TypeOK
<1>1. IInv => TypeOK
  BY DEF IInv
<1> QED BY <1>1, InitIInv, StepIInv, PTL DEF Spec

\* The worker sleeps over a queued job only while the job's caller is about to set
\* the flag, when it was cancelled before it could, or when the flag was set between
\* the worker's look at the table and its clearing of the flag (image.py:815-822).
THEOREM NoSleepOverHolds == Spec => []NoSleepOver
<1>1. IInv => NoSleepOver
  BY DEF IInv
<1> QED BY <1>1, InitIInv, StepIInv, PTL DEF Spec


-------------------------------------------------------------------------------
(* The audit queue                                                         *)

Doings == {"absent", "get", "write", "spool", "select", "insert", "delete", "save", "saveLast"}
Places == {"idle", "overflow", "count", "put", "wait", "last", "returned", "raised"}
References == Writers \union {NoTask, Done}

AuditTypeOK ==
    /\ events \subseteq Records /\ outbox \subseteq Records
    /\ turns \in Seq(Controls \union Writers)
    /\ queue \in Seq(Records \union Controls)
    /\ overflow \subseteq Records
    /\ closed \in BOOLEAN
    /\ task \in References /\ at \in [Writers -> Doings]
    /\ rescuing \in [Writers -> BOOLEAN] /\ durable \in [Writers -> BOOLEAN]
    /\ batch \in [Writers -> SUBSET Records] /\ rows \in [Writers -> SUBSET Records]
    /\ held \in [Writers -> SUBSET Controls]
    /\ place \in [Controls -> Places]
    /\ awaits \in [Controls -> SUBSET Records]
    /\ seen \in [Controls -> References]
    /\ reply \in [Controls -> {"none", "done", "failed"}]
    /\ promised \in [Controls -> SUBSET Records]
    /\ accepted \subseteq Records /\ lost \subseteq Records
    /\ orphaned \subseteq Controls /\ misled \subseteq Controls
    /\ faults \in 0 .. MaxFaults

\* What is in a sequence, and what is in its first n places.
Items(q) == {q[i] : i \in DOMAIN q}
First(q, n) == {q[i] : i \in 1 .. n}

\* The records that a replay deletes are stored, and nothing is in hand where a
\* writer takes more.
WriterOK ==
    \A w \in Writers :
        /\ at[w] = "delete" => rows[w] \subseteq events
        /\ batch[w] # {} => at[w] \in {"write", "spool", "save", "saveLast"}

\* A call that was not misled deals with the writer that _audit_writer_task names.
OneWriter == \A c \in UnderWay \ misled : \A w \in Writers : Lives(w) => w = task

\* The line of the lock.
Once(line, x) == \A i, j \in DOMAIN line : line[i] = x /\ line[j] = x => i = j
LineOK ==
    /\ \A w \in Writers : Once(turns, w) /\ (at[w] \notin Locking => w \notin Items(turns))
    /\ \A c \in Controls : place[c] = "count" => c \in Items(turns)

\* A call whose writer has ended asked for the lock before the next one did.
Ahead(line, c, w) == \E i \in DOMAIN line : line[i] = c /\ w \notin First(line, i)
EndedOK ==
    \A c \in Unaware \ misled : \A w \in Writers :
        Lives(w) => at[w] = "select" /\ Ahead(turns, c, w)

\* Every record is somewhere.
NoneMissing == accepted \subseteq InMemory \union Safe

\* Where the records that a call was promised may still be.
Held == UNION {held[w] : w \in Writers}
Left(c) == (IF c \in misled THEN InHand ELSE {}) \union Safe
PromiseOK ==
    /\ \A c \in Controls : promised[c] \subseteq accepted
    /\ \A c \in Controls : place[c] = "overflow" => promised[c] \intersect overflow \subseteq awaits[c]
    /\ \A c \in Controls : place[c] \in {"count", "put"} =>
          promised[c] \subseteq Items(queue) \union InHand \union Safe
    /\ \A n \in DOMAIN queue : queue[n] \in Controls =>
          promised[queue[n]] \subseteq First(queue, n - 1) \union InHand \union Safe
    /\ \A c \in Held : promised[c] \subseteq InHand \union Safe
    /\ \A c \in Controls : place[c] = "wait" /\ reply[c] = "done" => promised[c] \subseteq Left(c)
    /\ \A c \in Controls : place[c] \in {"last", "returned"} => promised[c] \subseteq Left(c)

\* A control is in the queue, in hand or answered only of a call that has put it there.
Late == {"wait", "last", "returned", "raised"}
BegunOK ==
    /\ \A n \in DOMAIN queue : queue[n] \in Controls => place[queue[n]] \in Late
    /\ \A c \in Controls : c \in Held \/ reply[c] # "none" => place[c] \in Late

\* Nothing is accepted any more.
ClosedOK ==
    /\ place[Closer] # "idle" => closed
    /\ closed => accepted = promised[Closer]

KInv ==
    /\ AuditTypeOK /\ WriterOK /\ OneWriter /\ LineOK /\ EndedOK
    /\ NoneMissing /\ PromiseOK /\ BegunOK /\ ClosedOK

-------------------------------------------------------------------------------
(* Sequences                                                               *)

LEMMA AppendItems ==
  ASSUME NEW S, NEW q \in Seq(S), NEW x \in S
  PROVE  /\ Append(q, x) \in Seq(S) /\ Len(Append(q, x)) = Len(q) + 1 /\ Len(q) \in Nat
         /\ DOMAIN q = 1 .. Len(q) /\ DOMAIN Append(q, x) = 1 .. Len(q) + 1
         /\ \A i \in 1 .. Len(q) : Append(q, x)[i] = q[i]
         /\ Append(q, x)[Len(q) + 1] = x
         /\ Items(Append(q, x)) = Items(q) \union {x}
         /\ \A n \in 0 .. Len(q) : First(Append(q, x), n) = First(q, n)
         /\ First(q, Len(q)) = Items(q)
  <1>1. /\ Append(q, x) \in Seq(S) /\ Len(Append(q, x)) = Len(q) + 1 /\ Len(q) \in Nat
        /\ DOMAIN q = 1 .. Len(q) /\ DOMAIN Append(q, x) = 1 .. Len(q) + 1
        /\ \A i \in 1 .. Len(q) : Append(q, x)[i] = q[i]
        /\ Append(q, x)[Len(q) + 1] = x
    OBVIOUS
  <1>2. Items(Append(q, x)) = Items(q) \union {x}
    <2>1. Items(q) \union {x} \subseteq Items(Append(q, x))
      BY <1>1 DEF Items
    <2>2. ASSUME NEW i \in 1 .. Len(q) + 1
          PROVE  Append(q, x)[i] \in Items(q) \union {x}
      <3>1. CASE i = Len(q) + 1
        BY <1>1, <3>1
      <3>2. CASE i # Len(q) + 1
        BY <1>1, <3>2 DEF Items
      <3> QED
        BY <3>1, <3>2
    <2> QED
      BY <1>1, <2>1, <2>2 DEF Items
  <1>3. \A n \in 0 .. Len(q) : First(Append(q, x), n) = First(q, n)
    <2> TAKE n \in 0 .. Len(q)
    <2>1. \A i \in 1 .. n : Append(q, x)[i] = q[i]
      BY <1>1
    <2> QED
      BY <2>1 DEF First
  <1>4. First(q, Len(q)) = Items(q)
    BY <1>1 DEF First, Items
  <1> QED
    BY <1>1, <1>2, <1>3, <1>4

LEMMA TailItems ==
  ASSUME NEW S, NEW q \in Seq(S), q # <<>>
  PROVE  /\ Head(q) \in S /\ Head(q) = q[1] /\ Tail(q) \in Seq(S) /\ Len(q) \in Nat \ {0}
         /\ DOMAIN q = 1 .. Len(q) /\ DOMAIN Tail(q) = 1 .. Len(q) - 1
         /\ \A i \in 1 .. Len(q) - 1 : Tail(q)[i] = q[i + 1]
         /\ Items(Tail(q)) \subseteq Items(q) /\ Items(q) \subseteq Items(Tail(q)) \union {Head(q)}
         /\ \A n \in 1 .. Len(q) : First(Tail(q), n - 1) \subseteq First(q, n)
  <1>1. /\ Head(q) \in S /\ Head(q) = q[1] /\ Tail(q) \in Seq(S) /\ Len(q) \in Nat \ {0}
        /\ DOMAIN q = 1 .. Len(q) /\ DOMAIN Tail(q) = 1 .. Len(q) - 1
        /\ \A i \in 1 .. Len(q) - 1 : Tail(q)[i] = q[i + 1]
    OBVIOUS
  <1>2. Items(Tail(q)) \subseteq Items(q)
    BY <1>1 DEF Items
  <1>3. ASSUME NEW i \in 1 .. Len(q), i # 1
        PROVE  q[i] \in Items(Tail(q))
    <2>1. i - 1 \in 1 .. Len(q) - 1 /\ Tail(q)[i - 1] = q[i]
      BY <1>1, <1>3
    <2> QED
      BY <1>1, <2>1 DEF Items
  <1>4. Items(q) \subseteq Items(Tail(q)) \union {Head(q)}
    BY <1>1, <1>3 DEF Items
  <1>5. \A n \in 1 .. Len(q) : First(Tail(q), n - 1) \subseteq First(q, n)
    <2> TAKE n \in 1 .. Len(q)
    <2>1. \A i \in 1 .. n - 1 : Tail(q)[i] = q[i + 1] /\ i + 1 \in 1 .. n
      BY <1>1
    <2> QED
      BY <2>1 DEF First
  <1> QED
    BY <1>1, <1>2, <1>4, <1>5

\* r is q without its first m items.
Shifted(q, r, m, len) ==
    /\ len \in Nat /\ m \in 0 .. len
    /\ DOMAIN q = 1 .. len /\ DOMAIN r = 1 .. len - m
    /\ \A n \in 1 .. len - m : r[n] = q[m + n]

LEMMA SplitItems ==
  ASSUME NEW q, NEW r, NEW m, NEW len, Shifted(q, r, m, len)
  PROVE  /\ Items(q) = First(q, m) \union Items(r)
         /\ \A n \in DOMAIN r : First(q, m + n - 1) = First(q, m) \union First(r, n - 1)
  <1> USE DEF Shifted
  <1>2. ASSUME NEW n \in 0 .. len - m
        PROVE  First(q, m + n) = First(q, m) \union First(r, n)
    <2>1. \A i \in 1 .. m : q[i] \in First(q, m + n)
      BY DEF First
    <2>2. \A i \in 1 .. n : r[i] = q[m + i] /\ m + i \in 1 .. m + n
      OBVIOUS
    <2>3. \A i \in 1 .. n : r[i] \in First(q, m + n)
      BY <2>2 DEF First
    <2>4. ASSUME NEW i \in 1 .. m + n
          PROVE  q[i] \in First(q, m) \union First(r, n)
      <3>1. CASE i \in 1 .. m
        BY <3>1 DEF First
      <3>2. CASE i \notin 1 .. m
        <4>1. i - m \in 1 .. n /\ i - m \in 1 .. len - m /\ m + (i - m) = i
          BY <3>2
        <4>2. r[i - m] = q[i]
          BY <4>1
        <4> QED
          BY <4>1, <4>2 DEF First
      <3> QED
        BY <3>1, <3>2
    <2> QED
      BY <2>1, <2>3, <2>4 DEF First
  <1>3. /\ Items(q) = First(q, m + (len - m)) /\ Items(r) = First(r, len - m)
        /\ len - m \in 0 .. len - m
    BY DEF Items, First
  <1>4. Items(q) = First(q, m) \union Items(r)
    BY <1>2, <1>3
  <1>5. \A n \in DOMAIN r : First(q, m + n - 1) = First(q, m) \union First(r, n - 1)
    <2> TAKE n \in DOMAIN r
    <2>1. n - 1 \in 0 .. len - m /\ m + (n - 1) = m + n - 1
      OBVIOUS
    <2> QED
      BY <1>2, <2>1
  <1> QED
    BY <1>4, <1>5

\* What is left when the first m items are taken.
IsRest(r, q, m) == r = SubSeq(q, m + 1, Len(q))

LEMMA RestItems ==
  ASSUME NEW S, NEW q \in Seq(S), NEW m \in 0 .. Len(q), NEW r, IsRest(r, q, m)
  PROVE  /\ r \in Seq(S) /\ Len(q) \in Nat /\ Len(r) = Len(q) - m
         /\ DOMAIN q = 1 .. Len(q) /\ DOMAIN r = 1 .. Len(q) - m
         /\ \A n \in DOMAIN r : r[n] = q[m + n]
         /\ Items(q) = First(q, m) \union Items(r)
         /\ \A n \in DOMAIN r : First(q, m + n - 1) = First(q, m) \union First(r, n - 1)
  <1>1. /\ r \in Seq(S) /\ Len(q) \in Nat /\ Len(r) = Len(q) - m
        /\ DOMAIN q = 1 .. Len(q) /\ DOMAIN r = 1 .. Len(q) - m
        /\ \A n \in 1 .. Len(q) - m : r[n] = q[m + n]
    BY DEF IsRest
  <1>2. Shifted(q, r, m, Len(q))
    BY <1>1 DEF Shifted
  <1>3. /\ Items(q) = First(q, m) \union Items(r)
        /\ \A n \in DOMAIN r : First(q, m + n - 1) = First(q, m) \union First(r, n - 1)
    BY <1>2, SplitItems
  <1>4. \A n \in DOMAIN r : r[n] = q[m + n]
    BY <1>1
  <1> QED
    BY <1>1, <1>3, <1>4

\* The line without the writer.
LEMMA WithoutWriterItems ==
  ASSUME NEW S, NEW q \in Seq(S), NEW w, Once(q, w)
  PROVE  /\ WithoutWriter(w, q) \in Seq(S)
         /\ Items(WithoutWriter(w, q)) = Items(q) \ {w}
         /\ \A v : Once(q, v) => Once(WithoutWriter(w, q), v)
  <1>1. CASE ~ \E i \in DOMAIN q : q[i] = w
    BY <1>1 DEF WithoutWriter, Items
  <1>2. CASE \E i \in DOMAIN q : q[i] = w
    <2> DEFINE its == CHOOSE i \in DOMAIN q : q[i] = w
               r == [i \in 1 .. Len(q) - 1 |-> q[IF i < its THEN i ELSE i + 1]]
    <2>1. its \in DOMAIN q /\ q[its] = w
      BY <1>2
    <2>2. WithoutWriter(w, q) = r
      BY <1>2 DEF WithoutWriter
    <2>3. DOMAIN q = 1 .. Len(q) /\ Len(q) \in Nat
      OBVIOUS
    <2> HIDE DEF its
    <2>4. r \in Seq(S) /\ DOMAIN r = 1 .. Len(q) - 1
      BY <2>1, <2>3
    <2>5. ASSUME NEW i \in DOMAIN r
          PROVE  r[i] \in Items(q) \ {w}
      <3>1. PICK j \in 1 .. Len(q) : r[i] = q[j] /\ j # its
        <4>1. CASE i < its
          BY <2>1, <2>3, <2>4, <4>1
        <4>2. CASE ~(i < its)
          BY <2>1, <2>3, <2>4, <4>2
        <4> QED
          BY <4>1, <4>2
      <3> QED
        BY <2>1, <2>3, <3>1 DEF Items, Once
    <2>6. ASSUME NEW j \in DOMAIN q, q[j] # w
          PROVE  q[j] \in Items(r)
      <3>1. CASE j < its
        <4>1. j \in DOMAIN r /\ r[j] = q[j]
          BY <2>1, <2>3, <3>1
        <4> QED
          BY <4>1 DEF Items
      <3>2. CASE ~(j < its)
        <4>1. j > its
          BY <2>1, <2>3, <2>6, <3>2
        <4>2. j - 1 \in DOMAIN r /\ r[j - 1] = q[j]
          BY <2>1, <2>3, <4>1
        <4> QED
          BY <4>2 DEF Items
      <3> QED
        BY <3>1, <3>2
    <2>7. ASSUME NEW v, Once(q, v), NEW i \in DOMAIN r, NEW j \in DOMAIN r, r[i] = v, r[j] = v
          PROVE  i = j
      <3> DEFINE from(k) == IF k < its THEN k ELSE k + 1
      <3>1. /\ i \in Nat /\ j \in Nat /\ its \in Nat
            /\ from(i) \in DOMAIN q /\ from(j) \in DOMAIN q
        BY <2>1, <2>3, <2>4
      <3>2. r[i] = q[from(i)] /\ r[j] = q[from(j)]
        BY <2>4
      <3>3. from(i) = from(j)
        <4> HIDE DEF from, r
        <4> QED
          BY <2>7, <3>1, <3>2 DEF Once
      <3> QED
        BY <3>1, <3>3
    <2> HIDE DEF r
    <2> QED
      BY <2>2, <2>4, <2>5, <2>6, <2>7 DEF Items, Once
  <1> QED
    BY <1>1, <1>2

LEMMA LeastNatural ==
  ASSUME NEW S, S \subseteq Nat, S # {}
  PROVE  \E n \in S : \A m \in S : n <= m
  <1> DEFINE less == {p \in Nat \X Nat : p[1] < p[2]}
  <1>1. IsWellFoundedOn(less, Nat)
    BY NatLessThanWellFounded DEF OpToRel
  <1>2. \A x, y \in Nat : <<y, x>> \notin less => x <= y
    OBVIOUS
  <1> HIDE DEF less
  <1>3. PICK x \in S : \A y \in S : <<y, x>> \notin less
    BY <1>1, WFMin
  <1> QED
    BY <1>2, <1>3

LEMMA LeadingIs ==
  ASSUME NEW S, NEW q \in Seq(S), NEW kind
  PROVE  /\ Leading(q, kind) \in 0 .. Len(q)
         /\ \A i \in 1 .. Leading(q, kind) : q[i] \in kind
         /\ Leading(q, kind) < Len(q) => q[Leading(q, kind) + 1] \notin kind
  <1> DEFINE ends == {n \in 0 .. Len(q) : n < Len(q) => q[n + 1] \notin kind}
  <1>1. Len(q) \in ends /\ ends \subseteq Nat
    OBVIOUS
  <1>2. PICK n \in ends : \A m \in ends : n <= m
    BY <1>1, LeastNatural
  <1>3. ASSUME NEW i \in 1 .. n
        PROVE  q[i] \in kind
    <2>1. i - 1 \in 0 .. Len(q) /\ ~(n <= i - 1)
      BY <1>1, <1>2
    <2>2. i - 1 \notin ends
      BY <1>2, <2>1
    <2> QED
      BY <2>1, <2>2
  <1>4. \E k \in 0 .. Len(q) :
          /\ \A i \in 1 .. k : q[i] \in kind
          /\ k < Len(q) => q[k + 1] \notin kind
    BY <1>2, <1>3
  <1> QED
    BY <1>4 DEF Leading

\* The taking takes the first m items, records and what is behind them.
LEMMA TakenIs ==
  ASSUME NEW q \in Seq(Records \union Controls)
  PROVE  \E m \in 0 .. Len(q) :
            /\ Taken(q).rest = SubSeq(q, m + 1, Len(q))
            /\ Taken(q).run \subseteq Records /\ Taken(q).behind \subseteq Controls
            /\ First(q, m) = Taken(q).run \union Taken(q).behind
  <1> DEFINE most == Leading(q, Records)
             n == IF most < BatchMax THEN most ELSE BatchMax
             more == n < BatchMax /\ n < Len(q)
  <1>1. /\ most \in 0 .. Len(q) /\ \A i \in 1 .. most : q[i] \in Records
        /\ most < Len(q) => q[most + 1] \notin Records
    BY LeadingIs
  <1>2. /\ Taken(q).run = First(q, n)
        /\ Taken(q).behind = IF more THEN {q[n + 1]} ELSE {}
        /\ Taken(q).rest = SubSeq(q, IF more THEN n + 2 ELSE n + 1, Len(q))
    BY DEF Taken, First
  <1> HIDE DEF most
  <1>3. n \in 0 .. Len(q) /\ n <= most
    BY <1>1, AuditAssumption
  <1>4. First(q, n) \subseteq Records
    BY <1>1, <1>3 DEF First
  <1>5. CASE more
    <2>1. n = most /\ n + 1 \in 1 .. Len(q)
      BY <1>1, <1>3, <1>5, AuditAssumption
    <2>2. q[n + 1] \in Controls
      BY <1>1, <1>5, <2>1
    <2>3. First(q, n + 1) = First(q, n) \union {q[n + 1]}
      <3>1. 1 .. n + 1 = (1 .. n) \union {n + 1}
        BY <1>3
      <3> HIDE DEF n
      <3> QED
        BY <3>1 DEF First
    <2>4. n + 1 \in 0 .. Len(q) /\ n + 2 = (n + 1) + 1
      BY <1>3, <2>1
    <2> HIDE DEF n
    <2> QED
      BY <1>2, <1>4, <1>5, <2>2, <2>3, <2>4
  <1>6. CASE ~more
    <2> HIDE DEF n
    <2> QED
      BY <1>2, <1>3, <1>4, <1>6
  <1> QED
    BY <1>5, <1>6

-------------------------------------------------------------------------------
(* What a step of a writer does to records and promises                    *)

Holding == InHand \union Safe

LEMMA WholeQueue ==
  ASSUME NEW S, NEW q \in Seq(S)
  PROVE  0 \in 0 .. Len(q) /\ IsRest(q, q, 0) /\ First(q, 0) = {}
  BY DEF IsRest, First

\* What a step of the writer w leaves of the others, and what types it keeps.
Others(w, g, f) == \A v \in Writers \ {w} : g[v] = f[v]
Own(w) ==
    /\ at' \in [Writers -> Doings] /\ Others(w, at', at)
    /\ batch' \in [Writers -> SUBSET Records] /\ Others(w, batch', batch)
    /\ held' \in [Writers -> SUBSET Controls] /\ Others(w, held', held)
    /\ rescuing' \in [Writers -> BOOLEAN] /\ durable' \in [Writers -> BOOLEAN]

OwnRows(w) == rows' \in [Writers -> SUBSET Records] /\ Others(w, rows', rows)

\* The step takes the first m items of the queue, keeps the records among them and what
\* the writer has, and answers only controls that it holds or has taken.
Takes(w, m) ==
    /\ m \in 0 .. Len(queue) /\ IsRest(queue', queue, m)
    /\ First(queue, m) \intersect Records \subseteq batch'[w] \union Safe'
    /\ batch[w] \subseteq batch'[w] \union Safe' /\ Safe \subseteq Safe'
    /\ \A c \in held'[w] : c \in held[w] \/ c \in First(queue, m)
    /\ \A c \in Controls : reply'[c] # "none" => reply[c] # "none" \/ c \in held[w] \/ c \in First(queue, m)
    /\ \A c \in Controls : reply'[c] = "done" => reply[c] = "done" \/ (c \in held[w] /\ batch[w] = {})
    /\ misled \subseteq misled'
    /\ UNCHANGED <<overflow, closed, place, awaits, promised, accepted>>

\* What the writers have in hand together.
LEMMA HandIs ==
  ASSUME KInv, NEW w \in Writers, NEW m, Own(w), Takes(w, m)
  PROVE  /\ First(queue, m) \intersect Records \subseteq Holding'
         /\ Holding \subseteq Holding' /\ InHand \subseteq Holding'
         /\ \A c \in Held' : c \in Held \/ c \in First(queue, m)
         /\ held[w] \subseteq Held
  <1>1. /\ First(queue, m) \intersect Records \subseteq batch'[w] \union Safe'
        /\ batch[w] \subseteq batch'[w] \union Safe' /\ Safe \subseteq Safe'
        /\ \A c \in held'[w] : c \in held[w] \/ c \in First(queue, m)
    BY DEF Takes
  <1>2. \A v \in Writers \ {w} : batch'[v] = batch[v] /\ held'[v] = held[v]
    BY DEF Own, Others
  <1>3. \A v \in Writers : batch'[v] \subseteq InHand' /\ held[v] \subseteq Held
    BY DEF InHand, Held
  <1>4. InHand \subseteq InHand' \union Safe'
    <2> SUFFICES ASSUME NEW v \in Writers, NEW r \in batch[v] PROVE r \in InHand' \union Safe'
      BY DEF InHand
    <2> QED
      BY <1>1, <1>2, <1>3
  <1>5. ASSUME NEW v \in Writers, NEW c \in held'[v]
        PROVE  c \in Held \/ c \in First(queue, m)
    BY <1>1, <1>2, <1>3
  <1>6. \A c \in Held' : \E v \in Writers : c \in held'[v]
    BY DEF Held
  <1> QED
    BY <1>1, <1>3, <1>4, <1>5, <1>6 DEF Holding

\* A call that was not misled is answered by the only writer there is.
LEMMA AloneIs ==
  ASSUME KInv, NEW w \in Writers, Lives(w), batch[w] = {}, NEW c \in UnderWay \ misled
  PROVE  InHand = {}
  <1>1. \A v \in Writers : v # w => at[v] = "absent"
    BY DEF KInv, OneWriter, Lives
  <1>2. \A v \in Writers : batch[v] = {}
    BY <1>1 DEF KInv, WriterOK
  <1> QED
    BY <1>2 DEF InHand

LEMMA TakesKeeps ==
  ASSUME KInv, AuditTypeOK', NEW w \in Writers, Lives(w), NEW m, Own(w), Takes(w, m)
  PROVE  NoneMissing' /\ PromiseOK' /\ BegunOK' /\ ClosedOK'
  <1> USE DEF KInv
  <1>1. /\ m \in 0 .. Len(queue)
        /\ DOMAIN queue = 1 .. Len(queue) /\ Len(queue) \in Nat
        /\ DOMAIN queue' = 1 .. Len(queue) - m
        /\ \A n \in DOMAIN queue' : queue'[n] = queue[m + n]
        /\ Items(queue) = First(queue, m) \union Items(queue')
        /\ \A n \in DOMAIN queue' :
              First(queue, m + n - 1) = First(queue, m) \union First(queue', n - 1)
    <2>1. queue \in Seq(Records \union Controls) /\ m \in 0 .. Len(queue) /\ IsRest(queue', queue, m)
      BY DEF AuditTypeOK, Takes
    <2> QED
      BY <2>1, RestItems
  <1>2. /\ First(queue, m) \intersect Records \subseteq Holding'
        /\ Holding \subseteq Holding' /\ InHand \subseteq Holding'
        /\ Safe \subseteq Safe' /\ misled \subseteq misled'
        /\ held[w] \subseteq Held
        /\ UNCHANGED <<overflow, closed, place, awaits, promised, accepted>>
    BY HandIs DEF Takes
  <1>3. \A c \in Controls : promised[c] \subseteq Records
    BY DEF AuditTypeOK
  <1>4. NoneMissing'
    <2>1. accepted \subseteq Items(queue) \union overflow \union Holding
      BY DEF NoneMissing, InMemory, Items, Holding
    <2>2. accepted \subseteq Records
      BY DEF AuditTypeOK
    <2>3. accepted \subseteq Items(queue') \union overflow \union Holding'
      BY <1>1, <1>2, <2>1, <2>2
    <2> QED
      BY <1>2, <2>3 DEF NoneMissing, InMemory, Items, Holding
  <1>5. \A n \in DOMAIN queue : queue[n] \in Controls =>
          promised[queue[n]] \subseteq First(queue, n - 1) \union Holding
    BY DEF PromiseOK, Holding
  <1>6. ASSUME NEW c \in Controls, c \in First(queue, m)
        PROVE  promised[c] \subseteq Holding' /\ place[c] \in Late
    <2>1. PICK i \in 1 .. m : queue[i] = c
      BY <1>6 DEF First
    <2>2. i \in DOMAIN queue /\ First(queue, i - 1) \subseteq First(queue, m)
      BY <1>1, <2>1 DEF First
    <2>3. promised[c] \subseteq First(queue, m) \union Holding
      BY <1>5, <2>1, <2>2
    <2>4. place[c] \in Late
      BY <2>1, <2>2 DEF BegunOK
    <2> QED
      BY <1>2, <1>3, <2>3, <2>4
  <1>7. \A c \in Held : promised[c] \subseteq Holding /\ c \in Controls
    <2>1. \A c \in Held : \E v \in Writers : c \in held[v]
      BY DEF Held
    <2>2. \A v \in Writers : held[v] \subseteq Controls
      BY DEF AuditTypeOK
    <2> QED
      BY <2>1, <2>2 DEF PromiseOK, Holding
  <1>8. \A c \in Held' : c \in Controls /\ (c \in Held \/ c \in First(queue, m))
    <2>1. \A c \in Held' : c \in Held \/ c \in First(queue, m)
      BY HandIs
    <2>2. \A c \in Held' : \E v \in Writers : c \in held'[v]
      BY DEF Held
    <2>3. \A v \in Writers : held'[v] \subseteq Controls
      BY DEF AuditTypeOK
    <2> QED
      BY <2>1, <2>2, <2>3
  <1>9. PromiseOK'
    <2>1. \A c \in Controls : place[c] \in {"count", "put"} =>
            promised[c] \subseteq Items(queue') \union Holding'
      <3>1. \A c \in Controls : place[c] \in {"count", "put"} =>
              promised[c] \subseteq Items(queue) \union Holding
        BY DEF PromiseOK, Holding
      <3> QED
        BY <1>1, <1>2, <1>3, <3>1
    <2>2. ASSUME NEW n \in DOMAIN queue', queue'[n] \in Controls
          PROVE  promised[queue'[n]] \subseteq First(queue', n - 1) \union Holding'
      <3>1. m + n \in DOMAIN queue /\ queue[m + n] = queue'[n]
        BY <1>1
      <3>2. promised[queue'[n]] \subseteq First(queue, (m + n) - 1) \union Holding
        <4> DEFINE k == m + n
        <4>1. k \in DOMAIN queue /\ queue[k] = queue'[n]
          BY <3>1
        <4> HIDE DEF k
        <4>2. promised[queue'[n]] \subseteq First(queue, k - 1) \union Holding
          BY <1>5, <2>2, <4>1
        <4> QED
          BY <4>2 DEF k
      <3>3. promised[queue'[n]] \subseteq Records
        BY <1>3, <2>2
      <3> QED
        BY <1>1, <1>2, <3>2, <3>3
    <2>3. \A c \in Held' : promised[c] \subseteq Holding'
      BY <1>2, <1>6, <1>7, <1>8
    <2>4. ASSUME NEW c \in Controls, place[c] = "wait", reply'[c] = "done"
          PROVE  promised[c] \subseteq Left(c)'
      <3>1. CASE reply[c] = "done"
        <4>1. promised[c] \subseteq Left(c)
          BY <2>4, <3>1 DEF PromiseOK
        <4> QED
          BY <1>2, <4>1 DEF Left, Holding
      <3>2. CASE reply[c] # "done"
        <4>1. c \in held[w] /\ batch[w] = {}
          BY <2>4, <3>2 DEF Takes
        <4>2. promised[c] \subseteq Holding
          BY <1>2, <1>7, <4>1
        <4>3. c \notin misled => InHand = {}
          BY <2>4, <4>1, AloneIs DEF UnderWay
        <4> QED
          BY <1>2, <4>2, <4>3 DEF Left, Holding
      <3> QED
        BY <3>1, <3>2
    <2>5. \A c \in Controls : place[c] \in {"last", "returned"} => promised[c] \subseteq Left(c)'
      <3>1. \A c \in Controls : place[c] \in {"last", "returned"} => promised[c] \subseteq Left(c)
        BY DEF PromiseOK
      <3> QED
        BY <1>2, <3>1 DEF Left, Holding
    <2>6. /\ \A c \in Controls : promised[c] \subseteq accepted
          /\ \A c \in Controls : place[c] = "overflow" => promised[c] \intersect overflow \subseteq awaits[c]
      BY DEF PromiseOK
    <2> QED
      BY <1>2, <2>1, <2>2, <2>3, <2>4, <2>5, <2>6 DEF PromiseOK, Holding
  <1>10. BegunOK'
    <2>1. \A n \in DOMAIN queue' : queue'[n] \in Controls => place[queue'[n]] \in Late
      <3>1. \A n \in DOMAIN queue' : m + n \in DOMAIN queue /\ queue[m + n] = queue'[n]
        BY <1>1
      <3> QED
        BY <3>1 DEF BegunOK
    <2>2. \A c \in Controls : c \in Held' \/ reply'[c] # "none" => place[c] \in Late
      <3>1. \A c \in Controls : reply'[c] # "none" =>
              reply[c] # "none" \/ c \in held[w] \/ c \in First(queue, m)
        BY DEF Takes
      <3> QED
        BY <1>2, <1>6, <1>8, <3>1 DEF BegunOK
    <2> QED
      BY <1>2, <2>1, <2>2 DEF BegunOK
  <1>11. ClosedOK'
    BY <1>2 DEF ClosedOK
  <1> QED
    BY <1>4, <1>9, <1>10, <1>11

-------------------------------------------------------------------------------
(* The lock, and calls whose writer has ended                              *)

LEMMA LineKeeps ==
  ASSUME KInv, NEW w \in Writers, TakesTurns(w), Own(w), place' = place
  PROVE  LineOK' /\ turns' \in Seq(Controls \union Writers)
  <1> DEFINE S == Controls \union Writers
             others == WithoutWriter(w, turns)
  <1>1. turns \in Seq(S) /\ Once(turns, w) /\ \A v \in Writers : Once(turns, v)
    BY DEF KInv, AuditTypeOK, LineOK
  <1>2. /\ others \in Seq(S) /\ Items(others) = Items(turns) \ {w}
        /\ \A v : Once(turns, v) => Once(others, v)
    <2> HIDE DEF S
    <2> QED
      BY <1>1, WithoutWriterItems
  <1>3. w \notin Controls
    BY AuditAssumption DEF Controls
  <1>4. /\ \A c \in Controls : place[c] = "count" => c \in Items(turns)
        /\ \A v \in Writers \ {w} : at'[v] = at[v]
        /\ \A v \in Writers : at[v] \notin Locking => v \notin Items(turns)
    BY DEF KInv, LineOK, Own, Others
  <1> HIDE DEF others
  <1>5. CASE at'[w] \notin Locking
    <2>1. turns' = others
      BY <1>5 DEF TakesTurns, others
    <2>2. \A v \in Writers : Once(others, v) /\ (at'[v] \notin Locking => v \notin Items(others))
      BY <1>1, <1>2, <1>4
    <2>3. \A c \in Controls : place[c] = "count" => c \in Items(others)
      BY <1>2, <1>3, <1>4
    <2> QED
      BY <1>2, <2>1, <2>2, <2>3 DEF LineOK
  <1>6. CASE at'[w] \in Locking
    <2>1. PICK line \in {others, turns} : turns' = Append(line, w) /\ w \notin Items(line)
      <3>1. CASE at[w] \in Locking
        BY <1>2, <1>6, <3>1 DEF TakesTurns, others
      <3>2. CASE at[w] \notin Locking
        BY <1>4, <1>6, <3>2 DEF TakesTurns
      <3> QED
        BY <3>1, <3>2
    <2>2. /\ line \in Seq(S) /\ w \in S /\ \A v \in Writers : Once(line, v)
          /\ Items(line) = Items(turns) \ {w}
      BY <1>1, <1>2, <2>1
    <2> HIDE DEF S
    <2>3. /\ turns' \in Seq(S) /\ Items(turns') = Items(line) \union {w}
          /\ DOMAIN line = 1 .. Len(line) /\ DOMAIN turns' = 1 .. Len(line) + 1
          /\ \A i \in 1 .. Len(line) : turns'[i] = line[i] /\ Len(line) \in Nat
          /\ turns'[Len(line) + 1] = w
      BY <2>1, <2>2, AppendItems
    <2>4. Once(turns', w)
      <3>1. \A i \in DOMAIN turns' : turns'[i] = w => i = Len(line) + 1
        BY <2>1, <2>3 DEF Items
      <3> QED
        BY <3>1 DEF Once
    <2>5. \A v \in Writers \ {w} : Once(turns', v)
      <3>1. \A v \in Writers \ {w} : \A i \in DOMAIN turns' : turns'[i] = v => i \in DOMAIN line /\ line[i] = v
        BY <2>3
      <3> QED
        BY <2>2, <3>1 DEF Once
    <2>6. \A v \in Writers : at'[v] \notin Locking => v \notin Items(turns')
      BY <1>4, <1>6, <2>2, <2>3
    <2>7. \A c \in Controls : place[c] = "count" => c \in Items(turns')
      BY <1>3, <1>4, <2>2, <2>3
    <2> QED
      BY <2>3, <2>4, <2>5, <2>6, <2>7 DEF LineOK, S
  <1> QED
    BY <1>5, <1>6

\* With the lock a writer is ahead of everybody.
LEMMA TurnNotEnded ==
  ASSUME KInv, NEW w \in Writers, Lives(w), Turn(w) \/ at[w] # "select"
  PROVE  Unaware \subseteq misled
  <1> SUFFICES ASSUME NEW c \in Unaware, c \notin misled
               PROVE  FALSE
    OBVIOUS
  <1>1. at[w] = "select" /\ Ahead(turns, c, w)
    BY DEF KInv, EndedOK
  <1>2. PICK i \in DOMAIN turns : w \notin First(turns, i)
    BY <1>1 DEF Ahead
  <1>3. turns \in Seq(Controls \union Writers)
    BY DEF KInv, AuditTypeOK
  <1>4. 1 \in 1 .. i
    BY <1>3
  <1>5. turns[1] # w
    BY <1>2, <1>4 DEF First
  <1>6. turns # <<>> /\ Head(turns) = w
    BY <1>1 DEF Turn
  <1> QED
    BY <1>3, <1>5, <1>6

\* Whoever holds the task of a writer that ends holds one that is done.
EndedOrKept(w) ==
    \/ UNCHANGED <<task, seen>>
    \/ /\ at'[w] = "absent"
       /\ task' = IF task = w THEN Done ELSE task
       /\ seen' = [c \in Controls |-> IF seen[c] = w THEN Done ELSE seen[c]]

LEMMA EndedKeeps ==
  ASSUME KInv, NEW w \in Writers, Lives(w), Own(w), EndedOrKept(w), place' = place,
         misled \subseteq misled', Unaware \subseteq misled'
  PROVE  OneWriter' /\ EndedOK' /\ task' \in References /\ seen' \in [Controls -> References]
  <1>1. \A v \in Writers : Lives(v)' => Lives(v)
    BY DEF Own, Others, Lives
  <1>2. UnderWay' = UnderWay
    BY DEF UnderWay
  <1>3. at'[w] = "absent" \/ UNCHANGED <<task, seen>>
    BY DEF EndedOrKept
  <1>4. OneWriter'
    <2> SUFFICES ASSUME NEW c \in UnderWay' \ misled', NEW v \in Writers, Lives(v)'
                 PROVE  v = task'
      BY DEF OneWriter
    <2>1. v = task
      BY <1>1, <1>2 DEF KInv, OneWriter
    <2> QED
      BY <2>1 DEF EndedOrKept, Lives
  <1>5. EndedOK'
    <2> SUFFICES ASSUME NEW c \in Unaware' \ misled', NEW v \in Writers, Lives(v)'
                 PROVE  FALSE
      BY DEF EndedOK
    <2>1. c \in Controls /\ place[c] = "count" /\ seen'[c] \notin Writers /\ c \in UnderWay' /\ c \notin Unaware
      BY DEF Unaware, UnderWay
    <2>2. seen[c] \in Writers
      BY <2>1 DEF Unaware
    <2>3. at'[w] = "absent"
      BY <1>3, <2>1, <2>2
    <2>4. v # w /\ Lives(v) /\ c \in UnderWay \ misled
      BY <1>1, <1>2, <2>1, <2>3 DEF Lives
    <2> QED
      BY <2>4 DEF KInv, OneWriter
  <1>6. task' \in References /\ seen' \in [Controls -> References]
    BY DEF EndedOrKept, KInv, AuditTypeOK, References
  <1> QED
    BY <1>4, <1>5, <1>6

-------------------------------------------------------------------------------
(* The recovery                                                            *)

\* What the end of a recovery, or its next batch, leaves.
Rescued(w, controls) ==
    /\ Own(w) /\ EndedOrKept(w) /\ held'[w] \subseteq controls
    /\ at'[w] \in {"select", "absent", "save", "saveLast"}
    /\ batch'[w] # {} => at'[w] \in {"save", "saveLast"}
    /\ reply' \in [Controls -> {"none", "done", "failed"}]
    /\ \A c \in Controls : reply'[c] = reply[c] \/ (reply'[c] = "failed" /\ c \in controls)

\* What the end of a writer leaves.
LEMMA EndsIs ==
  ASSUME KInv, NEW w \in Writers, EndsWriter(w),
         batch' \in [Writers -> SUBSET Records], Others(w, batch', batch)
  PROVE  Own(w) /\ EndedOrKept(w) /\ at'[w] = "absent" /\ held'[w] = {}
  <1>1. /\ at' \in [Writers -> Doings] /\ Others(w, at', at) /\ at'[w] = "absent"
    BY DEF EndsWriter, Becomes, KInv, AuditTypeOK, Doings, Others
  <1>2. /\ held' \in [Writers -> SUBSET Controls] /\ Others(w, held', held) /\ held'[w] = {}
    BY DEF EndsWriter, KInv, AuditTypeOK, Others
  <1>3. rescuing' \in [Writers -> BOOLEAN] /\ durable' \in [Writers -> BOOLEAN]
    BY DEF EndsWriter, KInv, AuditTypeOK
  <1>4. EndedOrKept(w)
    BY <1>1 DEF EndsWriter, EndedOrKept
  <1> QED
    BY <1>1, <1>2, <1>3, <1>4 DEF Own

LEMMA RescuingIs ==
  ASSUME KInv, NEW w \in Writers, NEW there \in {"select", "save", "saveLast"},
         NEW controls, controls \subseteq Controls, NEW saved \in BOOLEAN,
         Rescuing(w, there, controls, saved),
         batch' \in [Writers -> SUBSET Records], Others(w, batch', batch),
         batch'[w] # {} => there # "select"
  PROVE  Rescued(w, controls)
  <1>1. /\ at' \in [Writers -> Doings] /\ Others(w, at', at) /\ at'[w] = there
    BY DEF Rescuing, Becomes, KInv, AuditTypeOK, Doings, Others
  <1>2. /\ held' \in [Writers -> SUBSET Controls] /\ Others(w, held', held) /\ held'[w] = controls
    BY DEF Rescuing, KInv, AuditTypeOK, Others
  <1>3. rescuing' \in [Writers -> BOOLEAN] /\ durable' \in [Writers -> BOOLEAN]
    BY DEF Rescuing, KInv, AuditTypeOK
  <1>4. EndedOrKept(w) /\ reply' = reply
    BY DEF Rescuing, EndedOrKept
  <1> QED
    BY <1>1, <1>2, <1>3, <1>4 DEF Own, Rescued, KInv, AuditTypeOK

LEMMA DrainedIs ==
  ASSUME KInv, NEW w \in Writers, NEW controls, controls \subseteq Controls, NEW saved \in BOOLEAN,
         Drained(w, controls, saved)
  PROVE  batch'[w] = {} /\ Rescued(w, controls)
  <1>1. batch' \in [Writers -> SUBSET Records] /\ Others(w, batch', batch) /\ batch'[w] = {}
    BY DEF Drained, KInv, AuditTypeOK, Others
  <1>2. CASE saved
    <2>1. Rescuing(w, "select", controls, TRUE)
      BY <1>2 DEF Drained
    <2> QED
      BY <1>1, <2>1, RescuingIs
  <1>3. CASE ~saved
    <2>1. EndsWriter(w) /\ Tells(controls, "failed")
      BY <1>3 DEF Drained
    <2>2. /\ reply' \in [Controls -> {"none", "done", "failed"}]
          /\ \A c \in Controls : reply'[c] = reply[c] \/ (reply'[c] = "failed" /\ c \in controls)
      BY <2>1 DEF Tells, KInv, AuditTypeOK
    <2>3. Own(w) /\ EndedOrKept(w) /\ at'[w] = "absent" /\ held'[w] = {}
      BY <1>1, <2>1, EndsIs
    <2> QED
      BY <1>1, <2>2, <2>3 DEF Rescued
  <1> QED
    BY <1>2, <1>3

LEMMA DrainsIs ==
  ASSUME KInv, NEW w \in Writers, NEW controls, controls \subseteq Controls, NEW saved \in BOOLEAN,
         Drains(w, controls, saved)
  PROVE  \E m \in 0 .. Len(queue) :
            /\ IsRest(queue', queue, m) /\ queue' \in Seq(Records \union Controls)
            /\ First(queue, m) \intersect Records \subseteq batch'[w]
            /\ Rescued(w, controls \union (First(queue, m) \intersect Controls))
  <1> DEFINE n == Leading(queue, Controls)
             tail == SubSeq(queue, n + 1, Len(queue))
             next == Taken(tail)
             all == controls \union {queue[i] : i \in 1 .. n} \union next.behind
  <1>1. queue \in Seq(Records \union Controls)
    BY DEF KInv, AuditTypeOK
  <1>2. /\ n \in 0 .. Len(queue) /\ \A i \in 1 .. n : queue[i] \in Controls
    BY <1>1, LeadingIs
  <1>3. /\ queue' = next.rest
        /\ IF next.run = {}
           THEN Drained(w, all, saved)
           ELSE /\ batch' = [batch EXCEPT ![w] = next.run]
                /\ Rescuing(w, IF next.emptied THEN "saveLast" ELSE "save", all, saved)
    BY DEF Drains
  <1> HIDE DEF n
  <1>4. IsRest(tail, queue, n)
    BY DEF IsRest
  <1>5. /\ tail \in Seq(Records \union Controls) /\ Len(queue) \in Nat /\ Len(tail) = Len(queue) - n
        /\ DOMAIN tail = 1 .. Len(queue) - n
        /\ \A i \in DOMAIN tail : tail[i] = queue[n + i]
        /\ \A i \in DOMAIN tail : First(queue, n + i - 1) = First(queue, n) \union First(tail, i - 1)
        /\ Items(queue) = First(queue, n) \union Items(tail)
    <2> HIDE DEF tail
    <2> QED
      BY <1>1, <1>2, <1>4, RestItems
  <1>6. PICK k \in 0 .. Len(tail) :
          /\ next.rest = SubSeq(tail, k + 1, Len(tail))
          /\ next.run \subseteq Records /\ next.behind \subseteq Controls
          /\ First(tail, k) = next.run \union next.behind
    <2> HIDE DEF tail
    <2> QED
      BY <1>5, TakenIs
  <1>7. n + k \in 0 .. Len(queue)
    BY <1>2, <1>5, <1>6
  <1>8. next.rest = SubSeq(queue, n + k + 1, Len(queue)) /\ next.rest \in Seq(Records \union Controls)
    <2>1. SubSeq(tail, k + 1, Len(tail)) = SubSeq(queue, n + k + 1, Len(queue))
      BY <1>1, <1>2, <1>5, <1>6
    <2>2. SubSeq(queue, n + k + 1, Len(queue)) \in Seq(Records \union Controls)
      BY <1>1, <1>7
    <2> QED
      BY <1>6, <2>1, <2>2
  <1>9. First(queue, n + k) = First(queue, n) \union First(tail, k)
    <2>1. ASSUME NEW i \in 1 .. n + k
          PROVE  queue[i] \in First(queue, n) \union First(tail, k)
      <3>1. CASE i \in 1 .. n
        BY <3>1 DEF First
      <3>2. CASE i \notin 1 .. n
        <4>1. i - n \in 1 .. k /\ i - n \in DOMAIN tail /\ n + (i - n) = i
          BY <1>2, <1>5, <1>6, <3>2
        <4>2. tail[i - n] = queue[i]
          BY <1>5, <4>1
        <4> HIDE DEF tail
        <4> QED
          BY <4>1, <4>2 DEF First
      <3> QED
        BY <3>1, <3>2
    <2>2. \A i \in 1 .. n : queue[i] \in First(queue, n + k)
      BY <1>2, <1>6, <1>5 DEF First
    <2>3. ASSUME NEW i \in 1 .. k
          PROVE  tail[i] \in First(queue, n + k)
      <3>1. i \in DOMAIN tail /\ n + i \in 1 .. n + k
        BY <1>2, <1>5, <1>6
      <3>2. tail[i] = queue[n + i]
        BY <1>5, <3>1
      <3> HIDE DEF tail
      <3> QED
        BY <3>1, <3>2 DEF First
    <2> HIDE DEF tail
    <2> QED
      BY <2>1, <2>2, <2>3 DEF First
  <1> HIDE DEF tail
  <1>10. First(queue, n) \subseteq Controls
    BY <1>2 DEF First
  <1>11. Records \intersect Controls = {}
    BY AuditAssumption DEF Controls
  <1>12. /\ First(queue, n + k) \intersect Records = next.run
         /\ all = controls \union (First(queue, n + k) \intersect Controls)
    BY <1>6, <1>9, <1>10, <1>11 DEF First
  <1>13. batch'[w] = next.run /\ Rescued(w, all)
    <2>1. CASE next.run = {}
      <3>1. Drained(w, all, saved) /\ all \subseteq Controls
        BY <1>3, <1>12, <2>1
      <3> HIDE DEF all, next
      <3> QED
        BY <2>1, <3>1, DrainedIs
    <2>2. CASE next.run # {}
      <3>1. /\ batch' = [batch EXCEPT ![w] = next.run] /\ next.run \subseteq Records /\ all \subseteq Controls
            /\ Rescuing(w, IF next.emptied THEN "saveLast" ELSE "save", all, saved)
        BY <1>3, <1>6, <1>12, <2>2
      <3> HIDE DEF all, next
      <3>2. batch' \in [Writers -> SUBSET Records] /\ Others(w, batch', batch) /\ batch'[w] = next.run
        BY <3>1 DEF KInv, AuditTypeOK, Others
      <3>3. \E there \in {"save", "saveLast"} : Rescuing(w, there, all, saved)
        BY <3>1
      <3> QED
        BY <3>1, <3>2, <3>3, RescuingIs
    <2> QED
      BY <2>1, <2>2
  <1>14. IsRest(queue', queue, n + k) /\ queue' \in Seq(Records \union Controls)
    BY <1>3, <1>8 DEF IsRest
  <1> HIDE DEF all, next
  <1> QED
    BY <1>7, <1>12, <1>13, <1>14

-------------------------------------------------------------------------------
(* The steps of a writer                                                   *)

\* The types that a step of w keeps besides its own.
Sound(w) ==
    /\ events \subseteq events' /\ events' \subseteq Records
    /\ outbox' \subseteq Records /\ lost' \subseteq Records
    /\ queue' \in Seq(Records \union Controls) /\ faults' \in 0 .. MaxFaults
    /\ misled' \subseteq Controls /\ orphaned' \subseteq Controls
    /\ reply' \in [Controls -> {"none", "done", "failed"}]
    /\ OwnRows(w)
    /\ at'[w] = "delete" => rows'[w] \subseteq events'
    /\ batch'[w] # {} => at'[w] \in {"write", "spool", "save", "saveLast"}

LEMMA WriterKeeps ==
  ASSUME KInv, NEW w \in Writers, Lives(w), NEW m, Own(w), Sound(w), Takes(w, m), TakesTurns(w),
         EndedOrKept(w), Unaware \subseteq misled'
  PROVE  KInv'
  <1>1. UNCHANGED <<overflow, closed, place, awaits, promised, accepted>> /\ misled \subseteq misled'
    BY DEF Takes
  <1>2. LineOK' /\ turns' \in Seq(Controls \union Writers)
    BY <1>1, LineKeeps
  <1>3. OneWriter' /\ EndedOK' /\ task' \in References /\ seen' \in [Controls -> References]
    BY <1>1, EndedKeeps
  <1>4. AuditTypeOK'
    BY <1>1, <1>2, <1>3 DEF Own, Sound, OwnRows, KInv, AuditTypeOK
  <1>5. WriterOK'
    <2> SUFFICES ASSUME NEW v \in Writers, v # w
                 PROVE  /\ at'[v] = "delete" => rows'[v] \subseteq events'
                        /\ batch'[v] # {} => at'[v] \in {"write", "spool", "save", "saveLast"}
      BY DEF Sound, WriterOK
    <2>1. at'[v] = at[v] /\ rows'[v] = rows[v] /\ batch'[v] = batch[v] /\ events \subseteq events'
      BY DEF Own, Sound, OwnRows, Others
    <2> QED
      BY <2>1 DEF KInv, WriterOK
  <1>6. NoneMissing' /\ PromiseOK' /\ BegunOK' /\ ClosedOK'
    BY <1>4, TakesKeeps
  <1> QED
    BY <1>2, <1>3, <1>4, <1>5, <1>6 DEF KInv

LEMMA FaultTypes ==
  ASSUME KInv, Fails \/ UNCHANGED faults
  PROVE  faults' \in 0 .. MaxFaults
  BY AuditAssumption DEF KInv, AuditTypeOK, Fails

LEMMA SaveTypes ==
  ASSUME KInv, NEW records, records \subseteq Records, events' = events, Saves(records) \/ Loses(records)
  PROVE  /\ outbox' \subseteq Records /\ lost' \subseteq Records /\ faults' \in 0 .. MaxFaults
         /\ Safe' = Safe \union records
  <1>1. Fails \/ UNCHANGED faults
    BY DEF Saves, Loses
  <1>2. /\ outbox' \subseteq Records /\ lost' \subseteq Records
        /\ Safe' = Safe \union records
    BY DEF Saves, Loses, Safe, KInv, AuditTypeOK
  <1> QED
    BY <1>1, <1>2, FaultTypes

\* Where the writer goes.
LEMMA BecomesIs ==
  ASSUME KInv, NEW w \in Writers, NEW there \in Doings, Becomes(w, there)
  PROVE  at' \in [Writers -> Doings] /\ Others(w, at', at) /\ at'[w] = there
  BY DEF Becomes, KInv, AuditTypeOK, Others

LEMMA GetKeeps ==
  ASSUME KInv, NEW w \in Writers, Get(w)
  PROVE  KInv'
  <1> USE DEF stores, calls, past
  <1>1. queue \in Seq(Records \union Controls) /\ at[w] = "get" /\ batch[w] = {}
    BY DEF Get, KInv, AuditTypeOK, WriterOK
  <1>2. PICK m \in 0 .. Len(queue) :
          /\ Taken(queue).rest = SubSeq(queue, m + 1, Len(queue))
          /\ Taken(queue).run \subseteq Records /\ Taken(queue).behind \subseteq Controls
          /\ First(queue, m) = Taken(queue).run \union Taken(queue).behind
    BY <1>1, TakenIs
  <1> DEFINE run == Taken(queue).run
             behind == Taken(queue).behind
             there == IF run = {} THEN "select" ELSE "write"
  <1>3. /\ batch' = [batch EXCEPT ![w] = run] /\ held' = [held EXCEPT ![w] = behind]
        /\ queue' = Taken(queue).rest /\ Becomes(w, there) /\ TakesTurns(w)
        /\ UNCHANGED <<stores, overflow, closed, task, rescuing, rows, durable, calls, past>>
    BY DEF Get
  <1>4. /\ run \subseteq Records /\ behind \subseteq Controls /\ First(queue, m) = run \union behind
        /\ IsRest(queue', queue, m) /\ queue' \in Seq(Records \union Controls)
    BY <1>1, <1>2, <1>3 DEF IsRest
  <1> HIDE DEF run, behind
  <1>5. /\ batch' \in [Writers -> SUBSET Records] /\ Others(w, batch', batch) /\ batch'[w] = run
        /\ held' \in [Writers -> SUBSET Controls] /\ Others(w, held', held) /\ held'[w] = behind
    BY <1>3, <1>4 DEF KInv, AuditTypeOK, Others
  <1>6. at' \in [Writers -> Doings] /\ Others(w, at', at) /\ at'[w] = there
    BY <1>3, BecomesIs DEF Doings
  <1>7. Own(w)
    BY <1>3, <1>5, <1>6 DEF Own, KInv, AuditTypeOK
  <1>8. Sound(w)
    BY <1>3, <1>4, <1>5, <1>6 DEF Sound, OwnRows, Others, KInv, AuditTypeOK
  <1>9. Takes(w, m)
    <2>1. Records \intersect Controls = {}
      BY AuditAssumption DEF Controls
    <2>2. Safe' = Safe
      BY <1>3 DEF Safe
    <2> QED
      BY <1>1, <1>3, <1>4, <1>5, <2>1, <2>2 DEF Takes
  <1>10. Lives(w) /\ Unaware \subseteq misled' /\ EndedOrKept(w)
    BY <1>1, <1>3, TurnNotEnded DEF Lives, EndedOrKept
  <1> QED
    BY <1>3, <1>7, <1>8, <1>9, <1>10, WriterKeeps

\* A step that takes nothing from the queue.
LEMMA TakesNothing ==
  ASSUME KInv, NEW w \in Writers, batch[w] \subseteq batch'[w] \union Safe', Safe \subseteq Safe',
         held'[w] \subseteq held[w],
         \A c \in Controls : reply'[c] # "none" => reply[c] # "none" \/ c \in held[w],
         \A c \in Controls : reply'[c] = "done" => reply[c] = "done" \/ (c \in held[w] /\ batch[w] = {}),
         misled \subseteq misled',
         UNCHANGED <<queue, overflow, closed, place, awaits, promised, accepted>>
  PROVE  Takes(w, 0) /\ queue' \in Seq(Records \union Controls)
  <1>1. 0 \in 0 .. Len(queue) /\ IsRest(queue, queue, 0) /\ First(queue, 0) = {}
    BY WholeQueue DEF KInv, AuditTypeOK
  <1>2. IsRest(queue', queue, 0)
    BY <1>1
  <1> QED
    BY <1>1, <1>2 DEF Takes, KInv, AuditTypeOK

LEMMA WriteKeeps ==
  ASSUME KInv, NEW w \in Writers, Write(w)
  PROVE  KInv'
  <1>1. /\ at[w] = "write" /\ TakesTurns(w)
        /\ UNCHANGED <<outbox, queue, overflow, closed, task, rescuing, rows, held, durable, calls,
                       accepted, lost, orphaned, misled>>
        /\ Fails \/ UNCHANGED faults
    BY DEF Write
  <1>2. PICK there \in {"select", "spool"} :
          /\ Becomes(w, there)
          /\ \/ events' = events \union batch[w] /\ batch' = [batch EXCEPT ![w] = {}]
             \/ /\ events' \in {events, events \union batch[w]} /\ batch' = batch
                /\ there = "spool"
    BY DEF Write
  <1>3. at' \in [Writers -> Doings] /\ Others(w, at', at) /\ at'[w] = there
    BY <1>2, BecomesIs DEF Doings
  <1>4. /\ batch' \in [Writers -> SUBSET Records] /\ Others(w, batch', batch)
        /\ batch'[w] # {} => there = "spool"
        /\ events \subseteq events' /\ events' \subseteq Records
        /\ batch[w] \subseteq batch'[w] \union events'
    BY <1>2 DEF KInv, AuditTypeOK, Others
  <1>5. faults' \in 0 .. MaxFaults
    BY <1>1, FaultTypes
  <1>6. Own(w)
    BY <1>1, <1>3, <1>4 DEF Own, Others, KInv, AuditTypeOK
  <1>7. Takes(w, 0) /\ queue' \in Seq(Records \union Controls)
    BY <1>1, <1>4, TakesNothing DEF Safe, calls
  <1>8. Sound(w)
    BY <1>1, <1>3, <1>4, <1>5, <1>7 DEF Sound, OwnRows, Others, KInv, AuditTypeOK, calls
  <1>9. Lives(w) /\ Unaware \subseteq misled' /\ EndedOrKept(w)
    BY <1>1, TurnNotEnded DEF Lives, EndedOrKept, calls
  <1> QED
    BY <1>1, <1>6, <1>7, <1>8, <1>9, WriterKeeps

LEMMA SpoolKeeps ==
  ASSUME KInv, NEW w \in Writers, Spool(w)
  PROVE  KInv'
  <1>1. /\ at[w] = "spool" /\ TakesTurns(w)
        /\ batch' = [batch EXCEPT ![w] = {}] /\ Becomes(w, "select")
        /\ UNCHANGED <<events, queue, overflow, closed, task, rescuing, rows, held, durable, calls,
                       accepted, orphaned, misled>>
        /\ Saves(batch[w]) \/ Loses(batch[w])
    BY DEF Spool
  <1>2. /\ outbox' \subseteq Records /\ lost' \subseteq Records /\ faults' \in 0 .. MaxFaults
        /\ Safe' = Safe \union batch[w]
    <2>1. batch[w] \subseteq Records
      BY DEF KInv, AuditTypeOK
    <2> QED
      BY <1>1, <2>1, SaveTypes
  <1>3. at' \in [Writers -> Doings] /\ Others(w, at', at) /\ at'[w] = "select"
    BY <1>1, BecomesIs DEF Doings
  <1>4. batch' \in [Writers -> SUBSET Records] /\ Others(w, batch', batch) /\ batch'[w] = {}
    BY <1>1 DEF KInv, AuditTypeOK, Others
  <1>5. Own(w)
    BY <1>1, <1>3, <1>4 DEF Own, Others, KInv, AuditTypeOK
  <1>6. Takes(w, 0) /\ queue' \in Seq(Records \union Controls)
    BY <1>1, <1>2, TakesNothing DEF calls
  <1>7. Sound(w)
    BY <1>1, <1>2, <1>3, <1>4, <1>6 DEF Sound, OwnRows, Others, KInv, AuditTypeOK, calls
  <1>8. Lives(w) /\ Unaware \subseteq misled' /\ EndedOrKept(w)
    BY <1>1, TurnNotEnded DEF Lives, EndedOrKept, calls
  <1> QED
    BY <1>1, <1>5, <1>6, <1>7, <1>8, WriterKeeps

\* After a replay, and while it goes on, a control is answered only if it is in hand.
LEMMA ReplayIs ==
  ASSUME KInv, NEW w \in Writers, at[w] \in {"select", "insert", "delete"}, UNCHANGED batch,
         \/ ReplayEnds(w)
         \/ \E there \in {"insert", "delete", "select"} : ReplayGoesOn(w, there) /\ OwnRows(w)
  PROVE  /\ Own(w) /\ OwnRows(w) /\ EndedOrKept(w) /\ batch[w] = {} /\ batch'[w] = {}
         /\ at'[w] \in {"absent", "get", "insert", "delete", "select"}
         /\ at'[w] = "delete" => ReplayGoesOn(w, "delete")
         /\ held'[w] \subseteq held[w]
         /\ reply' \in [Controls -> {"none", "done", "failed"}]
         /\ \A c \in Controls : reply'[c] # "none" => reply[c] # "none" \/ c \in held[w]
         /\ \A c \in Controls : reply'[c] = "done" => reply[c] = "done" \/ c \in held[w]
  <1>1. batch[w] = {} /\ batch'[w] = {}
    BY DEF KInv, WriterOK
  <1>2. batch' \in [Writers -> SUBSET Records] /\ Others(w, batch', batch)
    BY DEF KInv, AuditTypeOK, Others
  <1>3. CASE ReplayEnds(w)
    <2>1. /\ reply' = [c \in Controls |-> IF c \in held[w] THEN "done" ELSE reply[c]]
          /\ rows' = [rows EXCEPT ![w] = {}]
          /\ \/ EndsWriter(w)
             \/ /\ Becomes(w, "get") /\ held' = [held EXCEPT ![w] = {}]
                /\ UNCHANGED <<task, rescuing, durable, seen>>
      BY <1>3 DEF ReplayEnds, Tells
    <2>2. OwnRows(w)
      BY <2>1 DEF OwnRows, Others, KInv, AuditTypeOK
    <2>3. Own(w) /\ EndedOrKept(w) /\ at'[w] \in {"absent", "get"} /\ held'[w] = {}
      <3>1. CASE EndsWriter(w)
        BY <1>2, <3>1, EndsIs
      <3>2. CASE ~EndsWriter(w)
        <4>1. /\ Becomes(w, "get") /\ held' = [held EXCEPT ![w] = {}]
              /\ UNCHANGED <<task, rescuing, durable, seen>>
          BY <2>1, <3>2
        <4>2. at' \in [Writers -> Doings] /\ Others(w, at', at) /\ at'[w] = "get"
          BY <4>1, BecomesIs DEF Doings
        <4> QED
          BY <1>2, <4>1, <4>2 DEF Own, EndedOrKept, Others, KInv, AuditTypeOK
      <3> QED
        BY <3>1, <3>2
    <2> QED
      BY <1>1, <2>1, <2>2, <2>3 DEF KInv, AuditTypeOK
  <1>4. CASE \E there \in {"insert", "delete", "select"} : ReplayGoesOn(w, there) /\ OwnRows(w)
    <2>1. PICK there \in {"insert", "delete", "select"} : ReplayGoesOn(w, there)
      BY <1>4
    <2>2. Becomes(w, there) /\ UNCHANGED <<task, rescuing, held, durable, seen, reply>>
      BY <2>1 DEF ReplayGoesOn
    <2>3. at' \in [Writers -> Doings] /\ Others(w, at', at) /\ at'[w] = there
      BY <2>2, BecomesIs DEF Doings
    <2> QED
      BY <1>1, <1>2, <1>4, <2>1, <2>2, <2>3 DEF Own, EndedOrKept, Others, KInv, AuditTypeOK
  <1> QED
    BY <1>3, <1>4

\* What the three steps of a replay share.
LEMMA ReplayKeeps ==
  ASSUME KInv, NEW w \in Writers, at[w] \in {"select", "insert", "delete"}, TakesTurns(w),
         Turn(w) \/ at[w] # "select",
         UNCHANGED <<queue, overflow, closed, batch, unchangedCalls, accepted, lost, orphaned, misled>>,
         \/ ReplayEnds(w)
         \/ \E there \in {"insert", "delete", "select"} : ReplayGoesOn(w, there) /\ OwnRows(w),
         ReplayGoesOn(w, "delete") => rows'[w] \subseteq events',
         events \subseteq events', events' \subseteq Records, outbox' \subseteq Records, Safe \subseteq Safe',
         Fails \/ UNCHANGED faults
  PROVE  KInv'
  <1>1. /\ Own(w) /\ OwnRows(w) /\ EndedOrKept(w) /\ batch[w] = {} /\ batch'[w] = {}
        /\ at'[w] = "delete" => ReplayGoesOn(w, "delete")
        /\ held'[w] \subseteq held[w]
        /\ reply' \in [Controls -> {"none", "done", "failed"}]
        /\ \A c \in Controls : reply'[c] # "none" => reply[c] # "none" \/ c \in held[w]
        /\ \A c \in Controls : reply'[c] = "done" => reply[c] = "done" \/ c \in held[w]
    BY ReplayIs
  <1>2. faults' \in 0 .. MaxFaults
    BY FaultTypes
  <1>3. Takes(w, 0) /\ queue' \in Seq(Records \union Controls)
    BY <1>1, TakesNothing DEF unchangedCalls
  <1>4. Sound(w)
    BY <1>1, <1>2, <1>3 DEF Sound, KInv, AuditTypeOK
  <1>5. Lives(w) /\ Unaware \subseteq misled'
    <2>1. Lives(w)
      BY DEF Lives
    <2> QED
      BY <2>1, TurnNotEnded
  <1> QED
    BY <1>1, <1>3, <1>4, <1>5, WriterKeeps

LEMMA SelectKeeps ==
  ASSUME KInv, NEW w \in Writers, Select(w)
  PROVE  KInv'
  <1>1. /\ at[w] = "select" /\ Turn(w) /\ TakesTurns(w)
        /\ UNCHANGED <<stores, queue, overflow, closed, batch, unchangedCalls, past>>
    BY DEF Select
  <1>2. \/ ReplayEnds(w)
        \/ ReplayGoesOn(w, "insert") /\ \E some \in SUBSET outbox : rows' = [rows EXCEPT ![w] = some]
    BY DEF Select
  <1>3. ReplayEnds(w) \/ (ReplayGoesOn(w, "insert") /\ OwnRows(w))
    BY <1>2 DEF OwnRows, Others, KInv, AuditTypeOK
  <1>4. ~ReplayGoesOn(w, "delete")
    <2> SUFFICES ASSUME ReplayGoesOn(w, "delete")
                 PROVE  FALSE
      OBVIOUS
    <2>1. at'[w] = "delete"
      BY DEF ReplayGoesOn, Becomes, KInv, AuditTypeOK
    <2>2. CASE ReplayEnds(w)
      <3>1. Becomes(w, "absent") \/ Becomes(w, "get")
        BY <2>2 DEF ReplayEnds, EndsWriter
      <3> QED
        BY <2>1, <3>1 DEF Becomes, KInv, AuditTypeOK
    <2>3. CASE ReplayGoesOn(w, "insert")
      BY <2>1, <2>3 DEF ReplayGoesOn, Becomes, KInv, AuditTypeOK
    <2> QED
      BY <1>3, <2>2, <2>3
  <1>5. events' \subseteq Records /\ outbox' \subseteq Records /\ Safe' = Safe
    BY <1>1 DEF stores, past, Safe, KInv, AuditTypeOK
  <1> QED
    BY <1>1, <1>3, <1>4, <1>5, ReplayKeeps DEF stores, past

LEMMA InsertKeeps ==
  ASSUME KInv, NEW w \in Writers, Insert(w)
  PROVE  KInv'
  <1>1. /\ at[w] = "insert" /\ TakesTurns(w)
        /\ UNCHANGED <<outbox, queue, overflow, closed, batch, unchangedCalls, accepted,
                       lost, orphaned, misled>>
        /\ Fails \/ UNCHANGED faults
        /\ events' \in {events, events \union rows[w]}
    BY DEF Insert
  <1>2. ReplayEnds(w) \/ (ReplayGoesOn(w, "delete") /\ OwnRows(w) /\ rows'[w] \subseteq events')
    BY DEF Insert, OwnRows, Others, KInv, AuditTypeOK
  <1>3. ReplayGoesOn(w, "delete") => rows'[w] \subseteq events'
    <2> SUFFICES ASSUME ReplayEnds(w), ReplayGoesOn(w, "delete")
                 PROVE  FALSE
      BY <1>2
    <2>1. Becomes(w, "absent") \/ Becomes(w, "get")
      BY DEF ReplayEnds, EndsWriter
    <2>2. Becomes(w, "delete")
      BY DEF ReplayGoesOn
    <2> QED
      BY <2>1, <2>2 DEF Becomes, KInv, AuditTypeOK
  <1>4. /\ events' \subseteq Records /\ outbox' \subseteq Records
        /\ events \subseteq events' /\ Safe \subseteq Safe'
    BY <1>1 DEF Safe, KInv, AuditTypeOK
  <1> QED
    BY <1>1, <1>2, <1>3, <1>4, ReplayKeeps

LEMMA DeleteRowsKeeps ==
  ASSUME KInv, NEW w \in Writers, DeleteRows(w)
  PROVE  KInv'
  <1>1. /\ at[w] = "delete" /\ Turn(w) /\ TakesTurns(w)
        /\ UNCHANGED <<events, queue, overflow, closed, batch, unchangedCalls, accepted,
                       lost, orphaned, misled>>
        /\ Fails \/ UNCHANGED faults
        /\ outbox' \in {outbox, outbox \ rows[w]} /\ rows[w] \subseteq events
    BY DEF DeleteRows, KInv, WriterOK
  <1>2. ReplayEnds(w) \/ (ReplayGoesOn(w, "select") /\ OwnRows(w))
    BY DEF DeleteRows, OwnRows, Others, KInv, AuditTypeOK
  <1>3. ~ReplayGoesOn(w, "delete")
    <2> SUFFICES ASSUME ReplayGoesOn(w, "delete")
                 PROVE  FALSE
      OBVIOUS
    <2>1. Becomes(w, "absent") \/ Becomes(w, "get") \/ Becomes(w, "select")
      BY <1>2 DEF ReplayEnds, ReplayGoesOn, EndsWriter
    <2>2. Becomes(w, "delete")
      BY DEF ReplayGoesOn
    <2> QED
      BY <2>1, <2>2 DEF Becomes, KInv, AuditTypeOK
  <1>4. events' \subseteq Records /\ outbox' \subseteq Records /\ Safe \subseteq Safe'
    BY <1>1 DEF Safe, KInv, AuditTypeOK
  <1> QED
    BY <1>1, <1>2, <1>3, <1>4, ReplayKeeps

\* A step of the recovery takes the first m items of the queue.
Recovers(w, m) ==
    /\ m \in 0 .. Len(queue)
    /\ IsRest(queue', queue, m) /\ queue' \in Seq(Records \union Controls)
    /\ First(queue, m) \intersect Records \subseteq batch'[w]
    /\ Rescued(w, held[w] \union (First(queue, m) \intersect Controls))

\* A recovery that leaves the queue alone.
LEMMA RecoversNothing ==
  ASSUME KInv, NEW w \in Writers, queue' = queue, Rescued(w, held[w])
  PROVE  Recovers(w, 0)
  <1>1. 0 \in 0 .. Len(queue) /\ IsRest(queue, queue, 0) /\ First(queue, 0) = {}
    BY WholeQueue DEF KInv, AuditTypeOK
  <1>2. IsRest(queue', queue, 0)
    BY <1>1
  <1>3. held[w] \union (First(queue, 0) \intersect Controls) = held[w]
    BY <1>1
  <1> QED
    BY <1>1, <1>2, <1>3 DEF Recovers, KInv, AuditTypeOK

LEMMA RescuesIs ==
  ASSUME KInv, NEW w \in Writers, Rescues(w)
  PROVE  \E m : Recovers(w, m) /\ batch[w] \subseteq batch'[w]
  <1>1. held[w] \subseteq Controls
    BY DEF KInv, AuditTypeOK
  <1>2. CASE batch[w] = {}
    <2>1. Drains(w, held[w], TRUE)
      BY <1>2 DEF Rescues
    <2> QED
      BY <1>1, <1>2, <2>1, DrainsIs DEF Recovers
  <1>3. CASE batch[w] # {}
    <2>1. Rescuing(w, "save", held[w], TRUE) /\ UNCHANGED <<batch, queue>>
      BY <1>3 DEF Rescues
    <2>2. batch' \in [Writers -> SUBSET Records] /\ Others(w, batch', batch)
      BY <2>1 DEF Others, KInv, AuditTypeOK
    <2>3. Rescued(w, held[w])
      BY <1>1, <2>1, <2>2, RescuingIs
    <2> QED
      BY <2>1, <2>3, RecoversNothing
  <1> QED
    BY <1>2, <1>3

\* What a recovery does to the queue, whatever was saved before.
LEMMA RecoversKeeps ==
  ASSUME KInv, NEW w \in Writers, Lives(w), NEW m, Recovers(w, m),
         batch[w] \subseteq batch'[w] \union Safe', Safe \subseteq Safe', TakesTurns(w),
         misled \subseteq misled', misled' \subseteq Controls, Unaware \subseteq misled',
         orphaned' \subseteq Controls, events \subseteq events', events' \subseteq Records,
         outbox' \subseteq Records, lost' \subseteq Records, OwnRows(w), faults' \in 0 .. MaxFaults,
         UNCHANGED <<overflow, closed, place, awaits, promised, accepted>>
  PROVE  KInv'
  <1>1. /\ m \in 0 .. Len(queue) /\ IsRest(queue', queue, m) /\ queue' \in Seq(Records \union Controls)
        /\ First(queue, m) \intersect Records \subseteq batch'[w]
        /\ Own(w) /\ EndedOrKept(w)
        /\ held'[w] \subseteq held[w] \union (First(queue, m) \intersect Controls)
        /\ at'[w] \in {"select", "absent", "save", "saveLast"}
        /\ batch'[w] # {} => at'[w] \in {"save", "saveLast"}
        /\ reply' \in [Controls -> {"none", "done", "failed"}]
        /\ \A c \in Controls : reply'[c] = reply[c] \/ (reply'[c] = "failed" /\ c \in held[w] \union First(queue, m))
    BY DEF Recovers, Rescued
  <1>2. Sound(w)
    BY <1>1 DEF Sound
  <1>3. Takes(w, m)
    <2>1. /\ \A c \in held'[w] : c \in held[w] \/ c \in First(queue, m)
          /\ \A c \in Controls : reply'[c] # "none" => reply[c] # "none" \/ c \in held[w] \/ c \in First(queue, m)
          /\ \A c \in Controls : reply'[c] = "done" => reply[c] = "done"
      BY <1>1
    <2> QED
      BY <1>1, <2>1 DEF Takes
  <1> QED
    BY <1>1, <1>2, <1>3, WriterKeeps

LEMMA SaveKeeps ==
  ASSUME KInv, NEW w \in Writers, Save(w)
  PROVE  KInv'
  <1>1. PICK saved \in {durable[w], FALSE} :
          /\ (Saves(batch[w]) /\ saved = durable[w]) \/ (Loses(batch[w]) /\ saved = FALSE)
          /\ IF at[w] = "save"
             THEN Drains(w, held[w], saved)
             ELSE Drained(w, held[w], saved) /\ UNCHANGED queue
    BY DEF Save
  <1>2. /\ at[w] \in {"save", "saveLast"} /\ TakesTurns(w)
        /\ UNCHANGED <<events, overflow, closed, rows, unchangedCalls, accepted, orphaned, misled>>
    BY DEF Save
  <1>3. saved \in BOOLEAN /\ held[w] \subseteq Controls /\ batch[w] \subseteq Records
    BY DEF KInv, AuditTypeOK
  <1>4. /\ outbox' \subseteq Records /\ lost' \subseteq Records /\ faults' \in 0 .. MaxFaults
        /\ Safe' = Safe \union batch[w]
    BY <1>1, <1>2, <1>3, SaveTypes
  <1>5. PICK m : Recovers(w, m)
    <2>1. CASE at[w] = "save"
      BY <1>1, <1>3, <2>1, DrainsIs DEF Recovers
    <2>2. CASE at[w] # "save"
      <3>1. Drained(w, held[w], saved) /\ queue' = queue
        BY <1>1, <2>2
      <3>2. Rescued(w, held[w])
        BY <1>3, <3>1, DrainedIs
      <3> QED
        BY <3>1, <3>2, RecoversNothing
    <2> QED
      BY <2>1, <2>2
  <1>6. Lives(w) /\ Unaware \subseteq misled' /\ misled' = misled
    BY <1>2, TurnNotEnded DEF Lives
  <1>7. OwnRows(w) /\ events' \subseteq Records /\ misled' \subseteq Controls /\ orphaned' \subseteq Controls
    BY <1>2 DEF OwnRows, Others, KInv, AuditTypeOK
  <1> QED
    BY <1>2, <1>4, <1>5, <1>6, <1>7, RecoversKeeps DEF unchangedCalls

\* The writer has no record in hand when it ends at once.
LEMMA EndsRecovers ==
  ASSUME KInv, NEW w \in Writers, EndsWriter(w), UNCHANGED <<queue, batch, reply>>, batch[w] = {}
  PROVE  Recovers(w, 0)
  <1>1. batch' \in [Writers -> SUBSET Records] /\ Others(w, batch', batch)
    BY DEF Others, KInv, AuditTypeOK
  <1>2. Own(w) /\ EndedOrKept(w) /\ at'[w] = "absent" /\ held'[w] = {}
    BY <1>1, EndsIs
  <1>3. Rescued(w, held[w])
    BY <1>2 DEF Rescued, KInv, AuditTypeOK
  <1> QED
    BY <1>3, RecoversNothing

LEMMA SelectFailsKeeps ==
  ASSUME KInv, NEW w \in Writers, SelectFails(w)
  PROVE  KInv'
  <1>1. /\ at[w] = "select" /\ Turn(w) /\ Fails /\ rows' = [rows EXCEPT ![w] = {}] /\ TakesTurns(w)
        /\ UNCHANGED <<stores, overflow, closed, unchangedCalls, accepted, lost, misled>>
    BY DEF SelectFails
  <1>2. Lives(w) /\ Unaware \subseteq misled' /\ faults' \in 0 .. MaxFaults
    BY <1>1, TurnNotEnded, FaultTypes DEF Lives
  <1>3. batch[w] = {} /\ held[w] \subseteq Controls
    BY <1>1 DEF KInv, WriterOK, AuditTypeOK
  <1>4. PICK m : Recovers(w, m) /\ orphaned' \subseteq Controls
    <2>1. CASE rescuing[w]
      <3>1. EndsWriter(w) /\ UNCHANGED <<queue, batch, reply>> /\ orphaned' = orphaned \union held[w]
        BY <2>1 DEF SelectFails
      <3> QED
        BY <1>3, <3>1, EndsRecovers DEF KInv, AuditTypeOK
    <2>2. CASE ~rescuing[w]
      <3>1. Rescues(w) /\ orphaned' = orphaned
        BY <2>2 DEF SelectFails
      <3> QED
        BY <3>1, RescuesIs DEF KInv, AuditTypeOK
    <2> QED
      BY <2>1, <2>2
  <1>5. /\ OwnRows(w) /\ events' \subseteq Records /\ outbox' \subseteq Records
        /\ lost' \subseteq Records /\ misled' \subseteq Controls /\ Safe' = Safe
    BY <1>1 DEF OwnRows, Others, KInv, AuditTypeOK, stores, Safe
  <1> QED
    BY <1>1, <1>2, <1>3, <1>4, <1>5, RecoversKeeps DEF unchangedCalls, stores

LEMMA CancelledKeeps ==
  ASSUME KInv, NEW w \in Writers, Cancelled(w)
  PROVE  KInv'
  <1>1. /\ at[w] \in {"select", "insert", "delete", "get", "write", "spool"} /\ Fails
        /\ misled' = misled \union Unaware /\ rows' = [rows EXCEPT ![w] = {}] /\ TakesTurns(w)
        /\ UNCHANGED <<overflow, closed, unchangedCalls, accepted, lost, orphaned>>
    BY DEF Cancelled
  <1>2. batch[w] \subseteq Records /\ rows[w] \subseteq Records /\ (at[w] = "delete" => rows[w] \subseteq events)
    BY DEF KInv, AuditTypeOK, WriterOK
  <1>3. /\ events \subseteq events' /\ events' \subseteq Records /\ outbox' \subseteq Records
        /\ Safe \subseteq Safe'
    BY <1>1, <1>2 DEF Cancelled, stores, Safe, KInv, AuditTypeOK
  <1>4. Lives(w) /\ Unaware \subseteq misled' /\ misled' \subseteq Controls /\ faults' \in 0 .. MaxFaults
    BY <1>1, FaultTypes DEF Lives, Unaware, KInv, AuditTypeOK
  <1>5. PICK m : Recovers(w, m) /\ batch[w] \subseteq batch'[w]
    <2>1. CASE EndsWriter(w) /\ UNCHANGED <<queue, batch, reply>> /\ batch[w] = {}
      BY <2>1, EndsRecovers
    <2>2. CASE Rescues(w)
      BY <2>2, RescuesIs
    <2> QED
      BY <2>1, <2>2 DEF Cancelled
  <1>6. OwnRows(w) /\ lost' \subseteq Records /\ orphaned' \subseteq Controls
    BY <1>1 DEF OwnRows, Others, KInv, AuditTypeOK
  <1> QED
    BY <1>1, <1>3, <1>4, <1>5, <1>6, RecoversKeeps DEF unchangedCalls

-------------------------------------------------------------------------------
(* The steps of records and calls                                          *)

HasPut(p, q, x) == p = Append(q, x)

LEMMA AppendPlaces ==
  ASSUME NEW S, NEW q \in Seq(S), NEW x \in S, NEW p, HasPut(p, q, x), NEW n \in DOMAIN p
  PROVE  /\ First(p, n - 1) = First(q, n - 1)
         /\ \/ p[n] = x /\ First(q, n - 1) = Items(q)
            \/ n \in DOMAIN q /\ p[n] = q[n]
  <1>1. /\ Len(q) \in Nat /\ DOMAIN q = 1 .. Len(q) /\ DOMAIN p = 1 .. Len(q) + 1
        /\ \A i \in 1 .. Len(q) : p[i] = q[i]
        /\ p[Len(q) + 1] = x
        /\ \A k \in 0 .. Len(q) : First(p, k) = First(q, k)
        /\ First(q, Len(q)) = Items(q)
    BY AppendItems DEF HasPut
  <1> DEFINE len == Len(q)
  <1>2. len \in Nat /\ n \in 1 .. len + 1
    BY <1>1
  <1>3. n - 1 \in 0 .. len /\ (n = len + 1 \/ n \in 1 .. len)
    BY <1>2
  <1>4. n = len + 1 => n - 1 = len
    BY <1>2
  <1> QED
    BY <1>1, <1>3, <1>4

\* What is put into the queue is behind everything a call in it was promised.
LEMMA QueueKeeps ==
  ASSUME KInv, NEW x, Holding \subseteq Holding',
         \/ queue' = queue
         \/ /\ queue' = Append(queue, x) /\ x \in Records \union Controls
            /\ x \in Controls => promised'[x] \subseteq Items(queue) \union Holding' /\ place'[x] \in Late,
         \A c \in Controls : promised'[c] = promised[c] \/ place[c] = "idle",
         \A c \in Controls : place[c] \in Late => place'[c] \in Late
  PROVE  /\ queue' \in Seq(Records \union Controls)
         /\ Items(queue') = Items(queue) \union (IF queue' = queue THEN {} ELSE {x})
         /\ \A n \in DOMAIN queue' : queue'[n] \in Controls =>
              /\ promised'[queue'[n]] \subseteq First(queue', n - 1) \union Holding'
              /\ place'[queue'[n]] \in Late
  <1>1. queue \in Seq(Records \union Controls)
    BY DEF KInv, AuditTypeOK
  <1>2. \A n \in DOMAIN queue : queue[n] \in Controls =>
          /\ promised'[queue[n]] \subseteq First(queue, n - 1) \union Holding'
          /\ place'[queue[n]] \in Late
    BY DEF KInv, PromiseOK, BegunOK, Holding, Late
  <1>3. CASE queue' = queue
    BY <1>1, <1>2, <1>3 DEF First
  <1>4. CASE queue' # queue
    <2>1. /\ queue' = Append(queue, x) /\ x \in Records \union Controls
          /\ x \in Controls => promised'[x] \subseteq Items(queue) \union Holding' /\ place'[x] \in Late
      BY <1>4
    <2>2. /\ Append(queue, x) \in Seq(Records \union Controls) /\ Len(queue) \in Nat
          /\ DOMAIN queue = 1 .. Len(queue) /\ DOMAIN Append(queue, x) = 1 .. Len(queue) + 1
          /\ \A i \in 1 .. Len(queue) : Append(queue, x)[i] = queue[i]
          /\ Append(queue, x)[Len(queue) + 1] = x
          /\ Items(Append(queue, x)) = Items(queue) \union {x}
          /\ \A n \in 0 .. Len(queue) : First(Append(queue, x), n) = First(queue, n)
          /\ First(queue, Len(queue)) = Items(queue)
      BY <1>1, <2>1, AppendItems
    <2>3. ASSUME NEW n \in DOMAIN queue', queue'[n] \in Controls
          PROVE  /\ promised'[queue'[n]] \subseteq First(queue', n - 1) \union Holding'
                 /\ place'[queue'[n]] \in Late
      <3>1. /\ First(queue', n - 1) = First(queue, n - 1)
            /\ \/ queue'[n] = x /\ First(queue, n - 1) = Items(queue)
               \/ n \in DOMAIN queue /\ queue'[n] = queue[n]
        <4> DEFINE p == queue'
                   S == Records \union Controls
        <4>1. queue \in Seq(S) /\ x \in S /\ HasPut(p, queue, x) /\ n \in DOMAIN p
          BY <1>1, <2>1 DEF HasPut
        <4> HIDE DEF p, S
        <4>2. /\ First(p, n - 1) = First(queue, n - 1)
              /\ \/ p[n] = x /\ First(queue, n - 1) = Items(queue)
                 \/ n \in DOMAIN queue /\ p[n] = queue[n]
          BY <4>1, AppendPlaces
        <4> QED
          BY <4>2 DEF p
      <3>2. CASE queue'[n] = x /\ First(queue, n - 1) = Items(queue)
        BY <2>1, <2>3, <3>1, <3>2
      <3>3. CASE n \in DOMAIN queue /\ queue'[n] = queue[n]
        BY <1>2, <2>3, <3>1, <3>3
      <3> QED
        BY <3>1, <3>2, <3>3
    <2> QED
      BY <1>4, <2>1, <2>2, <2>3
  <1> QED
    BY <1>3, <1>4

\* The line a call leaves, before it looks for the writer.
LineIs(line) ==
    /\ line \in Seq(Controls \union Writers)
    /\ \A w \in Writers : Once(line, w) /\ (at[w] \notin Locking => w \notin Items(line))
    /\ \A c \in Controls : place'[c] = "count" => c \in Items(line)
    /\ \A c \in Unaware' \ misled : \A w \in Writers :
          Lives(w) => at[w] = "select" /\ Ahead(line, c, w)

LEMMA LineAside ==
  ASSUME KInv, \A c \in Controls : place'[c] = "count" => place[c] = "count" /\ seen'[c] = seen[c]
  PROVE  LineIs(turns)
  <1>1. Unaware' \subseteq Unaware
    BY DEF Unaware
  <1> QED
    BY <1>1 DEF KInv, AuditTypeOK, LineOK, EndedOK, LineIs

\* What there is of writers after a call has looked for one.
Ensured(line) == EnsureWriter(line) \/ (at' = at /\ turns' = line)

LEMMA EnsureIs ==
  ASSUME NEW line, EnsureWriter(line)
  PROVE  \/ task \in Writers /\ turns' = line /\ UNCHANGED <<task, at>>
         \/ /\ task \notin Writers
            /\ \E w \in Writers : /\ at[w] = "absent" /\ task' = w
                                  /\ at' = [at EXCEPT ![w] = "select"] /\ turns' = Append(line, w)
  <1>1. CASE task \in Writers
    BY <1>1 DEF EnsureWriter
  <1>2. CASE task \notin Writers
    <2>1. /\ \E w \in Writers : ~Lives(w)
          /\ task' = NewTask /\ at' = [at EXCEPT ![NewTask] = "select"] /\ turns' = Append(line, NewTask)
      BY <1>2 DEF EnsureWriter
    <2>2. NewTask \in Writers /\ at[NewTask] = "absent"
      BY <2>1 DEF NewTask, Lives
    <2> QED
      BY <1>2, <2>1, <2>2
  <1> QED
    BY <1>1, <1>2

\* A new writer asks for the lock behind those who wait.
LEMMA EnsureKeeps ==
  ASSUME KInv, NEW line, LineIs(line), Ensured(line), misled \subseteq misled', UNCHANGED <<batch, rows, events>>
  PROVE  /\ turns' \in Seq(Controls \union Writers) /\ at' \in [Writers -> Doings]
         /\ LineOK' /\ EndedOK' /\ WriterOK'
  <1> DEFINE S == Controls \union Writers
  <1>1. CASE at' = at /\ turns' = line
    <2>1. LineOK'
      BY <1>1 DEF LineIs, LineOK
    <2>2. EndedOK'
      BY <1>1 DEF LineIs, EndedOK, Lives
    <2> QED
      BY <1>1, <2>1, <2>2 DEF LineIs, KInv, AuditTypeOK, WriterOK
  <1>2. CASE ~(at' = at /\ turns' = line)
    <2>1. PICK w \in Writers : at[w] = "absent" /\ at' = [at EXCEPT ![w] = "select"] /\ turns' = Append(line, w)
      BY <1>2, EnsureIs DEF Ensured
    <2>2. at' \in [Writers -> Doings] /\ at'[w] = "select" /\ \A v \in Writers \ {w} : at'[v] = at[v]
      BY <2>1 DEF KInv, AuditTypeOK, Doings
    <2>3. line \in Seq(S) /\ w \in S
      BY DEF LineIs
    <2> HIDE DEF S
    <2>4. /\ turns' \in Seq(S) /\ Len(line) \in Nat
          /\ DOMAIN line = 1 .. Len(line) /\ DOMAIN turns' = 1 .. Len(line) + 1
          /\ \A i \in 1 .. Len(line) : turns'[i] = line[i]
          /\ turns'[Len(line) + 1] = w
          /\ Items(turns') = Items(line) \union {w}
          /\ \A n \in 0 .. Len(line) : First(turns', n) = First(line, n)
      BY <2>1, <2>3, AppendItems
    <2>5. w \notin Items(line) /\ \A v \in Writers : Once(line, v)
      BY <2>1 DEF LineIs, Locking
    <2>6. LineOK'
      <3>1. Once(turns', w)
        <4>1. \A i \in DOMAIN turns' : turns'[i] = w => i = Len(line) + 1
          BY <2>4, <2>5 DEF Items
        <4> QED
          BY <4>1 DEF Once
      <3>2. \A v \in Writers \ {w} : Once(turns', v)
        <4>1. \A v \in Writers \ {w} : \A i \in DOMAIN turns' : turns'[i] = v => i \in DOMAIN line /\ line[i] = v
          BY <2>4
        <4> QED
          BY <2>5, <4>1 DEF Once
      <3>3. \A v \in Writers : at'[v] \notin Locking => v \notin Items(turns')
        BY <2>2, <2>4 DEF LineIs, Locking
      <3>4. \A c \in Controls : place'[c] = "count" => c \in Items(turns')
        BY <2>4 DEF LineIs
      <3> QED
        BY <3>1, <3>2, <3>3, <3>4 DEF LineOK
    <2>7. EndedOK'
      <3> SUFFICES ASSUME NEW c \in Unaware' \ misled', NEW v \in Writers, Lives(v)'
                   PROVE  at'[v] = "select" /\ Ahead(turns', c, v)
        BY DEF EndedOK
      <3>1. ASSUME NEW i \in DOMAIN line
            PROVE  i \in DOMAIN turns' /\ turns'[i] = line[i] /\ First(turns', i) = First(line, i)
        BY <2>4
      <3>2. CASE v # w
        <4>1. at[v] = "select" /\ Ahead(line, c, v)
          BY <2>2, <3>2 DEF LineIs, Lives
        <4> QED
          BY <2>2, <3>1, <3>2, <4>1 DEF Ahead
      <3>3. CASE v = w
        <4>1. c \in Items(line)
          BY DEF LineIs, Unaware
        <4>2. PICK i \in DOMAIN line : line[i] = c
          BY <4>1 DEF Items
        <4>3. \A j \in 1 .. i : j \in DOMAIN line
          BY <2>4
        <4>4. w \notin First(line, i)
          BY <2>5, <4>3 DEF First, Items
        <4> QED
          BY <2>2, <3>1, <3>3, <4>2, <4>4 DEF Ahead
      <3> QED
        BY <3>2, <3>3
    <2>8. WriterOK'
      BY <2>1, <2>2 DEF KInv, WriterOK
    <2> QED
      BY <2>2, <2>4, <2>6, <2>7, <2>8 DEF S
  <1> QED
    BY <1>1, <1>2

\* A writer is made only for calls that deal with no other, unless they were misled.
LEMMA OneKeeps ==
  ASSUME KInv, misled \subseteq misled', UnderWay' \subseteq UnderWay,
         (\E line : EnsureWriter(line)) \/ (at' = at /\ (task' = task \/ (task \notin Writers /\ task' = NoTask)))
  PROVE  OneWriter' /\ task' \in References
  <1>1. CASE \E line : EnsureWriter(line)
    <2>1. \/ task \in Writers /\ UNCHANGED <<task, at>>
          \/ task \notin Writers /\ \E w \in Writers : task' = w /\ at' = [at EXCEPT ![w] = "select"]
      BY <1>1, EnsureIs
    <2> SUFFICES ASSUME NEW c \in UnderWay' \ misled', NEW v \in Writers, Lives(v)'
                 PROVE  v = task'
      BY <2>1 DEF OneWriter, References
    <2>2. \A u \in Writers : Lives(u) => u = task
      BY DEF KInv, OneWriter
    <2>3. CASE UNCHANGED <<task, at>>
      BY <2>2, <2>3 DEF Lives
    <2>4. CASE task \notin Writers
      BY <2>1, <2>2, <2>4 DEF Lives, KInv, AuditTypeOK
    <2> QED
      BY <2>1, <2>3, <2>4
  <1>2. CASE at' = at /\ (task' = task \/ (task \notin Writers /\ task' = NoTask))
    BY <1>2 DEF KInv, OneWriter, AuditTypeOK, References, Lives
  <1> QED
    BY <1>1, <1>2

LEMMA MisleadsKeeps ==
  ASSUME KInv, NEW begun, begun \subseteq Controls, Misleads(begun)
  PROVE  OneWriter' /\ misled \subseteq misled' /\ misled' \subseteq Controls
  <1>1. UnderWay' \subseteq Controls
    BY DEF UnderWay
  <1>2. OneWriter'
    BY DEF Misleads, OneWriter
  <1> QED
    BY <1>1, <1>2 DEF Misleads, KInv, AuditTypeOK

LEMMA RecordKeeps ==
  ASSUME KInv, NEW r \in Records, Record(r)
  PROVE  KInv'
  <1>1. /\ ~closed /\ r \notin accepted /\ accepted' = accepted \union {r} /\ EnsureWriter(turns)
        /\ UNCHANGED <<stores, closed, hands, calls, orphaned, misled, faults>>
    BY DEF Record
  <1>2. /\ queue' = queue \/ queue' = Append(queue, r)
        /\ overflow \subseteq overflow' /\ overflow' \subseteq overflow \union {r}
        /\ lost \subseteq lost' /\ lost' \subseteq lost \union {r}
        /\ queue' = Append(queue, r) \/ r \in overflow' \/ r \in lost'
    BY DEF Record
  <1>3. /\ Holding \subseteq Holding' /\ Safe \subseteq Safe' /\ Safe' = events \union outbox \union lost'
        /\ InHand' = InHand
    BY <1>1, <1>2 DEF Holding, InHand, Safe, stores, hands
  <1>4. r \notin Controls
    BY AuditAssumption DEF Controls
  <1>5. /\ queue' \in Seq(Records \union Controls)
        /\ Items(queue') = Items(queue) \union (IF queue' = queue THEN {} ELSE {r})
        /\ \A n \in DOMAIN queue' : queue'[n] \in Controls =>
             /\ promised'[queue'[n]] \subseteq First(queue', n - 1) \union Holding'
             /\ place'[queue'[n]] \in Late
    <2>1. UNCHANGED <<promised, place>>
      BY <1>1 DEF calls
    <2>2. \/ queue' = queue
          \/ /\ queue' = Append(queue, r) /\ r \in Records \union Controls
             /\ r \in Controls => promised'[r] \subseteq Items(queue) \union Holding' /\ place'[r] \in Late
      BY <1>2, <1>4
    <2> QED
      BY <1>3, <2>1, <2>2, QueueKeeps
  <1>6. turns' \in Seq(Controls \union Writers) /\ at' \in [Writers -> Doings] /\ LineOK' /\ EndedOK' /\ WriterOK'
    <2>1. LineIs(turns)
      BY <1>1, LineAside DEF calls
    <2> QED
      BY <1>1, <2>1, EnsureKeeps DEF Ensured, hands, stores
  <1>7. OneWriter' /\ task' \in References
    BY <1>1, OneKeeps DEF calls, UnderWay
  <1>8. AuditTypeOK'
    BY <1>1, <1>2, <1>5, <1>6, <1>7 DEF KInv, AuditTypeOK, stores, hands, calls
  <1>9. NoneMissing'
    <2>1. accepted \subseteq Items(queue) \union overflow \union Holding
      BY DEF KInv, NoneMissing, InMemory, Items, Holding
    <2>2. r \in Items(queue') \union overflow' \union Holding'
      <3>1. CASE queue' = Append(queue, r)
        <4>1. Items(Append(queue, r)) = Items(queue) \union {r}
          BY AppendItems DEF KInv, AuditTypeOK
        <4> QED
          BY <3>1, <4>1
      <3> QED
        BY <1>2, <1>3, <3>1 DEF Holding
    <2> QED
      BY <1>1, <1>2, <1>3, <1>5, <2>1, <2>2 DEF NoneMissing, InMemory, Items, Holding
  <1>10. PromiseOK'
    <2>1. \A c \in Controls : r \notin promised[c]
      BY <1>1 DEF KInv, PromiseOK
    <2>2. UNCHANGED <<promised, place, reply, awaits, held, batch, misled>> /\ Held' = Held
      BY <1>1 DEF calls, hands, Held
    <2>3. \A c \in Controls : place[c] \in {"count", "put"} => promised[c] \subseteq Items(queue') \union Holding'
      BY <1>3, <1>5 DEF KInv, PromiseOK, Holding
    <2>4. \A c \in Held : promised[c] \subseteq Holding'
      BY <1>3 DEF KInv, PromiseOK, Holding
    <2>5. \A c \in Controls : Left(c) \subseteq Left(c)'
      BY <1>3, <2>2 DEF Left
    <2> QED
      BY <1>1, <1>2, <1>3, <1>5, <2>1, <2>2, <2>3, <2>4, <2>5 DEF KInv, PromiseOK, Holding
  <1>11. BegunOK'
    <2>1. Held' = Held
      BY <1>1 DEF hands, Held
    <2> QED
      BY <1>1, <1>5, <2>1 DEF KInv, BegunOK, calls
  <1>12. ClosedOK'
    BY <1>1 DEF KInv, ClosedOK, calls
  <1> QED
    BY <1>6, <1>7, <1>8, <1>9, <1>10, <1>11, <1>12 DEF KInv

LEMMA SpoolOverflowKeeps ==
  ASSUME KInv, NEW r \in Records, SpoolOverflow(r)
  PROVE  KInv'
  <1>1. /\ r \in overflow /\ overflow' = overflow \ {r}
        /\ Saves({r}) \/ Loses({r})
        /\ UNCHANGED <<events, turns, queue, closed, task, at, hands, calls, accepted, orphaned, misled>>
    BY DEF SpoolOverflow
  <1>2. /\ outbox' \subseteq Records /\ lost' \subseteq Records /\ faults' \in 0 .. MaxFaults
        /\ Safe' = Safe \union {r}
    BY <1>1, SaveTypes
  <1>3. AuditTypeOK'
    BY <1>1, <1>2 DEF KInv, AuditTypeOK, hands, calls
  <1>4. WriterOK' /\ OneWriter' /\ LineOK' /\ EndedOK'
    BY <1>1 DEF KInv, WriterOK, OneWriter, UnderWay, Lives, LineOK, EndedOK, Unaware, Ahead, Once,
       hands, calls, Items, First
  <1>5. BegunOK' /\ ClosedOK'
    BY <1>1 DEF KInv, BegunOK, ClosedOK, Held, hands, calls
  <1>6. NoneMissing' /\ InHand' = InHand
    BY <1>1, <1>2 DEF KInv, NoneMissing, InMemory, InHand, hands
  <1>7. PromiseOK'
    BY <1>1, <1>2, <1>6 DEF KInv, PromiseOK, Left, Held, hands, calls, First, Items
  <1> QED
    BY <1>3, <1>4, <1>5, <1>6, <1>7 DEF KInv

LEMMA AppendEventKeeps ==
  ASSUME KInv, AppendEvent
  PROVE  KInv'
  <1>1. /\ EnsureWriter(turns)
        /\ UNCHANGED <<stores, queue, overflow, closed, hands, calls, past>>
    BY DEF AppendEvent
  <1>2. turns' \in Seq(Controls \union Writers) /\ at' \in [Writers -> Doings] /\ LineOK' /\ EndedOK' /\ WriterOK'
    <2>1. LineIs(turns)
      BY <1>1, LineAside DEF calls
    <2> QED
      BY <1>1, <2>1, EnsureKeeps DEF Ensured, hands, stores, past
  <1>3. OneWriter' /\ task' \in References
    BY <1>1, OneKeeps DEF calls, past, UnderWay
  <1> USE DEF stores, hands, calls, past
  <1>4. AuditTypeOK'
    BY <1>1, <1>2, <1>3 DEF KInv, AuditTypeOK
  <1>5. Safe' = Safe /\ InMemory' = InMemory /\ InHand' = InHand /\ Held' = Held
    BY <1>1 DEF Safe, InMemory, InHand, Held
  <1>6. NoneMissing' /\ PromiseOK' /\ BegunOK' /\ ClosedOK'
    BY <1>1, <1>5 DEF KInv, NoneMissing, PromiseOK, Left, BegunOK, ClosedOK, Items, First
  <1> QED
    BY <1>2, <1>3, <1>4, <1>6 DEF KInv

\* What a call does besides to look for a writer.
LEMMA CallKeeps ==
  ASSUME KInv, AuditTypeOK', LineOK', EndedOK', OneWriter', WriterOK', ClosedOK',
         NEW c \in Controls,
         UNCHANGED <<stores, overflow, batch, held, reply, accepted, lost>>, misled \subseteq misled',
         \A d \in Controls \ {c} : place'[d] = place[d] /\ promised'[d] = promised[d] /\ awaits'[d] = awaits[d],
         place'[c] # "idle", place[c] \in Late => place'[c] \in Late,
         promised'[c] = promised[c] \/ (place[c] = "idle" /\ promised'[c] = accepted),
         \/ queue' = queue
         \/ queue' = Append(queue, c) /\ promised'[c] \subseteq Items(queue) \union Holding /\ place'[c] \in Late,
         place'[c] = "overflow" => promised'[c] \intersect overflow \subseteq awaits'[c],
         place'[c] \in {"count", "put"} => promised'[c] \subseteq Items(queue) \union Holding,
         place'[c] = "wait" => place[c] \notin {"last", "returned", "raised"},
         place'[c] \in {"last", "returned"} => promised'[c] \subseteq Left(c)'
  PROVE  KInv'
  <1>1. Holding' = Holding /\ Safe' = Safe /\ InHand' = InHand /\ Held' = Held
    BY DEF Holding, Safe, InHand, Held, stores
  <1>2. /\ Items(queue') = Items(queue) \union (IF queue' = queue THEN {} ELSE {c})
        /\ \A n \in DOMAIN queue' : queue'[n] \in Controls =>
             /\ promised'[queue'[n]] \subseteq First(queue', n - 1) \union Holding'
             /\ place'[queue'[n]] \in Late
    <2>1. \A d \in Controls : promised'[d] = promised[d] \/ place[d] = "idle"
      OBVIOUS
    <2>2. \A d \in Controls : place[d] \in Late => place'[d] \in Late
      OBVIOUS
    <2>3. \/ queue' = queue
          \/ /\ queue' = Append(queue, c) /\ c \in Records \union Controls
             /\ c \in Controls => promised'[c] \subseteq Items(queue) \union Holding' /\ place'[c] \in Late
      BY <1>1
    <2> QED
      BY <1>1, <2>1, <2>2, <2>3, QueueKeeps
  <1>3. NoneMissing'
    <2>1. accepted \subseteq Items(queue) \union overflow \union Holding
      BY DEF KInv, NoneMissing, InMemory, Items, Holding
    <2>2. accepted' \subseteq Items(queue') \union overflow' \union Holding'
      BY <1>1, <1>2, <2>1
    <2> QED
      BY <2>2 DEF NoneMissing, InMemory, Items, Holding
  <1>4. \A d \in Controls : reply[d] # "none" \/ d \in Held => place[d] \in Late /\ promised'[d] = promised[d]
    BY DEF KInv, BegunOK, Late
  <1>5. \A d \in Controls : Left(d) \subseteq Left(d)'
    BY <1>1 DEF Left
  <1>6. PromiseOK'
    <2>1. \A d \in Controls : promised'[d] \subseteq accepted
      BY DEF KInv, PromiseOK
    <2>2. \A d \in Controls : place'[d] = "overflow" => promised'[d] \intersect overflow \subseteq awaits'[d]
      BY DEF KInv, PromiseOK
    <2>3. \A d \in Controls : place'[d] \in {"count", "put"} => promised'[d] \subseteq Items(queue') \union Holding
      <3>1. \A d \in Controls : place[d] \in {"count", "put"} => promised[d] \subseteq Items(queue) \union Holding
        BY DEF KInv, PromiseOK, Holding
      <3> QED
        BY <1>2, <3>1
    <2>4. \A d \in Held : promised'[d] \subseteq Holding
      <3>1. Held \subseteq Controls
        BY DEF KInv, AuditTypeOK, Held
      <3>2. \A d \in Held : promised[d] \subseteq Holding
        BY DEF KInv, PromiseOK, Holding
      <3> QED
        BY <1>4, <3>1, <3>2
    <2>5. \A d \in Controls : place'[d] = "wait" /\ reply[d] = "done" => promised'[d] \subseteq Left(d)'
      <3> SUFFICES ASSUME NEW d \in Controls, place'[d] = "wait", reply[d] = "done"
                   PROVE  promised'[d] \subseteq Left(d)'
        OBVIOUS
      <3>1. place[d] = "wait" /\ promised'[d] = promised[d]
        BY <1>4 DEF Late
      <3>2. promised[d] \subseteq Left(d)
        BY <3>1 DEF KInv, PromiseOK
      <3> QED
        BY <1>5, <3>1, <3>2
    <2>6. \A d \in Controls : place'[d] \in {"last", "returned"} => promised'[d] \subseteq Left(d)'
      <3>1. \A d \in Controls : place[d] \in {"last", "returned"} => promised[d] \subseteq Left(d)
        BY DEF KInv, PromiseOK
      <3> QED
        BY <1>5, <3>1
    <2> QED
      BY <1>1, <1>2, <2>1, <2>2, <2>3, <2>4, <2>5, <2>6 DEF PromiseOK, Holding
  <1>7. BegunOK'
    BY <1>1, <1>2, <1>4 DEF BegunOK
  <1> QED
    BY <1>3, <1>6, <1>7 DEF KInv

\* Where a call has moved to.
LEMMA MovedTo ==
  ASSUME KInv, NEW c \in Controls, NEW there, Moves(c, there)
  PROVE  /\ place'[c] = there /\ \A d \in Controls \ {c} : place'[d] = place[d]
         /\ there \in Places => place' \in [Controls -> Places]
  BY DEF KInv, AuditTypeOK, Moves

LEMMA QueueTypes ==
  ASSUME KInv, NEW c \in Controls, queue' = queue \/ queue' = Append(queue, c)
  PROVE  queue' \in Seq(Records \union Controls)
  <1>1. queue \in Seq(Records \union Controls) /\ c \in Records \union Controls
    BY DEF KInv, AuditTypeOK
  <1>2. Append(queue, c) \in Seq(Records \union Controls)
    BY <1>1, AppendItems
  <1> QED
    BY <1>1, <1>2

LEMMA BeginKeeps ==
  ASSUME KInv, NEW c \in Controls, Begin(c)
  PROVE  KInv'
  <1>1. /\ place[c] = "idle" /\ Moves(c, "overflow")
        /\ c # Closer => UNCHANGED closed
        /\ c = Closer => closed' = TRUE
        /\ awaits' = [awaits EXCEPT ![c] = overflow]
        /\ promised' = [promised EXCEPT ![c] = accepted]
        /\ Misleads({c})
        /\ UNCHANGED <<stores, turns, queue, overflow, task, at, hands, seen, reply, accepted, lost,
                       orphaned, faults>>
    BY AuditAssumption DEF Begin
  <1> USE DEF stores, hands
  <1>2. /\ place'[c] = "overflow" /\ \A d \in Controls \ {c} : place'[d] = place[d]
        /\ place' \in [Controls -> Places]
    BY <1>1, MovedTo DEF Places
  <1>3. /\ promised'[c] = accepted /\ awaits'[c] = overflow
        /\ \A d \in Controls \ {c} : promised'[d] = promised[d] /\ awaits'[d] = awaits[d]
        /\ promised' \in [Controls -> SUBSET Records] /\ awaits' \in [Controls -> SUBSET Records]
    BY <1>1 DEF KInv, AuditTypeOK
  <1>4. OneWriter' /\ misled \subseteq misled' /\ misled' \subseteq Controls
    BY <1>1, MisleadsKeeps
  <1>5. turns' \in Seq(Controls \union Writers) /\ at' \in [Writers -> Doings] /\ LineOK' /\ EndedOK' /\ WriterOK'
    <2>1. LineIs(turns)
      BY <1>1, <1>2, LineAside
    <2> QED
      BY <1>1, <1>4, <2>1, EnsureKeeps DEF Ensured
  <1>6. AuditTypeOK' /\ ClosedOK'
    <2>1. closed' \in BOOLEAN
      BY <1>1 DEF KInv, AuditTypeOK
    <2>2. AuditTypeOK'
      BY <1>1, <1>2, <1>3, <1>4, <1>5, <2>1 DEF KInv, AuditTypeOK
    <2>3. Closer \in Controls
      BY DEF Controls
    <2> QED
      BY <1>1, <1>2, <1>3, <2>2, <2>3 DEF KInv, ClosedOK
  <1> QED
    BY <1>1, <1>2, <1>3, <1>4, <1>5, <1>6, CallKeeps DEF Late

LEMMA LookKeeps ==
  ASSUME KInv, NEW c \in Controls, Look(c)
  PROVE  KInv'
  <1>1. /\ place[c] = "overflow" /\ awaits[c] \intersect overflow = {} /\ Moves(c, "count")
        /\ awaits' = [awaits EXCEPT ![c] = {}]
        /\ seen' = [seen EXCEPT ![c] = task]
        /\ turns' = Append(turns, c)
        /\ UNCHANGED <<stores, queue, overflow, closed, task, at, hands, reply, promised, past>>
    BY DEF Look, Sees
  <1> USE DEF stores, hands, past
  <1>2. /\ place'[c] = "count" /\ \A d \in Controls \ {c} : place'[d] = place[d]
        /\ place' \in [Controls -> Places]
    BY <1>1, MovedTo DEF Places
  <1>3. /\ seen'[c] = task /\ \A d \in Controls \ {c} : awaits'[d] = awaits[d] /\ seen'[d] = seen[d]
        /\ awaits' \in [Controls -> SUBSET Records] /\ seen' \in [Controls -> References]
    BY <1>1 DEF KInv, AuditTypeOK
  <1>4. LineIs(turns')
    <2> DEFINE S == Controls \union Writers
    <2>1. turns \in Seq(S) /\ c \in S /\ c \notin Writers
      BY AuditAssumption DEF KInv, AuditTypeOK, Controls
    <2> HIDE DEF S
    <2>2. /\ turns' \in Seq(S) /\ Len(turns) \in Nat
          /\ DOMAIN turns = 1 .. Len(turns) /\ DOMAIN turns' = 1 .. Len(turns) + 1
          /\ \A i \in 1 .. Len(turns) : turns'[i] = turns[i]
          /\ turns'[Len(turns) + 1] = c
          /\ Items(turns') = Items(turns) \union {c}
          /\ \A n \in 0 .. Len(turns) : First(turns', n) = First(turns, n)
      BY <1>1, <2>1, AppendItems
    <2>3. /\ \A w \in Writers : at[w] \notin Locking => w \notin Items(turns')
          /\ \A d \in Controls : place'[d] = "count" => d \in Items(turns')
      BY <1>2, <2>1, <2>2 DEF KInv, LineOK
    <2>4. \A w \in Writers : Once(turns', w)
      <3>1. \A w \in Writers : \A i \in DOMAIN turns' : turns'[i] = w => i \in DOMAIN turns /\ turns[i] = w
        BY <2>1, <2>2
      <3> QED
        BY <3>1 DEF KInv, LineOK, Once
    <2>5. ASSUME NEW d \in Unaware' \ misled, NEW w \in Writers, Lives(w)
          PROVE  at[w] = "select" /\ Ahead(turns', d, w)
      <3>1. CASE d = c
        <4>1. c \in UnderWay \ misled /\ task \notin Writers
          BY <1>1, <1>3, <2>5, <3>1 DEF UnderWay, Unaware
        <4> QED
          BY <2>5, <4>1 DEF KInv, OneWriter
      <3>2. CASE d # c
        <4>1. d \in Unaware \ misled
          BY <1>2, <1>3, <2>5, <3>2 DEF Unaware
        <4>2. at[w] = "select" /\ Ahead(turns, d, w)
          BY <2>5, <4>1 DEF KInv, EndedOK
        <4>3. \A i \in DOMAIN turns :
                i \in DOMAIN turns' /\ turns'[i] = turns[i] /\ First(turns', i) = First(turns, i)
          BY <2>2
        <4> QED
          BY <4>2, <4>3 DEF Ahead
      <3> QED
        BY <3>1, <3>2
    <2> QED
      BY <2>2, <2>3, <2>4, <2>5 DEF LineIs, S
  <1>5. turns' \in Seq(Controls \union Writers) /\ LineOK' /\ EndedOK' /\ WriterOK'
    BY <1>1, <1>4, EnsureKeeps DEF Ensured
  <1>6. OneWriter'
    <2>1. UnderWay' = UnderWay
      BY <1>1, <1>2 DEF UnderWay
    <2> QED
      BY <1>1, <2>1 DEF KInv, OneWriter, Lives
  <1>7. AuditTypeOK' /\ ClosedOK'
    <2>1. AuditTypeOK'
      BY <1>1, <1>2, <1>3, <1>5 DEF KInv, AuditTypeOK
    <2>2. place[Closer] # "idle" <=> place'[Closer] # "idle"
      BY <1>1, <1>2 DEF Controls
    <2> QED
      BY <1>1, <2>1, <2>2 DEF KInv, ClosedOK
  <1>8. promised[c] \subseteq Items(queue) \union Holding
    BY <1>1 DEF KInv, PromiseOK, NoneMissing, InMemory, Items, Holding
  <1> QED
    BY <1>1, <1>2, <1>3, <1>5, <1>6, <1>7, <1>8, CallKeeps DEF Late

LEMMA DecideKeeps ==
  ASSUME KInv, NEW c \in Controls, Decide(c)
  PROVE  KInv'
  <1>1. /\ place[c] = "count" /\ turns # <<>> /\ Head(turns) = c
        /\ UNCHANGED <<stores, overflow, closed, hands, awaits, reply, promised, accepted, lost,
                       orphaned>>
    BY DEF Decide, Turn
  <1>2. Fails \/ UNCHANGED faults
    BY DEF Decide
  <1>3. Ensured(Tail(turns))
    BY DEF Decide, Ensured
  <1>4. PICK there \in {"returned", "raised", "wait", "put"}, t \in {NoTask, task'} :
          /\ Moves(c, there) /\ seen' = [seen EXCEPT ![c] = t]
          /\ there = "returned" => NothingPending(c)
          /\ queue' = queue \/ (queue' = Append(queue, c) /\ there = "wait")
    BY DEF Decide, PutControl, Sees
  <1> USE DEF stores, hands
  <1>5. /\ place'[c] = there /\ \A d \in Controls \ {c} : place'[d] = place[d]
        /\ place' \in [Controls -> Places]
    BY <1>4, MovedTo DEF Places
  <1>6. OneWriter' /\ misled \subseteq misled' /\ misled' \subseteq Controls /\ task' \in References
    <2>1. CASE Misleads({}) /\ task' = IF seen[c] = Done THEN NoTask ELSE task
      BY <2>1, MisleadsKeeps DEF KInv, AuditTypeOK, References
    <2>2. CASE misled' = misled /\ (EnsureWriter(Tail(turns)) \/ UNCHANGED <<task, at>>)
      <3>1. UnderWay' \subseteq UnderWay
        BY <1>1, <1>5 DEF UnderWay
      <3>2. (\E line : EnsureWriter(line)) \/ (at' = at /\ task' = task)
        BY <2>2
      <3> QED
        BY <2>2, <3>1, <3>2, OneKeeps DEF KInv, AuditTypeOK
    <2> QED
      BY <2>1, <2>2 DEF Decide
  <1>7. seen' \in [Controls -> References] /\ \A d \in Controls \ {c} : seen'[d] = seen[d]
    BY <1>4, <1>6 DEF KInv, AuditTypeOK, References
  <1>8. LineIs(Tail(turns))
    <2> DEFINE S == Controls \union Writers
               line == Tail(turns)
    <2>1. turns \in Seq(S)
      BY DEF KInv, AuditTypeOK
    <2> HIDE DEF S
    <2>2. /\ turns[1] = c /\ line \in Seq(S) /\ Len(turns) \in Nat \ {0}
          /\ DOMAIN turns = 1 .. Len(turns) /\ DOMAIN line = 1 .. Len(turns) - 1
          /\ \A i \in 1 .. Len(turns) - 1 : line[i] = turns[i + 1]
          /\ Items(line) \subseteq Items(turns) /\ Items(turns) \subseteq Items(line) \union {c}
          /\ \A n \in 1 .. Len(turns) : First(line, n - 1) \subseteq First(turns, n)
      BY <1>1, <2>1, TailItems
    <2> HIDE DEF line
    <2>3. /\ \A w \in Writers : at[w] \notin Locking => w \notin Items(line)
          /\ \A d \in Controls : place'[d] = "count" => d \in Items(line)
      BY <1>5, <2>2 DEF KInv, LineOK
    <2>4. ASSUME NEW w \in Writers
          PROVE  Once(line, w)
      <3>1. \A i \in DOMAIN line : i + 1 \in DOMAIN turns /\ turns[i + 1] = line[i]
        BY <2>2
      <3>2. \A i, j \in DOMAIN line : line[i] = w /\ line[j] = w => i + 1 = j + 1
        BY <3>1 DEF KInv, LineOK, Once
      <3> QED
        BY <2>2, <3>2 DEF Once
    <2>5. ASSUME NEW d \in Unaware' \ misled, NEW w \in Writers, Lives(w)
          PROVE  at[w] = "select" /\ Ahead(line, d, w)
      <3>1. d \in Unaware \ misled /\ d # c
        BY <1>5, <1>7, <2>5 DEF Unaware
      <3>2. at[w] = "select" /\ Ahead(turns, d, w)
        BY <2>5, <3>1 DEF KInv, EndedOK
      <3>3. PICK i \in DOMAIN turns : turns[i] = d /\ w \notin First(turns, i)
        BY <3>2 DEF Ahead
      <3>4. i # 1
        BY <2>2, <3>1, <3>3
      <3>5. i - 1 \in DOMAIN line /\ line[i - 1] = turns[i] /\ First(line, i - 1) \subseteq First(turns, i)
        BY <2>2, <3>4
      <3> QED
        BY <3>2, <3>3, <3>5 DEF Ahead
    <2> QED
      BY <2>2, <2>3, <2>4, <2>5 DEF LineIs, S, line
  <1>9. turns' \in Seq(Controls \union Writers) /\ at' \in [Writers -> Doings] /\ LineOK' /\ EndedOK' /\ WriterOK'
    BY <1>1, <1>3, <1>6, <1>8, EnsureKeeps
  <1>10. AuditTypeOK' /\ ClosedOK'
    <2>1. faults' \in 0 .. MaxFaults /\ queue' \in Seq(Records \union Controls)
      BY <1>2, <1>4, FaultTypes, QueueTypes
    <2>2. AuditTypeOK'
      BY <1>1, <1>5, <1>6, <1>7, <1>9, <2>1 DEF KInv, AuditTypeOK
    <2>3. place[Closer] # "idle" <=> place'[Closer] # "idle"
      BY <1>1, <1>5 DEF Controls
    <2> QED
      BY <1>1, <2>2, <2>3 DEF KInv, ClosedOK
  <1>11. promised[c] \subseteq Items(queue) \union Holding
    BY <1>1 DEF KInv, PromiseOK, Holding
  <1>12. there = "returned" => promised[c] \subseteq Left(c)'
    <2> SUFFICES ASSUME there = "returned"
                 PROVE  promised[c] \subseteq Left(c)'
      OBVIOUS
    <2>1. Items(queue) = {} /\ c \in Unaware
      BY <1>1, <1>4 DEF NothingPending, Items, Unaware
    <2>2. InHand' = InHand /\ Safe' = Safe
      BY <1>1 DEF InHand, Safe
    <2>3. c \notin misled => InHand = {}
      <3> SUFFICES ASSUME c \notin misled, NEW w \in Writers
                   PROVE  batch[w] = {}
        BY DEF InHand
      <3>1. at[w] \in {"absent", "select"}
        BY <2>1 DEF KInv, EndedOK, Lives
      <3> QED
        BY <3>1 DEF KInv, WriterOK
    <2> QED
      BY <1>6, <1>11, <2>1, <2>2, <2>3 DEF Left, Holding
  <1> QED
    BY <1>1, <1>4, <1>5, <1>6, <1>9, <1>10, <1>11, <1>12, CallKeeps DEF Late

\* A call that does not wait for the lock moves on.
LEMMA CallAside ==
  ASSUME KInv, NEW c \in Controls, NEW there \in {"put", "wait", "last", "returned", "raised"},
         place[c] \notin {"overflow", "count"}, place[c] # "idle" \/ c = Stop,
         place'[c] = there, \A d \in Controls \ {c} : place'[d] = place[d],
         place' \in [Controls -> Places],
         place[c] \in Late => there \in Late,
         NEW t \in {NoTask, task'}, seen' = [seen EXCEPT ![c] = t] \/ seen' = seen,
         Ensured(turns), OneWriter', misled \subseteq misled', misled' \subseteq Controls, task' \in References,
         UNCHANGED <<stores, overflow, closed, hands, awaits, reply, accepted, lost, orphaned, faults>>,
         \/ queue' = queue
         \/ queue' = Append(queue, c) /\ promised'[c] \subseteq Items(queue) \union Holding /\ there = "wait",
         promised' = promised \/ (place[c] = "idle" /\ promised' = [promised EXCEPT ![c] = accepted]),
         there = "put" => promised'[c] \subseteq Items(queue) \union Holding,
         there = "wait" => place[c] \notin {"last", "returned", "raised"},
         there \in {"last", "returned"} => promised'[c] \subseteq Left(c)'
  PROVE  KInv'
  <1> USE DEF stores, hands
  <1>1. seen' \in [Controls -> References] /\ \A d \in Controls \ {c} : seen'[d] = seen[d]
    BY DEF KInv, AuditTypeOK, References
  <1>2. turns' \in Seq(Controls \union Writers) /\ at' \in [Writers -> Doings] /\ LineOK' /\ EndedOK' /\ WriterOK'
    <2>1. LineIs(turns)
      BY <1>1, LineAside
    <2> QED
      BY <2>1, EnsureKeeps
  <1>3. /\ promised' \in [Controls -> SUBSET Records]
        /\ \A d \in Controls \ {c} : promised'[d] = promised[d]
        /\ promised'[c] = promised[c] \/ (place[c] = "idle" /\ promised'[c] = accepted)
    BY DEF KInv, AuditTypeOK
  <1>4. AuditTypeOK' /\ ClosedOK'
    <2>1. queue' \in Seq(Records \union Controls)
      BY QueueTypes
    <2>2. AuditTypeOK'
      BY <1>1, <1>2, <1>3, <2>1 DEF KInv, AuditTypeOK
    <2>3. /\ Closer \in Controls /\ Closer # Stop
      BY AuditAssumption DEF Controls
    <2> QED
      BY <1>3, <2>2, <2>3 DEF KInv, ClosedOK
  <1> QED
    BY <1>2, <1>3, <1>4, CallKeeps DEF Late

LEMMA BeginStopKeeps ==
  ASSUME KInv, BeginStop
  PROVE  KInv'
  <1>1. /\ place[Closer] = "returned" /\ place[Stop] = "idle"
        /\ promised' = [promised EXCEPT ![Stop] = accepted]
        /\ Misleads({Stop})
        /\ UNCHANGED <<stores, turns, overflow, closed, at, hands, awaits, reply, accepted, lost,
                       orphaned, faults>>
    BY DEF BeginStop
  <1>2. Closer \in Controls /\ Stop \in Controls
    BY DEF Controls
  <1>3. PICK there \in {"put", "wait", "returned"}, t \in {NoTask, task'} :
          /\ Moves(Stop, there)
          /\ there = "returned" => task' = NoTask
          /\ seen' = [seen EXCEPT ![Stop] = t] \/ seen' = seen
          /\ queue' = queue \/ (queue' = Append(queue, Stop) /\ there = "wait")
    BY DEF BeginStop, PutControl, Sees
  <1>4. /\ place'[Stop] = there /\ \A d \in Controls \ {Stop} : place'[d] = place[d]
        /\ place' \in [Controls -> Places]
    BY <1>2, <1>3, MovedTo DEF Places
  <1>5. promised'[Stop] = accepted
    BY <1>1, <1>2 DEF KInv, AuditTypeOK
  <1>6. accepted \subseteq Holding
    BY <1>1, <1>2 DEF KInv, ClosedOK, PromiseOK, Left, Holding
  <1>7. OneWriter' /\ misled \subseteq misled' /\ misled' \subseteq Controls
    BY <1>1, <1>2, MisleadsKeeps
  <1>8. task' \in References
    BY DEF BeginStop, KInv, AuditTypeOK, References
  <1>9. there = "returned" => accepted \subseteq Left(Stop)'
    <2> SUFFICES ASSUME there = "returned", Stop \notin misled'
                 PROVE  accepted \subseteq Safe'
      <3>1. InHand' = InHand /\ Safe' = Safe
        BY <1>1 DEF InHand, Safe, hands, stores
      <3> QED
        BY <1>6, <3>1 DEF Left, Holding
    <2>1. \A w \in Writers : ~Lives(w)
      <3>1. \A w \in Writers : ~(Lives(w)')
        BY <1>1, <1>3, AuditAssumption DEF Misleads
      <3> QED
        BY <1>1, <3>1 DEF Lives
    <2>2. InHand = {}
      BY <2>1 DEF InHand, Lives, KInv, WriterOK
    <2> QED
      BY <1>1, <1>6, <2>2 DEF Holding, Safe, stores
  <1> QED
    BY <1>1, <1>2, <1>3, <1>4, <1>5, <1>6, <1>7, <1>8, <1>9, CallAside DEF Ensured, Late

LEMMA PutKeeps ==
  ASSUME KInv, NEW c \in Controls, Put(c)
  PROVE  KInv'
  <1>1. /\ place[c] = "put" /\ queue' = Append(queue, c) /\ Moves(c, "wait") /\ EnsureWriter(turns)
        /\ seen' = [seen EXCEPT ![c] = task']
        /\ UNCHANGED <<stores, overflow, closed, hands, awaits, reply, promised, past>>
    BY DEF Put, PutControl, Sees
  <1>2. /\ place'[c] = "wait" /\ \A d \in Controls \ {c} : place'[d] = place[d]
        /\ place' \in [Controls -> Places]
    BY <1>1, MovedTo DEF Places
  <1>3. promised[c] \subseteq Items(queue) \union Holding
    BY <1>1 DEF KInv, PromiseOK, Holding
  <1>4. OneWriter' /\ task' \in References
    <2>1. UnderWay' \subseteq UnderWay
      BY <1>1, <1>2 DEF UnderWay
    <2> QED
      BY <1>1, <2>1, OneKeeps DEF past
  <1>5. misled' = misled /\ misled \subseteq Controls
    BY <1>1 DEF past, KInv, AuditTypeOK
  <1> QED
    BY <1>1, <1>2, <1>3, <1>4, <1>5, CallAside DEF Ensured, past, Late

LEMMA AnsweredKeeps ==
  ASSUME KInv, NEW c \in Controls, Answered(c)
  PROVE  KInv'
  <1>1. /\ place[c] = "wait"
        /\ UNCHANGED <<stores, turns, queue, overflow, closed, at, hands, awaits, reply, promised, past>>
    BY DEF Answered
  <1>2. PICK there \in {"last", "returned", "raised"}, t \in {NoTask, task'} :
          /\ Moves(c, there) /\ seen' = [seen EXCEPT ![c] = t]
          /\ there \in {"last", "returned"} => reply[c] = "done"
    BY DEF Answered, Sees
  <1>3. task' = task \/ (task \notin Writers /\ task' = NoTask)
    BY DEF Answered
  <1>4. /\ place'[c] = there /\ \A d \in Controls \ {c} : place'[d] = place[d]
        /\ place' \in [Controls -> Places]
    BY <1>2, MovedTo DEF Places
  <1>5. there \in {"last", "returned"} => promised[c] \subseteq Left(c)'
    <2>1. Left(c)' = Left(c)
      BY <1>1 DEF Left, InHand, Safe, hands, past, stores
    <2> QED
      BY <1>1, <1>2, <2>1 DEF KInv, PromiseOK
  <1>6. OneWriter' /\ task' \in References
    <2>1. UnderWay' \subseteq UnderWay
      BY <1>1, <1>4 DEF UnderWay
    <2> QED
      BY <1>1, <1>3, <2>1, OneKeeps DEF past
  <1>7. misled' = misled /\ misled \subseteq Controls
    BY <1>1 DEF past, KInv, AuditTypeOK
  <1> QED
    BY <1>1, <1>2, <1>4, <1>5, <1>6, <1>7, CallAside DEF Ensured, past, Late

LEMMA WatchWriterKeeps ==
  ASSUME KInv, NEW c \in Controls, WatchWriter(c)
  PROVE  KInv'
  <1>1. /\ place[c] = "wait"
        /\ UNCHANGED <<stores, queue, overflow, closed, hands, awaits, reply, promised, past>>
    BY DEF WatchWriter
  <1>2. \/ EnsureWriter(turns)
        \/ UNCHANGED <<at, turns>> /\ task \notin Writers /\ task' = NoTask
    BY DEF WatchWriter
  <1>3. PICK t \in {NoTask, task'} : seen' = [seen EXCEPT ![c] = t]
    BY DEF WatchWriter, Sees
  <1>4. Moves(c, "raised") \/ place' = place
    BY DEF WatchWriter
  <1>5. /\ place'[c] \in {"wait", "raised"} /\ \A d \in Controls \ {c} : place'[d] = place[d]
        /\ place' \in [Controls -> Places]
    BY <1>1, <1>4, MovedTo DEF KInv, AuditTypeOK, Places
  <1>6. OneWriter' /\ task' \in References
    <2>1. UnderWay' \subseteq UnderWay
      BY <1>1, <1>5 DEF UnderWay
    <2> QED
      BY <1>1, <1>2, <2>1, OneKeeps DEF past
  <1>7. misled' = misled /\ misled \subseteq Controls
    BY <1>1 DEF past, KInv, AuditTypeOK
  <1> QED
    BY <1>1, <1>2, <1>3, <1>5, <1>6, <1>7, CallAside DEF Ensured, past, Late

LEMMA LastWaitKeeps ==
  ASSUME KInv, LastWait
  PROVE  KInv'
  <1>1. /\ place[Stop] = "last" /\ task' = NoTask /\ Moves(Stop, "returned")
        /\ seen' = [seen EXCEPT ![Stop] = NoTask] /\ Misleads({})
        /\ UNCHANGED <<stores, turns, queue, overflow, closed, at, hands, awaits, reply, promised,
                       accepted, lost, orphaned, faults>>
    BY DEF LastWait, Sees
  <1>2. Stop \in Controls
    BY DEF Controls
  <1>3. /\ place'[Stop] = "returned" /\ \A d \in Controls \ {Stop} : place'[d] = place[d]
        /\ place' \in [Controls -> Places]
    BY <1>1, <1>2, MovedTo DEF Places
  <1>4. OneWriter' /\ misled \subseteq misled' /\ misled' \subseteq Controls
    BY <1>1, MisleadsKeeps
  <1>5. promised[Stop] \subseteq Left(Stop)'
    <2>1. Left(Stop) \subseteq Left(Stop)'
      BY <1>1, <1>4 DEF Left, InHand, Safe, hands, stores
    <2> QED
      BY <1>1, <1>2, <2>1 DEF KInv, PromiseOK
  <1>6. task' \in References
    BY <1>1 DEF References
  <1> QED
    BY <1>1, <1>2, <1>3, <1>4, <1>5, <1>6, CallAside DEF Ensured, Late

-------------------------------------------------------------------------------

LEMMA AuditInitKInv == AuditInit => KInv
  <1> SUFFICES ASSUME AuditInit PROVE KInv
    OBVIOUS
  <1>1. AuditTypeOK
    <2>1. /\ events \subseteq Records /\ outbox \subseteq Records /\ overflow \subseteq Records
          /\ accepted \subseteq Records /\ lost \subseteq Records
          /\ orphaned \subseteq Controls /\ misled \subseteq Controls
          /\ turns \in Seq(Controls \union Writers) /\ queue \in Seq(Records \union Controls)
      BY DEF AuditInit
    <2>2. /\ place \in [Controls -> Places]
          /\ awaits \in [Controls -> SUBSET Records] /\ promised \in [Controls -> SUBSET Records]
          /\ seen \in [Controls -> References]
          /\ reply \in [Controls -> {"none", "done", "failed"}]
      BY DEF AuditInit, Places, References
    <2>3. faults \in 0 .. MaxFaults
      BY AuditAssumption DEF AuditInit
    <2>4. /\ closed \in BOOLEAN /\ task \in References /\ at \in [Writers -> Doings]
          /\ rescuing \in [Writers -> BOOLEAN] /\ durable \in [Writers -> BOOLEAN]
          /\ batch \in [Writers -> SUBSET Records] /\ rows \in [Writers -> SUBSET Records]
          /\ held \in [Writers -> SUBSET Controls]
      BY DEF AuditInit, Doings, References
    <2> QED
      BY <2>1, <2>2, <2>3, <2>4 DEF AuditTypeOK
  <1>2. WriterOK /\ OneWriter /\ LineOK /\ EndedOK
    BY DEF AuditInit, WriterOK, OneWriter, UnderWay, LineOK, EndedOK, Unaware, Once, Items
  <1>3. NoneMissing /\ PromiseOK /\ BegunOK
    BY DEF AuditInit, NoneMissing, PromiseOK, BegunOK, Held, Items
  <1>4. ClosedOK
    BY DEF AuditInit, ClosedOK, Controls
  <1> QED
    BY <1>1, <1>2, <1>3, <1>4 DEF KInv

LEMMA AuditStepKInv ==
  ASSUME KInv, [AuditNext]_auditVars
  PROVE  KInv'
  <1>1. CASE \E r \in Records : Record(r) \/ SpoolOverflow(r)
    BY <1>1, RecordKeeps, SpoolOverflowKeeps
  <1>2. CASE AppendEvent \/ BeginStop \/ LastWait
    BY <1>2, AppendEventKeeps, BeginStopKeeps, LastWaitKeeps
  <1>3. CASE \E w \in Writers : WriterStep(w)
    BY <1>3, GetKeeps, WriteKeeps, SpoolKeeps, SelectKeeps, InsertKeeps, DeleteRowsKeeps, SaveKeeps,
       SelectFailsKeeps DEF WriterStep
  <1>4. CASE \E w \in Writers : Cancelled(w)
    BY <1>4, CancelledKeeps
  <1>5. CASE \E c \in Controls : Begin(c) \/ CallStep(c)
    BY <1>5, BeginKeeps, LookKeeps, DecideKeeps, PutKeeps, AnsweredKeeps, WatchWriterKeeps DEF CallStep
  <1>6. CASE UNCHANGED auditVars
    <2> USE DEF auditVars, stores, hands, calls, past
    <2>1. AuditTypeOK' /\ WriterOK' /\ OneWriter' /\ LineOK' /\ EndedOK'
      BY <1>6 DEF KInv, AuditTypeOK, WriterOK, OneWriter, UnderWay, Lives, LineOK, EndedOK, Unaware,
         Ahead, Once, Items, First
    <2>2. NoneMissing' /\ PromiseOK' /\ BegunOK' /\ ClosedOK'
      BY <1>6 DEF KInv, NoneMissing, InMemory, InHand, Safe, PromiseOK, Left, Held, BegunOK, ClosedOK,
         Items, First
    <2> QED
      BY <2>1, <2>2 DEF KInv
  <1> QED
    BY <1>1, <1>2, <1>3, <1>4, <1>5, <1>6 DEF AuditNext

\* The invariant that the two theorems below rest on: where every record is, where
\* what a call was promised may still be, and that a call which was not misled deals
\* with the only writer there is (journal.py:143-568).
THEOREM AuditInductive == AuditSpec => []KInv
  BY AuditInitKInv, AuditStepKInv, PTL DEF AuditSpec

\* The queue, its writers and the calls are in their states whatever fails, and a
\* record is never in the place of a control (journal.py:143-568).
THEOREM AuditTypeCorrect == AuditSpec => []AuditTypeOK
  BY AuditInductive, PTL DEF KInv

\* A record that was accepted is in memory, stored, in the outbox or counted as lost;
\* and what was accepted before a flush is not in memory any more when it returns,
\* unless it was misled: a writer lived meanwhile that _audit_writer_task did not
\* name, or one was cancelled that it took for none (journal.py:154-381).
THEOREM KeptHolds == AuditSpec => []Kept
  <1>1. KInv => Kept
    <2> SUFFICES ASSUME KInv PROVE Kept
      OBVIOUS
    <2>1. \A c \in Controls \ misled : place[c] = "returned" => promised[c] \subseteq Safe
      BY DEF KInv, PromiseOK, Left
    <2> QED
      BY <2>1 DEF KInv, NoneMissing, Kept
  <1> QED
    BY <1>1, AuditInductive, PTL

===============================================================================
