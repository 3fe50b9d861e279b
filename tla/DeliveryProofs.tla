----------------------------- MODULE DeliveryProofs ----------------------------
(***************************************************************************)
(* Proofs about what must reach its end once, across failures and restarts.*)
(* AutonomyWake, for any set of events: the types, and that the sleeping   *)
(* consumer has no lost wake-up.  AutonomyDelivery, for any number of      *)
(* consumers, chunks, failures and troubles: an acknowledged batch has its *)
(* whole reply, no chunk is shown twice, a saved chunk is not posted again *)
(* by who has the claim, and the whole implements AutonomyReply.           *)
(* FocusTimer, for any set of timers and all bounds: a life of a timer is  *)
(* reminded of once, and only what is still being delivered is completed.  *)
(* TaskRouting, for any set of follow-ups: each has one fate.              *)
(***************************************************************************)
EXTENDS AutonomyWake, AutonomyDelivery, FocusTimer, TaskRouting,
        FiniteSetTheorems, WellFoundedInduction, TLAPS

-------------------------------------------------------------------------------
(* Waking up                                                               *)

\* A timeout is set only while the consumer sleeps, and an event exists from
\* its commit on.
TimerConsistent ==
    /\ timer # {} => pc = "asleep"
    /\ \A e \in Events : producer[e] = "idle" <=> event[e] = "new"

WakeInv == WakeTypeOK /\ TimerConsistent /\ NoLostWakeUp

\* What Become does to one event, and to the events of a state.
LEMMA BecomeFacts ==
  ASSUME NEW chosen, NEW state
  PROVE  /\ DOMAIN Become(chosen, state) = Events
         /\ \A e \in Events :
               Become(chosen, state)[e] = IF e \in chosen THEN state ELSE event[e]
  BY DEF Become

LEMMA WakeInitFact ==
  ASSUME WakeInit
  PROVE  WakeInv
  BY DEF WakeInit, WakeInv, WakeTypeOK, TimerConsistent, NoLostWakeUp, Live

\* The steps of producers and of time.
LEMMA ProducerStep ==
  ASSUME WakeInv, NEW e \in Events, Insert(e) \/ Notify(e) \/ Ripen(e)
  PROVE  WakeInv'
  <1> USE DEF WakeInv, WakeTypeOK, TimerConsistent, NoLostWakeUp, Live
  <1>1. CASE Insert(e)
    <2>1. /\ event' = Become({e}, "early") /\ event[e] = "new"
          /\ producer' = [producer EXCEPT ![e] = "committed"]
          /\ UNCHANGED <<wake, pc, timer, batch>>
      BY <1>1 DEF Insert
    <2>2. WakeTypeOK'
      BY <2>1, BecomeFacts DEF Become
    <2>3. TimerConsistent' /\ NoLostWakeUp'
      BY <2>1, BecomeFacts
    <2>4. QED
      BY <2>2, <2>3
  <1>2. CASE Notify(e)
    BY <1>2 DEF Notify
  <1>3. CASE Ripen(e)
    <2>1. /\ event' = Become({e}, "ready") /\ event[e] = "early"
          /\ UNCHANGED <<producer, wake, pc, timer, batch>>
      BY <1>3 DEF Ripen
    <2>2. WakeTypeOK'
      BY <2>1, BecomeFacts DEF Become
    <2>3. TimerConsistent' /\ NoLostWakeUp'
      BY <2>1, BecomeFacts
    <2>4. QED
      BY <2>2, <2>3
  <1>4. QED
    BY <1>1, <1>2, <1>3

\* The steps of _next_batch.
LEMMA ConsumeStep ==
  ASSUME WakeInv, Consume
  PROVE  WakeInv'
  <1> USE DEF WakeInv, WakeTypeOK, TimerConsistent, NoLostWakeUp, Live, Afterwards
  <1>1. CASE ClaimReady /\ Ready = {}
    BY <1>1 DEF ClaimReady
  <1>2. CASE ClaimReady /\ Ready # {}
    <2>1. PICK chosen \in (SUBSET Ready) \ {{}} :
            /\ event' = Become(chosen, "claimed") /\ batch' = chosen /\ pc' = "working"
      BY <1>2 DEF ClaimReady
    <2>2. /\ pc \in {"first", "second"} /\ UNCHANGED <<producer, wake, timer>>
          /\ timer = {} /\ batch = {}
      BY <1>2 DEF ClaimReady
    <2>3. chosen \subseteq Events /\ chosen # {} /\ \A e \in chosen : event[e] = "ready"
      <3>1. chosen \subseteq Ready /\ chosen # {}
        OBVIOUS
      <3>2. QED
        BY <3>1 DEF Ready
    <2>4. WakeTypeOK'
      BY <2>1, <2>2, <2>3, BecomeFacts DEF Become
    <2>5. TimerConsistent' /\ NoLostWakeUp'
      BY <2>1, <2>2, <2>3, BecomeFacts
    <2>6. QED
      BY <2>4, <2>5
  <1>3. CASE ClearWake
    BY <1>3 DEF ClearWake
  <1>4. CASE SecondsUntilReady
    BY <1>4 DEF SecondsUntilReady, Timed
  <1>5. CASE WaitReturns
    BY <1>5 DEF WaitReturns
  <1>6. CASE NotifySelf
    BY <1>6 DEF NotifySelf
  <1>7. QED
    BY <1>1, <1>2, <1>3, <1>4, <1>5, <1>6 DEF Consume

\* The end of a batch, and the end of the process.
LEMMA EndStep ==
  ASSUME WakeInv, SettleBatch \/ PutBack \/ Restart
  PROVE  WakeInv'
  <1> USE DEF WakeInv, WakeTypeOK, TimerConsistent, NoLostWakeUp, Live
  <1>1. PICK state \in {"settled", "early"} : event' = Become(batch, state)
    BY DEF SettleBatch, PutBack, Restart
  <1>2. /\ batch' = {} /\ pc' \in {"first", "rescheduled"} /\ timer' = {}
        /\ wake' \in BOOLEAN
        /\ producer' \in [Events -> {"idle", "committed", "done"}]
        /\ \A e \in Events : producer'[e] = "idle" <=> producer[e] = "idle"
    BY DEF SettleBatch, PutBack, Restart
  <1>3. WakeTypeOK'
    BY <1>1, <1>2, BecomeFacts DEF Become
  <1>4. TimerConsistent' /\ NoLostWakeUp'
    BY <1>1, <1>2, BecomeFacts
  <1>5. QED
    BY <1>3, <1>4

\* The invariant holds throughout.
THEOREM WakeInductive == WakeSpec => []WakeInv
  <1>1. WakeInit => WakeInv
    BY WakeInitFact
  <1>2. WakeInv /\ [WakeNext]_wakeVars => WakeInv'
    <2>1. ASSUME WakeInv, UNCHANGED wakeVars
          PROVE  WakeInv'
      BY <2>1 DEF wakeVars, WakeInv, WakeTypeOK, TimerConsistent, NoLostWakeUp, Live
    <2>2. QED
      BY <2>1, ProducerStep, ConsumeStep, EndStep DEF WakeNext
  <1>3. QED
    BY <1>1, <1>2, PTL DEF WakeSpec

\* The consumer works on exactly the claimed events, and no timeout is for an
\* event that is gone.
THEOREM WakeTypeCorrect == WakeSpec => []WakeTypeOK
  <1>1. WakeInv => WakeTypeOK
    BY DEF WakeInv
  <1>2. QED
    BY <1>1, WakeInductive, PTL

\* The consumer never sleeps over an event: however commits, wake-ups, timeouts
\* and restarts interleave, a sleeping consumer without its flag set has a
\* timeout for every event whose producer is through.
THEOREM NoLostWakeUpHolds == WakeSpec => []NoLostWakeUp
  <1>1. WakeInv => NoLostWakeUp
    BY DEF WakeInv
  <1>2. QED
    BY <1>1, WakeInductive, PTL

-------------------------------------------------------------------------------
(* Delivery                                                                *)

\* The steps at which a consumer is past the look at the history, and those at which
\* it holds the records of its plan.
Posting == {"sending", "waiting", "marking"}
Holding == Delivering \union {"receipting", "noting"}

\* The batch is, or may be, acknowledged.
Complete == answer = "silent" \/ (ledger # {} /\ \A c \in Chunks : receipted[c])

\* The channel shows a chunk at most once, and nobody is about to post one that it
\* shows unless Discord remembers the nonce.
DiscordOK ==
    /\ visible \in [Chunks -> SUBSET Nat]
    /\ \A c \in Chunks : \A i, j \in visible[c] : i = j
    /\ \A c \in remembered : made[c] > 0
    /\ \A r \in requests : visible[r[2]] # {} => r[2] \in remembered

\* A chunk is posted after those before it, by a consumer that waits for it or has
\* given up, and never of a silent answer.
RequestsOK ==
    /\ \A r \in requests : r[1] # None => At(r[1], {"waiting"}) /\ work[r[1]].chunk = r[2]
    /\ \A r \in requests : \A d \in 1 .. r[2] - 1 : made[d] > 0
    /\ \A c \in Chunks : made[c] > 0 => \A d \in 1 .. c - 1 : made[d] > 0
    /\ answer # "text" => requests = {} /\ \A c \in Chunks : made[c] = 0

\* There are receipts only when all chunks are saved, and all are the same.
LedgerOK ==
    /\ \A c \in Chunks : saved[c] <= made[c]
    /\ \A r \in ledger : r = saved
    /\ ledger # {} => \A c \in Chunks : saved[c] # 0
    /\ \A c \in Chunks : receipted[c] => ledger # {}
    /\ status = "processed" => Complete
    /\ status = "live" => attempts <= MaxFailures

\* What the record of a consumer says of the rows and of Discord.
RecordOK(w) ==
    /\ \A c \in Chunks : work[w].ids[c] <= made[c]
    /\ At(w, Posting) => \A c \in Chunks :
          visible[c] # {} /\ c \notin remembered => c \in work[w].known \/ work[w].ids[c] # 0
    /\ At(w, Holding \union {"planning"}) => answer = "text"
    /\ At(w, Holding) =>
          /\ \A c \in work[w].known : work[w].ids[c] = saved[c] /\ saved[c] # 0
          /\ \A c \in Chunks \ work[w].pending : receipted[c]
    /\ At(w, {"asking", "planning", "reading"}) => work[w].chunk = 1
    /\ At(w, Posting) => 1 .. work[w].chunk - 1 \subseteq work[w].known
    /\ At(w, {"waiting"}) => work[w].chunk \notin work[w].known
    /\ At(w, {"marking"}) => work[w].ids[work[w].chunk] # 0
    /\ At(w, {"receipting", "noting"}) => work[w].known = Chunks
    /\ At(w, {"noting"}) => ledger # {} /\ work[w].pending # {}
    /\ At(w, {"acking"}) => Complete
    /\ At(w, {"ending"}) /\ work[w].verdict = "retry" => work[w].tries < MaxFailures

\* While a claim lasts nobody else writes: its owner knows of every saved chunk.
ClaimOK(w) ==
    owner = w =>
        /\ ~At(w, {"idle"}) => work[w].tries = attempts
        /\ At(w, Delivering) => \A c \in Chunks : saved[c] # 0 => c \in work[w].known

DInv ==
    /\ TypeOK /\ DiscordOK /\ RequestsOK /\ LedgerOK
    /\ \A w \in Consumers : RecordOK(w) /\ ClaimOK(w)

\* A set of numbers that has a member has a least one.
LEMMA LeastNatural ==
  ASSUME NEW S, S \subseteq Nat, S # {}
  PROVE  \E n \in S : \A m \in S : n <= m
  <1> DEFINE less == {p \in Nat \X Nat : p[1] < p[2]}
  <1>1. IsWellFoundedOn(less, Nat)
    BY NatLessThanWellFounded DEF OpToRel
  <1>2. \A x, y \in Nat : <<y, x>> \notin less => x <= y
    OBVIOUS
  <1> HIDE DEF less
  <1>3. PICK x \in S : \A y \in S : <<y, x>> \notin less
    BY <1>1, WFMin
  <1> QED
    BY <1>2, <1>3

\* Only w moves.
Moved(w) == work' \in [Consumers -> Work] /\ \A v \in Consumers \ {w} : work'[v] = work[v]

\* What no step takes back.
Onward ==
    /\ \A c \in Chunks : made[c] <= made'[c] /\ (saved'[c] = saved[c] \/ saved[c] = 0)
    /\ \A c \in Chunks : receipted[c] => receipted'[c]
    /\ ledger # {} => ledger' # {}
    /\ answer' = answer \/ answer = "none"

\* A batch that may be acknowledged stays so.
LEMMA CompleteStays ==
  ASSUME Onward, Complete
  PROVE  Complete'
  BY DEF Onward, Complete

\* A consumer that does not move.
LEMMA RecordStays ==
  ASSUME DInv, Onward, saved' \in [Chunks -> Nat], made \in [Chunks -> Nat], made' \in [Chunks -> Nat],
         NEW v \in Consumers, work'[v] = work[v],
         \A c \in Chunks : visible'[c] # {} /\ c \notin remembered' =>
            (visible[c] # {} /\ c \notin remembered) \/ ~At(v, Delivering)
  PROVE  RecordOK(v)'
  <1>1. RecordOK(v) /\ work[v] \in Work
    BY DEF DInv, TypeOK
  <1>2. Complete => Complete'
    BY CompleteStays
  <1>3. \A c \in Chunks : work'[v].ids[c] <= made'[c]
    <2>1. \A c \in Chunks : work[v].ids[c] \in Nat
      BY <1>1 DEF Work
    <2>2. \A c \in Chunks : /\ made[c] \in Nat /\ made'[c] \in Nat
                           /\ work[v].ids[c] <= made[c] /\ made[c] <= made'[c]
      BY <1>1 DEF Onward, RecordOK
    <2> QED
      BY <2>1, <2>2
  <1>4. At(v, Posting)' => \A c \in Chunks :
          visible'[c] # {} /\ c \notin remembered' => c \in work'[v].known \/ work'[v].ids[c] # 0
    BY <1>1 DEF RecordOK, At, Posting, Delivering
  <1>5. At(v, Holding)' =>
          /\ \A c \in work'[v].known : work'[v].ids[c] = saved'[c] /\ saved'[c] # 0
          /\ \A c \in Chunks \ work'[v].pending : receipted'[c]
    <2>1. work[v].known \subseteq Chunks
      BY <1>1 DEF Work
    <2> QED
      BY <1>1, <2>1 DEF RecordOK, At, Onward
  <1>6. At(v, Holding \union {"planning"})' => answer' = "text"
    BY <1>1 DEF RecordOK, At, Onward
  <1> QED
    BY <1>1, <1>2, <1>3, <1>4, <1>5, <1>6 DEF RecordOK, At, Onward

\* The requests that w leaves behind, or those of the others.
Leaves(w) == requests' = Abandoned(w) \/ (requests' = requests /\ ~At(w, {"waiting"}))

\* What w leaves behind waits for nobody, and nothing is added.
LEMMA LeavesIs ==
  ASSUME DInv, NEW w \in Consumers, Leaves(w)
  PROVE  /\ requests' \subseteq (Consumers \union {None}) \X Chunks
         /\ \A r \in requests' : r[1] # None => r[1] # w /\ r \in requests
         /\ \A r \in requests' : \E q \in requests : q[2] = r[2]
  <1>1. requests \subseteq (Consumers \union {None}) \X Chunks
    BY DEF DInv, TypeOK
  <1>2. CASE requests' = Abandoned(w)
    <2>1. ASSUME NEW r \in requests'
          PROVE  /\ r \in (Consumers \union {None}) \X Chunks
                 /\ r[1] # None => r[1] # w /\ r \in requests
                 /\ \E q \in requests : q[2] = r[2]
      <3>1. CASE r \in requests /\ r[1] # w
        BY <1>1, <3>1
      <3>2. CASE \E q \in requests : r = <<None, q[2]>>
        BY <1>1, <3>2
      <3> QED
        BY <1>2, <3>1, <3>2 DEF Abandoned
    <2> QED
      BY <2>1
  <1>3. CASE requests' = requests /\ ~At(w, {"waiting"})
    BY <1>1, <1>3 DEF DInv, RequestsOK
  <1> QED
    BY <1>2, <1>3 DEF Leaves

\* A step of one consumer that Discord does not notice.
LEMMA StepKeeps ==
  ASSUME DInv, NEW w \in Consumers, TypeOK', LedgerOK', Onward, Moved(w), Leaves(w),
         UNCHANGED discord, RecordOK(w)', ClaimOK(w)',
         \A v \in Consumers \ {w} : owner' = v => owner = v /\ attempts' = attempts /\ saved' = saved
  PROVE  DInv'
  <1>1. /\ \A r \in requests' : r[1] # None => r[1] # w /\ r \in requests
        /\ \A r \in requests' : \E q \in requests : q[2] = r[2]
        /\ requests' \subseteq (Consumers \union {None}) \X Chunks
    BY LeavesIs
  <1>2. UNCHANGED <<made, visible, remembered>>
    BY DEF discord
  <1>3. DiscordOK'
    BY <1>1, <1>2 DEF DInv, DiscordOK
  <1>4. RequestsOK'
    <2>1. \A r \in requests' : r[1] # None => r[1] \in Consumers \ {w} /\ r \in requests
      BY <1>1
    <2>2. \A r \in requests' : r[1] # None => At(r[1], {"waiting"})' /\ work'[r[1]].chunk = r[2]
      BY <2>1 DEF DInv, RequestsOK, Moved, At
    <2>3. \A r \in requests' : \A d \in 1 .. r[2] - 1 : made[d] > 0
      BY <1>1 DEF DInv, RequestsOK
    <2>4. answer' # "text" => requests' = {} /\ \A c \in Chunks : made[c] = 0
      BY <1>1 DEF DInv, RequestsOK, Onward
    <2> QED
      BY <1>2, <2>2, <2>3, <2>4 DEF DInv, RequestsOK
  <1>5. ASSUME NEW v \in Consumers \ {w}
        PROVE  RecordOK(v)' /\ ClaimOK(v)'
    <2>1. RecordOK(v)'
      BY <1>2, RecordStays DEF Moved, TypeOK, DInv
    <2>2. ClaimOK(v)'
      BY DEF DInv, ClaimOK, Moved, At
    <2> QED
      BY <2>1, <2>2
  <1> QED
    BY <1>3, <1>4, <1>5 DEF DInv

\* A step of one consumer that changes neither the rows nor the receipts.
LEMMA QuietKeeps ==
  ASSUME DInv, NEW w \in Consumers, Moved(w), Leaves(w), UNCHANGED <<rowvars, answer, ledger, discord>>,
         trouble' \in 0 .. MaxTrouble, RecordOK(w)', ClaimOK(w)'
  PROVE  DInv'
  <1> USE DEF rowvars, discord
  <1>1. TypeOK'
    BY LeavesIs DEF DInv, TypeOK, Moved
  <1>2. LedgerOK' /\ Onward
    BY DEF DInv, TypeOK, LedgerOK, Onward, Complete
  <1> QED
    BY <1>1, <1>2, StepKeeps

-------------------------------------------------------------------------------
(* The steps of a consumer                                                 *)

\* w gives the batch up.
LEMMA IdleKeeps ==
  ASSUME DInv, NEW w \in Consumers, work' = [work EXCEPT ![w] = Idle], Leaves(w),
         UNCHANGED <<rowvars, answer, ledger, discord>>, trouble' \in 0 .. MaxTrouble
  PROVE  DInv'
  <1>1. Idle \in Work
    BY DeliveryAssumption DEF Idle, Work, Chunks, Verdicts
  <1>2. Moved(w) /\ work'[w] = Idle
    BY <1>1 DEF DInv, TypeOK, Moved
  <1>3. Idle.pc = "idle" /\ \A c \in Chunks : Idle.ids[c] = 0
    BY DEF Idle
  <1>4. \A c \in Chunks : made'[c] \in Nat
    BY DEF DInv, TypeOK, discord
  <1>5. RecordOK(w)'
    BY <1>2, <1>3, <1>4 DEF RecordOK, At, Posting, Holding, Delivering
  <1>6. ClaimOK(w)'
    BY <1>2, <1>3 DEF ClaimOK, At, Delivering
  <1> QED
    BY <1>2, <1>5, <1>6, QuietKeeps

\* w has to write its verdict.
LEMMA EndingKeeps ==
  ASSUME DInv, NEW w \in Consumers, NEW v \in Verdicts, ~At(w, {"idle"}),
         work' = [work EXCEPT ![w].pc = "ending", ![w].verdict = v],
         v = "retry" => work[w].tries < MaxFailures, Leaves(w),
         UNCHANGED <<rowvars, answer, ledger, discord>>, trouble' \in 0 .. MaxTrouble
  PROVE  DInv'
  <1>1. work[w] \in Work /\ work \in [Consumers -> Work]
    BY DEF DInv, TypeOK
  <1>2. /\ work'[w] = [work[w] EXCEPT !.pc = "ending", !.verdict = v]
        /\ \A u \in Consumers \ {w} : work'[u] = work[u]
    BY <1>1
  <1>3. /\ work'[w] \in Work /\ work'[w].pc = "ending" /\ work'[w].verdict = v
        /\ work'[w].ids = work[w].ids /\ work'[w].tries = work[w].tries
    BY <1>1, <1>2 DEF Work
  <1>4. Moved(w)
    BY <1>1, <1>2, <1>3 DEF Moved
  <1>5. RecordOK(w)'
    <2>1. \A c \in Chunks : work'[w].ids[c] <= made'[c]
      BY <1>3 DEF DInv, RecordOK, discord
    <2> QED
      BY <1>3, <2>1 DEF RecordOK, At, Posting, Holding, Delivering
  <1>6. ClaimOK(w)'
    BY <1>3 DEF DInv, ClaimOK, At, Delivering, rowvars
  <1> QED
    BY <1>4, <1>5, <1>6, QuietKeeps

\* The bound on troubles.
LEMMA TroubleTypes ==
  ASSUME DInv, Trouble \/ UNCHANGED trouble
  PROVE  trouble' \in 0 .. MaxTrouble
  BY DeliveryAssumption DEF DInv, TypeOK, Trouble

\* What ends an attempt, or the process.
LEMMA TroubleKeeps ==
  ASSUME DInv, NEW w \in Consumers,
         Fail(w) \/ Forbid(w) \/ Postpone(w) \/ Conflict(w) \/ SettleFails(w) \/ Revoke(w) \/ Crash(w)
  PROVE  DInv'
  <1>1. CASE Fail(w)
    <2>1. OnError(w) \in Verdicts /\ (OnError(w) = "retry" => work[w].tries < MaxFailures)
      BY DeliveryAssumption DEF OnError, Verdicts, DInv, TypeOK, Work
    <2>2. /\ ~At(w, {"idle"}) /\ Leaves(w) /\ trouble' \in 0 .. MaxTrouble
          /\ work' = [work EXCEPT ![w].pc = "ending", ![w].verdict = OnError(w)]
          /\ UNCHANGED <<rowvars, answer, ledger, discord>>
      BY <1>1, TroubleTypes DEF Fail, Ends, At, Working, Delivering, Leaves
    <2> QED
      BY <2>1, <2>2, EndingKeeps
  <1>2. CASE Forbid(w)
    <2>1. /\ ~At(w, {"idle"}) /\ Leaves(w) /\ trouble' \in 0 .. MaxTrouble
          /\ work' = [work EXCEPT ![w].pc = "ending", ![w].verdict = "drop"]
          /\ UNCHANGED <<rowvars, answer, ledger, discord>>
      BY <1>2, TroubleTypes DEF Forbid, Ends, At, Leaves
    <2> QED
      BY <2>1, EndingKeeps DEF Verdicts
  <1>3. CASE Postpone(w)
    <2>1. /\ ~At(w, {"idle"}) /\ Leaves(w) /\ trouble' \in 0 .. MaxTrouble
          /\ work' = [work EXCEPT ![w].pc = "ending", ![w].verdict = "defer"]
          /\ UNCHANGED <<rowvars, answer, ledger, discord>>
      BY <1>3, TroubleTypes DEF Postpone, Ends, At, Leaves
    <2> QED
      BY <2>1, EndingKeeps DEF Verdicts
  <1>4. CASE Conflict(w)
    <2>1. /\ ~At(w, {"idle"}) /\ Leaves(w) /\ trouble' \in 0 .. MaxTrouble
          /\ work' = [work EXCEPT ![w].pc = "ending", ![w].verdict = "drop"]
          /\ UNCHANGED <<rowvars, answer, ledger, discord>>
      BY <1>4, TroubleTypes DEF Conflict, At, Leaves
    <2> QED
      BY <2>1, EndingKeeps DEF Verdicts
  <1>5. CASE SettleFails(w) \/ Revoke(w) \/ Crash(w)
    <2>1. /\ Leaves(w) /\ trouble' \in 0 .. MaxTrouble /\ work' = [work EXCEPT ![w] = Idle]
          /\ UNCHANGED <<rowvars, answer, ledger, discord>>
      BY <1>5, TroubleTypes DEF SettleFails, Revoke, Crash, At, Leaves
    <2> QED
      BY <2>1, IdleKeeps
  <1> QED
    BY <1>1, <1>2, <1>3, <1>4, <1>5

\* A new claim starts with what nobody knows.
LEMMA NextBatchKeeps ==
  ASSUME DInv, NEW w \in Consumers, NextBatch(w)
  PROVE  DInv'
  <1>1. /\ At(w, {"idle"}) /\ status = "live" /\ owner' = w /\ leased' = TRUE
        /\ work' = [work EXCEPT ![w] = [Idle EXCEPT !.pc = "asking", !.tries = attempts]]
        /\ UNCHANGED <<status, due, attempts, planned, saved, receipted, answer, ledger,
                       discord, requests, trouble>>
    BY DEF NextBatch
  <1> DEFINE rec == [Idle EXCEPT !.pc = "asking", !.tries = attempts]
  <1>2. /\ rec \in Work /\ rec.pc = "asking" /\ rec.tries = attempts /\ rec.chunk = 1
        /\ \A c \in Chunks : rec.ids[c] = 0
    <2>1. attempts \in Nat
      BY DeliveryAssumption DEF DInv, TypeOK
    <2>2. /\ Idle \in Work /\ Idle.chunk = 1 /\ \A c \in Chunks : Idle.ids[c] = 0
      BY DeliveryAssumption DEF Idle, Work, Chunks, Verdicts
    <2> QED
      BY <2>1, <2>2 DEF Work, Working
  <1>3. Moved(w) /\ work'[w] = rec
    BY <1>1, <1>2 DEF DInv, TypeOK, Moved
  <1> HIDE DEF rec
  <1>4. TypeOK' /\ LedgerOK' /\ Onward
    BY <1>1, <1>3 DEF DInv, TypeOK, LedgerOK, Complete, Onward, Moved, discord
  <1>5. \A c \in Chunks : made'[c] \in Nat
    BY <1>4 DEF TypeOK
  <1>6. RecordOK(w)' /\ ClaimOK(w)'
    <2>1. \A c \in Chunks : work'[w].ids[c] <= made'[c]
      BY <1>2, <1>3, <1>5
    <2>2. RecordOK(w)'
      BY <1>2, <1>3, <2>1 DEF RecordOK, At, Posting, Holding, Delivering
    <2>3. ClaimOK(w)'
      BY <1>1, <1>2, <1>3 DEF ClaimOK, At, Delivering
    <2> QED
      BY <2>2, <2>3
  <1>7. Leaves(w)
    BY <1>1 DEF Leaves, At
  <1> QED
    BY <1>1, <1>3, <1>4, <1>6, <1>7, StepKeeps

\* The answer is asked for once and kept.
LEMMA AskKeeps ==
  ASSUME DInv, NEW w \in Consumers, Ask(w)
  PROVE  DInv'
  <1>1. /\ At(w, {"asking"}) /\ (answer' = answer \/ (answer = "none" /\ answer' \in {"silent", "text"}))
        /\ answer' \in {"silent", "text"}
        /\ work' = [work EXCEPT ![w].pc = IF answer' = "silent" THEN "acking" ELSE "planning"]
        /\ UNCHANGED <<rowvars, ledger, discord, requests, trouble>>
    BY DEF Ask, DInv, TypeOK
  <1>2. work[w] \in Work /\ work \in [Consumers -> Work]
    BY DEF DInv, TypeOK
  <1>3. work'[w] = [work[w] EXCEPT !.pc = IF answer' = "silent" THEN "acking" ELSE "planning"]
    BY <1>1, <1>2
  <1>4. /\ work'[w] \in Work /\ work'[w].pc = IF answer' = "silent" THEN "acking" ELSE "planning"
        /\ work'[w].ids = work[w].ids /\ work'[w].tries = work[w].tries /\ work'[w].chunk = work[w].chunk
    BY <1>2, <1>3 DEF Work, Working
  <1>5. Moved(w)
    BY <1>1, <1>2, <1>4 DEF Moved
  <1>6. TypeOK' /\ LedgerOK' /\ Onward
    BY <1>1, <1>5 DEF DInv, TypeOK, LedgerOK, Complete, Onward, Moved, discord, rowvars
  <1>7. RecordOK(w)'
    <2>1. (\A c \in Chunks : work'[w].ids[c] <= made'[c]) /\ work'[w].chunk = 1
      BY <1>1, <1>4 DEF DInv, RecordOK, discord, At
    <2> QED
      BY <1>1, <1>4, <2>1 DEF RecordOK, At, Posting, Holding, Delivering, Complete
  <1>8. ClaimOK(w)'
    BY <1>1, <1>4 DEF DInv, ClaimOK, At, Delivering, rowvars
  <1>9. Leaves(w) /\ UNCHANGED <<owner, attempts, saved>>
    BY <1>1 DEF Leaves, At, rowvars
  <1> QED
    BY <1>1, <1>5, <1>6, <1>7, <1>8, <1>9, StepKeeps

\* Nothing is taken back when nothing changes.
LEMMA OnwardSame ==
  ASSUME DInv, UNCHANGED <<made, saved, receipted, ledger, answer>>
  PROVE  Onward
  <1>1. \A c \in Chunks : made[c] \in Nat
    BY DEF DInv, TypeOK
  <1> QED
    BY <1>1 DEF Onward

\* The plan is what the rows say.
LEMMA PlanKeeps ==
  ASSUME DInv, NEW w \in Consumers, Plan(w)
  PROVE  DInv'
  <1>1. At(w, {"planning"}) /\ UNCHANGED <<answer, ledger, discord, requests, trouble>>
    BY DEF Plan
  <1>2. Leaves(w)
    BY <1>1 DEF Leaves, At
  <1>3. CASE ~Owned(w)
    BY <1>1, <1>2, <1>3, IdleKeeps, TroubleTypes DEF Plan, OnRows
  <1>4. CASE Owned(w)
    <2>1. /\ planned' = TRUE
          /\ work' = [work EXCEPT ![w].pc = "reading",
                                  ![w].ids = saved,
                                  ![w].known = {c \in Chunks : saved[c] # 0},
                                  ![w].pending = {c \in Chunks : ~receipted[c]}]
          /\ UNCHANGED <<status, owner, leased, due, attempts, saved, receipted>>
      BY <1>4 DEF Plan, OnRows
    <2>2. work[w] \in Work /\ work \in [Consumers -> Work] /\ saved \in [Chunks -> Nat]
      BY DEF DInv, TypeOK
    <2>3. /\ work'[w].pc = "reading" /\ work'[w].ids = saved
          /\ work'[w].known = {c \in Chunks : saved[c] # 0}
          /\ work'[w].pending = {c \in Chunks : ~receipted[c]}
          /\ work'[w].tries = work[w].tries /\ work'[w].chunk = work[w].chunk
          /\ work'[w] \in Work
      BY <2>1, <2>2 DEF Work, Working, Delivering
    <2>4. Moved(w)
      BY <2>1, <2>2, <2>3 DEF Moved
    <2>5. TypeOK' /\ LedgerOK' /\ Onward
      <3>1. UNCHANGED <<made, visible, remembered>>
        BY <1>1 DEF discord
      <3>2. LedgerOK'
        BY <1>1, <2>1, <3>1 DEF DInv, LedgerOK, Complete
      <3>4. Onward
        BY <1>1, <2>1, <3>1, OnwardSame
      <3>3. TypeOK'
        BY <1>1, <2>1, <2>4, <3>1 DEF DInv, TypeOK, Moved
      <3> QED
        BY <3>2, <3>3, <3>4
    <2>6. RecordOK(w)'
      <3>1. work[w].chunk = 1 /\ answer = "text" /\ \A c \in Chunks : saved[c] <= made[c]
        BY <1>1 DEF DInv, RecordOK, LedgerOK, At
      <3> QED
        BY <1>1, <2>1, <2>3, <3>1 DEF RecordOK, At, Posting, discord
    <2>7. ClaimOK(w)'
      BY <1>1, <2>1, <2>3 DEF DInv, ClaimOK, At
    <2> QED
      BY <1>1, <1>2, <2>1, <2>4, <2>5, <2>6, <2>7, StepKeeps
  <1> QED
    BY <1>3, <1>4

\* The greatest message of a chunk that has one is it.
LEMMA OneIsGreatest ==
  ASSUME NEW S, S \subseteq Nat \ {0}, S # {}, \A i, j \in S : i = j
  PROVE  Max(S) \in S
  <1>1. PICK x \in S : x \in Nat
    OBVIOUS
  <1>2. \A y \in S : x >= y
    BY <1>1
  <1> QED
    BY <1>2 DEF Max

\* What the history shows is a message that was made.
LEMMA ReconcileKeeps ==
  ASSUME DInv, NEW w \in Consumers, Reconcile(w)
  PROVE  DInv'
  <1>1. /\ At(w, {"reading"})
        /\ work' = [work EXCEPT ![w].pc = "sending", ![w].ids = Found(w),
                                ![w].known = Chunks \ Missing(w)]
        /\ UNCHANGED <<rowvars, answer, ledger, discord, requests, trouble>>
    BY DEF Reconcile
  <1>2. work[w] \in Work /\ work \in [Consumers -> Work] /\ made \in [Chunks -> Nat]
    BY DEF DInv, TypeOK
  <1>3. ASSUME NEW c \in Chunks
        PROVE  /\ Found(w)[c] \in Nat /\ Found(w)[c] <= made[c]
               /\ c \in work[w].known => Found(w)[c] = work[w].ids[c]
               /\ visible[c] # {} => c \in work[w].known \/ Found(w)[c] # 0
    <2>1. visible[c] \subseteq 1 .. made[c] /\ \A i, j \in visible[c] : i = j
      BY DEF DInv, TypeOK, DiscordOK
    <2>2. work[w].ids[c] \in Nat /\ work[w].ids[c] <= made[c] /\ made[c] \in Nat
      BY <1>2 DEF DInv, RecordOK, Work
    <2>3. visible[c] # {} => Max(visible[c]) \in visible[c]
      BY <1>2, <2>1, OneIsGreatest
    <2>4. Found(w)[c] = IF c \in Missing(w) /\ visible[c] # {} THEN Max(visible[c])
                        ELSE IF c \in Missing(w) THEN 0
                        ELSE work[w].ids[c]
      BY DEF Found
    <2>5. c \in Missing(w) <=> c \notin work[w].known
      BY DEF Missing
    <2> QED
      BY <2>1, <2>2, <2>3, <2>4, <2>5
  <1>4. Found(w) \in [Chunks -> Nat]
    BY <1>3 DEF Found
  <1>5. Chunks \ Missing(w) = work[w].known
    BY <1>2 DEF Missing, Work
  <1>6. /\ work'[w].pc = "sending" /\ work'[w].ids = Found(w) /\ work'[w].known = work[w].known
        /\ work'[w].pending = work[w].pending
        /\ work'[w].tries = work[w].tries /\ work'[w].chunk = work[w].chunk
        /\ work'[w] \in Work
    BY <1>1, <1>2, <1>4, <1>5 DEF Work, Working, Delivering
  <1>7. Moved(w)
    BY <1>1, <1>2, <1>6 DEF Moved
  <1>8. RecordOK(w)'
    <2>1. /\ answer = "text" /\ work[w].chunk = 1
          /\ \A c \in work[w].known : work[w].ids[c] = saved[c] /\ saved[c] # 0
          /\ \A c \in Chunks \ work[w].pending : receipted[c]
      BY <1>1 DEF DInv, RecordOK, At, Holding, Delivering
    <2>2. work[w].known \subseteq Chunks
      BY <1>2 DEF Work
    <2>3. UNCHANGED <<answer, saved, receipted, made, visible, remembered>>
      BY <1>1 DEF rowvars, discord
    <2> QED
      BY <1>3, <1>6, <2>1, <2>2, <2>3 DEF RecordOK, At
  <1>9. ClaimOK(w)'
    BY <1>1, <1>6 DEF DInv, ClaimOK, At, Delivering, rowvars
  <1>10. Leaves(w) /\ trouble' \in 0 .. MaxTrouble
    BY <1>1, TroubleTypes DEF Leaves, At
  <1> QED
    BY <1>1, <1>7, <1>8, <1>9, <1>10, QuietKeeps

\* The chunks are 1 .. N, one after the other.
LEMMA ChunkRange ==
  /\ 1 \in Chunks /\ N \in Chunks /\ Chunks \subseteq Nat \ {0}
  /\ \A c \in Chunks : c < N => c + 1 \in Chunks
  /\ \A c \in Chunks : ~(c < N) => c = N
  /\ \A c \in Chunks : 1 .. (c + 1) - 1 = (1 .. c - 1) \union {c}
  /\ \A c \in Chunks : 1 .. c - 1 \subseteq Chunks
  /\ Chunks = (1 .. N - 1) \union {N}
  BY DeliveryAssumption DEF Chunks

\* What follows when a chunk is known.
LEMMA AdvancedIs ==
  ASSUME NEW state \in Work, state.chunk \in state.known, 1 .. state.chunk - 1 \subseteq state.known
  PROVE  /\ Advanced(state) \in Work /\ Advanced(state).pc \in {"sending", "receipting"}
         /\ Advanced(state).ids = state.ids /\ Advanced(state).known = state.known
         /\ Advanced(state).pending = state.pending /\ Advanced(state).tries = state.tries
         /\ Advanced(state).pc = "sending" => 1 .. Advanced(state).chunk - 1 \subseteq state.known
         /\ Advanced(state).pc = "receipting" => state.known = Chunks
  <1>1. state.chunk \in Chunks /\ state.known \subseteq Chunks
    BY DEF Work
  <1>2. CASE state.chunk < N
    <2>1. Advanced(state) = [state EXCEPT !.chunk = state.chunk + 1, !.pc = "sending"]
      BY <1>2 DEF Advanced
    <2>2. state.chunk + 1 \in Chunks
          /\ 1 .. (state.chunk + 1) - 1 = (1 .. state.chunk - 1) \union {state.chunk}
      BY <1>1, <1>2, ChunkRange
    <2>3. /\ Advanced(state) \in Work /\ Advanced(state).pc = "sending"
          /\ Advanced(state).chunk = state.chunk + 1
          /\ Advanced(state).ids = state.ids /\ Advanced(state).known = state.known
          /\ Advanced(state).pending = state.pending /\ Advanced(state).tries = state.tries
      BY <2>1, <2>2 DEF Work, Working, Delivering
    <2> QED
      BY <2>2, <2>3
  <1>3. CASE ~(state.chunk < N)
    <2>1. Advanced(state) = [state EXCEPT !.pc = "receipting"]
      BY <1>3 DEF Advanced
    <2>2. state.chunk = N /\ Chunks = (1 .. N - 1) \union {N}
      BY <1>1, <1>3, ChunkRange
    <2>3. state.known = Chunks
      BY <1>1, <2>2
    <2>4. /\ Advanced(state) \in Work /\ Advanced(state).pc = "receipting"
          /\ Advanced(state).ids = state.ids /\ Advanced(state).known = state.known
          /\ Advanced(state).pending = state.pending /\ Advanced(state).tries = state.tries
      BY <2>1 DEF Work, Working, Delivering
    <2> QED
      BY <2>3, <2>4
  <1> QED
    BY <1>2, <1>3

\* A chunk is posted only when the channel cannot show it under a nonce forgotten.
LEMMA SendKeeps ==
  ASSUME DInv, NEW w \in Consumers, Send(w)
  PROVE  DInv'
  <1> DEFINE c == work[w].chunk
  <1>1. At(w, {"sending"}) /\ UNCHANGED <<rowvars, answer, ledger, discord, trouble>>
    BY DEF Send
  <1>2. /\ work[w] \in Work /\ work \in [Consumers -> Work] /\ made \in [Chunks -> Nat]
        /\ RecordOK(w) /\ ClaimOK(w)
    BY DEF DInv, TypeOK
  <1>3. UNCHANGED <<answer, saved, receipted, ledger, made, visible, remembered, owner, attempts>>
    BY <1>1 DEF rowvars, discord
  <1>4. /\ c \in Chunks /\ answer = "text" /\ 1 .. c - 1 \subseteq work[w].known
        /\ work[w].known \subseteq Chunks
        /\ \A d \in work[w].known : work[w].ids[d] = saved[d] /\ saved[d] # 0
        /\ \A d \in Chunks \ work[w].pending : receipted[d]
        /\ \A d \in Chunks : work[w].ids[d] <= made[d]
        /\ \A d \in Chunks :
              visible[d] # {} /\ d \notin remembered => d \in work[w].known \/ work[w].ids[d] # 0
    BY <1>1, <1>2 DEF RecordOK, At, Posting, Holding, Delivering, Work
  <1>5. owner = w => /\ work[w].tries = attempts
                     /\ \A d \in Chunks : saved[d] # 0 => d \in work[w].known
    BY <1>1, <1>2 DEF ClaimOK, At, Delivering
  <1>6. trouble' \in 0 .. MaxTrouble
    BY <1>1, TroubleTypes
  <1>7. CASE c \in work[w].known /\ work' = [work EXCEPT ![w] = Advanced(work[w])] /\ UNCHANGED requests
    <2> DEFINE rec == Advanced(work[w])
    <2>1. /\ rec \in Work /\ rec.pc \in {"sending", "receipting"}
          /\ rec.ids = work[w].ids /\ rec.known = work[w].known
          /\ rec.pending = work[w].pending /\ rec.tries = work[w].tries
          /\ rec.pc = "sending" => 1 .. rec.chunk - 1 \subseteq work[w].known
          /\ rec.pc = "receipting" => work[w].known = Chunks
      BY <1>2, <1>4, <1>7, AdvancedIs
    <2> HIDE DEF rec
    <2>2. Moved(w) /\ work'[w] = rec
      BY <1>2, <1>7, <2>1 DEF Moved, rec
    <2>3. RecordOK(w)'
      BY <1>3, <1>4, <2>1, <2>2 DEF RecordOK, At, Posting
    <2>4. ClaimOK(w)'
      BY <1>3, <1>5, <2>1, <2>2 DEF ClaimOK, At
    <2>5. Leaves(w)
      BY <1>1, <1>7 DEF Leaves, At
    <2> QED
      BY <1>1, <1>6, <2>2, <2>3, <2>4, <2>5, QuietKeeps
  <1>8. CASE c \notin work[w].known /\ work[w].ids[c] # 0 /\ work' = [work EXCEPT ![w].pc = "marking"]
             /\ UNCHANGED requests
    <2>1. /\ work'[w] \in Work /\ work'[w].pc = "marking" /\ work'[w].chunk = work[w].chunk
          /\ work'[w].ids = work[w].ids /\ work'[w].known = work[w].known
          /\ work'[w].pending = work[w].pending /\ work'[w].tries = work[w].tries
      BY <1>2, <1>8 DEF Work, Working, Delivering
    <2>2. Moved(w)
      BY <1>2, <1>8, <2>1 DEF Moved
    <2>3. RecordOK(w)'
      BY <1>3, <1>4, <1>8, <2>1 DEF RecordOK, At, Posting
    <2>4. ClaimOK(w)'
      BY <1>3, <1>5, <2>1 DEF ClaimOK, At
    <2>5. Leaves(w)
      BY <1>1, <1>8 DEF Leaves, At
    <2> QED
      BY <1>1, <1>6, <2>2, <2>3, <2>4, <2>5, QuietKeeps
  <1>9. CASE c \notin work[w].known /\ work[w].ids[c] = 0 /\ work' = [work EXCEPT ![w].pc = "waiting"]
             /\ requests' = requests \union {<<w, c>>}
    <2>1. /\ work'[w] \in Work /\ work'[w].pc = "waiting" /\ work'[w].chunk = work[w].chunk
          /\ work'[w].ids = work[w].ids /\ work'[w].known = work[w].known
          /\ work'[w].pending = work[w].pending /\ work'[w].tries = work[w].tries
      BY <1>2, <1>9 DEF Work, Working, Delivering
    <2>2. Moved(w)
      BY <1>2, <1>9, <2>1 DEF Moved
    <2>3. RecordOK(w)' /\ ClaimOK(w)'
      <3>1. RecordOK(w)'
        BY <1>3, <1>4, <1>9, <2>1 DEF RecordOK, At, Posting
      <3>2. ClaimOK(w)'
        BY <1>3, <1>5, <2>1 DEF ClaimOK, At
      <3> QED
        BY <3>1, <3>2
    <2>4. ASSUME NEW v \in Consumers \ {w}
          PROVE  RecordOK(v)' /\ ClaimOK(v)'
      <3>1. work'[v] = work[v]
        BY <2>2 DEF Moved
      <3>2. RecordOK(v)'
        BY <1>2, <1>3, <3>1, OnwardSame, RecordStays DEF DInv, TypeOK
      <3>3. ClaimOK(v)'
        BY <1>3, <3>1 DEF DInv, ClaimOK, At
      <3> QED
        BY <3>2, <3>3
    <2>5. DiscordOK'
      <3>1. visible[c] # {} => c \in remembered
        BY <1>4, <1>9
      <3> QED
        BY <1>3, <1>9, <3>1 DEF DInv, DiscordOK
    <2>6. RequestsOK'
      <3>1. \A d \in 1 .. c - 1 : made[d] > 0
        <4>1. \A d \in 1 .. c - 1 : d \in Chunks /\ d \in work[w].known /\ saved[d] # 0
          BY <1>4
        <4>2. \A d \in Chunks : saved[d] \in Nat /\ saved[d] <= made[d] /\ made[d] \in Nat
          BY DEF DInv, TypeOK, LedgerOK
        <4> QED
          BY <4>1, <4>2
      <3>2. \A r \in requests : r[1] # None => r[1] # w /\ r[1] \in Consumers
        BY <1>1 DEF DInv, TypeOK, RequestsOK, At
      <3>3. \A r \in requests' : r[1] # None => At(r[1], {"waiting"})' /\ work'[r[1]].chunk = r[2]
        BY <1>9, <2>1, <2>2, <3>2 DEF DInv, RequestsOK, Moved, At
      <3>4. \A r \in requests' : \A d \in 1 .. r[2] - 1 : made[d] > 0
        BY <1>9, <3>1 DEF DInv, RequestsOK
      <3> QED
        BY <1>3, <1>4, <3>3, <3>4 DEF DInv, RequestsOK
    <2>7. TypeOK'
      BY <1>1, <1>4, <1>9, <2>2 DEF DInv, TypeOK, Moved, rowvars, discord
    <2>8. LedgerOK'
      BY <1>1, <1>3 DEF DInv, LedgerOK, Complete, rowvars
    <2> QED
      BY <2>3, <2>4, <2>5, <2>6, <2>7, <2>8 DEF DInv
  <1> QED
    BY <1>7, <1>8, <1>9 DEF Send

\* mark_delivery_sent: the row gets the id the record has, and keeps it.
LEMMA MarkSentKeeps ==
  ASSUME DInv, NEW w \in Consumers, MarkSent(w)
  PROVE  DInv'
  <1> DEFINE c == work[w].chunk
             id == work[w].ids[c]
  <1>1. At(w, {"marking"}) /\ UNCHANGED <<answer, ledger, discord, requests, trouble>>
    BY DEF MarkSent
  <1>2. /\ Leaves(w) /\ ~At(w, {"idle"}) /\ trouble' \in 0 .. MaxTrouble
    BY <1>1, TroubleTypes DEF Leaves, At
  <1>3. /\ work[w] \in Work /\ work \in [Consumers -> Work]
        /\ made \in [Chunks -> Nat] /\ saved \in [Chunks -> Nat] /\ RecordOK(w) /\ ClaimOK(w)
    BY DEF DInv, TypeOK
  <1>4. /\ c \in Chunks /\ answer = "text" /\ 1 .. c - 1 \subseteq work[w].known
        /\ work[w].known \subseteq Chunks /\ id \in Nat /\ id # 0 /\ id <= made[c]
        /\ \A d \in work[w].known : work[w].ids[d] = saved[d] /\ saved[d] # 0
        /\ \A d \in Chunks \ work[w].pending : receipted[d]
        /\ \A d \in Chunks : work[w].ids[d] <= made[d]
        /\ \A d \in Chunks :
              visible[d] # {} /\ d \notin remembered => d \in work[w].known \/ work[w].ids[d] # 0
    BY <1>1, <1>3 DEF RecordOK, At, Posting, Holding, Delivering, Work
  <1>5. CASE ~Owned(w)
    BY <1>1, <1>2, <1>5, IdleKeeps DEF MarkSent, OnRows
  <1>6. CASE Owned(w) /\ saved[c] \notin {0, id}
    <2>1. work' = [work EXCEPT ![w].pc = "ending", ![w].verdict = "drop"] /\ UNCHANGED rowvars
      BY <1>6 DEF MarkSent, OnRows
    <2> QED
      BY <1>1, <1>2, <2>1, EndingKeeps DEF Verdicts
  <1>7. CASE Owned(w) /\ saved[c] \in {0, id}
    <2> DEFINE state == [work[w] EXCEPT !.known = work[w].known \union {c}]
               rec == Advanced(state)
    <2>1. /\ saved' = [saved EXCEPT ![c] = id] /\ work' = [work EXCEPT ![w] = rec]
          /\ UNCHANGED <<status, owner, leased, due, attempts, planned, receipted>>
      BY <1>7 DEF MarkSent, OnRows
    <2>2. /\ state \in Work /\ state.known = work[w].known \union {c}
          /\ state.chunk = c /\ state.ids = work[w].ids
          /\ state.pending = work[w].pending /\ state.tries = work[w].tries
      BY <1>3, <1>4 DEF Work
    <2> HIDE DEF state
    <2>3. /\ rec \in Work /\ rec.pc \in {"sending", "receipting"}
          /\ rec.ids = work[w].ids /\ rec.known = work[w].known \union {c}
          /\ rec.pending = work[w].pending /\ rec.tries = work[w].tries
          /\ rec.pc = "sending" => 1 .. rec.chunk - 1 \subseteq rec.known
          /\ rec.pc = "receipting" => rec.known = Chunks
      BY <1>4, <2>2, AdvancedIs
    <2> HIDE DEF rec
    <2>4. Moved(w) /\ work'[w] = rec
      BY <1>3, <2>1, <2>3 DEF Moved
    <2>5. /\ saved' \in [Chunks -> Nat] /\ saved'[c] = id
          /\ \A d \in Chunks : d # c => saved'[d] = saved[d]
          /\ \A d \in Chunks : saved'[d] = saved[d] \/ saved[d] = 0
      BY <1>3, <1>4, <1>7, <2>1
    <2>6. UNCHANGED <<made, visible, remembered>>
      BY <1>1 DEF discord
    <2>7. Onward
      BY <1>1, <1>3, <2>1, <2>5, <2>6 DEF Onward
    <2>8. ledger # {} => saved' = saved
      BY <1>3, <2>5 DEF DInv, LedgerOK
    <2>9. LedgerOK'
      BY <1>1, <1>4, <2>1, <2>5, <2>6, <2>8 DEF DInv, LedgerOK, Complete
    <2>10. TypeOK'
      BY <1>1, <2>1, <2>4, <2>5, <2>6 DEF DInv, TypeOK, Moved
    <2>11. RecordOK(w)'
      <3>1. \A d \in rec.known : rec.ids[d] = saved'[d] /\ saved'[d] # 0
        BY <1>4, <2>3, <2>5
      <3> QED
        BY <1>1, <1>4, <2>1, <2>3, <2>4, <2>6, <3>1 DEF RecordOK, At, Posting
    <2>12. ClaimOK(w)'
      BY <1>1, <1>3, <2>1, <2>3, <2>4, <2>5 DEF ClaimOK, At, Delivering
    <2>13. \A v \in Consumers \ {w} : owner' # v
      BY <1>7, <2>1 DEF Owned
    <2> QED
      BY <1>1, <1>2, <2>4, <2>7, <2>9, <2>10, <2>11, <2>12, <2>13, StepKeeps
  <1> QED
    BY <1>5, <1>6, <1>7

\* A receipt names what the rows keep, since all of them are known by then.
LEMMA ReceiptKeeps ==
  ASSUME DInv, NEW w \in Consumers, Receipt(w)
  PROVE  DInv'
  <1>1. At(w, {"receipting"}) /\ UNCHANGED <<rowvars, answer, discord, requests, trouble>>
    BY DEF Receipt
  <1>2. Leaves(w) /\ trouble' \in 0 .. MaxTrouble
    BY <1>1, TroubleTypes DEF Leaves, At
  <1>3. /\ work[w] \in Work /\ work \in [Consumers -> Work]
        /\ saved \in [Chunks -> Nat] /\ RecordOK(w) /\ ClaimOK(w)
    BY DEF DInv, TypeOK
  <1>4. /\ answer = "text" /\ work[w].known = Chunks /\ work[w].ids \in [Chunks -> Nat]
        /\ work[w].pending \subseteq Chunks
        /\ \A d \in Chunks : work[w].ids[d] = saved[d] /\ saved[d] # 0
        /\ \A d \in Chunks \ work[w].pending : receipted[d]
        /\ \A d \in Chunks : work[w].ids[d] <= made[d]
    BY <1>1, <1>3 DEF RecordOK, At, Holding, Work
  <1>5. UNCHANGED <<status, owner, attempts, saved, receipted, answer, made, visible, remembered>>
    BY <1>1 DEF rowvars, discord
  <1>6. PICK there \in {"acking", "noting"} :
          /\ work' = [work EXCEPT ![w].pc = there]
          /\ there = "acking" => work[w].pending = {} /\ ledger' = ledger
          /\ there = "noting" => work[w].pending # {} /\ ledger' = ledger \union {work[w].ids}
    BY DEF Receipt, Receipted
  <1>7. /\ work'[w] \in Work /\ work'[w].pc = there /\ work'[w].ids = work[w].ids
        /\ work'[w].known = work[w].known /\ work'[w].pending = work[w].pending
        /\ work'[w].tries = work[w].tries
    BY <1>3, <1>6 DEF Work, Working
  <1>8. Moved(w)
    BY <1>3, <1>6, <1>7 DEF Moved
  <1>9. work[w].ids = saved
    BY <1>3, <1>4
  <1>10. LedgerOK' /\ Onward
    <2>1. \A d \in Chunks : made[d] \in Nat
      BY DEF DInv, TypeOK
    <2>2. ledger \subseteq ledger' /\ \A r \in ledger' : r \in ledger \/ r = saved
      BY <1>6, <1>9
    <2>3. ledger # {} => ledger' # {}
      BY <2>2
    <2>4. Onward
      BY <1>5, <2>1, <2>3 DEF Onward
    <2>5. Complete => Complete'
      BY <2>4, CompleteStays
    <2>6. \A r \in ledger' : r = saved'
      BY <1>5, <2>2 DEF DInv, LedgerOK
    <2>7. LedgerOK'
      BY <1>4, <1>5, <2>3, <2>5, <2>6 DEF DInv, LedgerOK
    <2> QED
      BY <2>4, <2>7
  <1>11. TypeOK'
    <2>1. ledger' \subseteq [Chunks -> Nat]
      BY <1>4, <1>6 DEF DInv, TypeOK
    <2> QED
      BY <1>1, <1>8, <2>1 DEF DInv, TypeOK, Moved, rowvars, discord
  <1>12. RecordOK(w)'
    <2>1. there = "acking" => Complete'
      <3>1. there = "acking" => \A d \in Chunks : receipted[d]
        BY <1>4, <1>6
      <3>2. (\A d \in Chunks : receipted[d]) => ledger # {}
        BY ChunkRange DEF DInv, LedgerOK
      <3> QED
        BY <1>5, <1>6, <3>1, <3>2 DEF Complete
    <2>2. there = "noting" => ledger' # {}
      BY <1>6
    <2> QED
      BY <1>4, <1>5, <1>6, <1>7, <2>1, <2>2 DEF RecordOK, At, Posting, Holding, Delivering
  <1>13. ClaimOK(w)'
    BY <1>1, <1>3, <1>5, <1>7 DEF ClaimOK, At, Delivering
  <1> QED
    BY <1>1, <1>2, <1>5, <1>8, <1>10, <1>11, <1>12, <1>13, StepKeeps

\* The next chunk to mark is one of them.
LEMMA LeastIn ==
  ASSUME NEW S, S \subseteq Nat, S # {}
  PROVE  Min(S) \in S
  <1>1. PICK x \in S : \A y \in S : x <= y
    BY LeastNatural
  <1> QED
    BY <1>1 DEF Min

\* With the last mark the batch may be acknowledged.
LEMMA MarkReceiptedKeeps ==
  ASSUME DInv, NEW w \in Consumers, MarkReceipted(w)
  PROVE  DInv'
  <1> DEFINE c == Min(work[w].pending)
             rest == work[w].pending \ {c}
  <1>1. At(w, {"noting"}) /\ UNCHANGED <<answer, ledger, discord, requests, trouble>>
    BY DEF MarkReceipted
  <1>2. Leaves(w) /\ trouble' \in 0 .. MaxTrouble
    BY <1>1, TroubleTypes DEF Leaves, At
  <1>3. /\ work[w] \in Work /\ work \in [Consumers -> Work]
        /\ receipted \in [Chunks -> BOOLEAN] /\ RecordOK(w) /\ ClaimOK(w)
    BY DEF DInv, TypeOK
  <1>4. /\ answer = "text" /\ work[w].known = Chunks /\ ledger # {}
        /\ work[w].pending \subseteq Chunks /\ work[w].pending # {}
        /\ \A d \in Chunks : work[w].ids[d] = saved[d] /\ saved[d] # 0
        /\ \A d \in Chunks \ work[w].pending : receipted[d]
        /\ \A d \in Chunks : work[w].ids[d] <= made[d]
    BY <1>1, <1>3 DEF RecordOK, At, Holding, Work
  <1>5. CASE ~Owned(w)
    BY <1>1, <1>2, <1>5, IdleKeeps DEF MarkReceipted, OnRows
  <1>6. CASE Owned(w)
    <2>1. c \in work[w].pending /\ c \in Chunks
      <3>1. work[w].pending \subseteq Nat
        BY <1>4, ChunkRange
      <3>2. c \in work[w].pending
        BY <1>4, <3>1, LeastIn
      <3> QED
        BY <1>4, <3>2
    <2>2. /\ receipted' = [receipted EXCEPT ![c] = TRUE]
          /\ work' = [work EXCEPT ![w].pending = rest,
                                  ![w].pc = IF rest = {} THEN "acking" ELSE @]
          /\ UNCHANGED <<status, owner, leased, due, attempts, planned, saved>>
      BY <1>6 DEF MarkReceipted, OnRows
    <2> HIDE DEF c
    <2>3. /\ receipted' \in [Chunks -> BOOLEAN]
          /\ \A d \in Chunks : receipted'[d] <=> receipted[d] \/ d = c
      BY <1>3, <2>1, <2>2
    <2>4. /\ work'[w] \in Work /\ work'[w].pc = IF rest = {} THEN "acking" ELSE "noting"
          /\ work'[w].ids = work[w].ids /\ work'[w].known = work[w].known
          /\ work'[w].pending = rest /\ work'[w].tries = work[w].tries
      BY <1>1, <1>3, <2>2 DEF Work, At, Working
    <2>5. Moved(w)
      BY <1>3, <2>2, <2>4 DEF Moved
    <2>6. \A d \in Chunks \ rest : receipted'[d]
      BY <1>4, <2>1, <2>3
    <2>7. UNCHANGED <<made, visible, remembered>>
      BY <1>1 DEF discord
    <2>8. Onward
      <3>1. \A d \in Chunks : made[d] \in Nat
        BY DEF DInv, TypeOK
      <3> QED
        BY <1>1, <2>2, <2>3, <2>7, <3>1 DEF Onward
    <2>9. LedgerOK'
      <3>1. Complete => Complete'
        BY <2>8, CompleteStays
      <3> QED
        BY <1>1, <1>4, <2>2, <2>7, <3>1 DEF DInv, LedgerOK
    <2>10. TypeOK'
      BY <1>1, <2>2, <2>3, <2>5, <2>7 DEF DInv, TypeOK, Moved
    <2>11. RecordOK(w)'
      <3>1. rest = {} => Complete'
        BY <1>1, <1>4, <2>6 DEF Complete
      <3>2. UNCHANGED <<answer, ledger, saved, made, visible, remembered>>
        BY <1>1, <2>2, <2>7
      <3>3. work'[w].pc \in {"acking", "noting"} /\ (work'[w].pc = "noting" <=> rest # {})
        BY <2>4
      <3> HIDE DEF rest
      <3>4. \A d \in Chunks : work'[w].ids[d] <= made'[d]
        BY <1>4, <2>4, <3>2
      <3>5. /\ \A d \in work'[w].known : work'[w].ids[d] = saved'[d] /\ saved'[d] # 0
            /\ \A d \in Chunks \ work'[w].pending : receipted'[d]
        BY <1>4, <2>4, <2>6, <3>2
      <3>6. work'[w].pc = "acking" => Complete'
        BY <3>1, <3>3
      <3>7. work'[w].pc = "noting" => work'[w].pending # {}
        BY <2>4, <3>3
      <3>8. answer' = "text" /\ work'[w].known = Chunks /\ ledger' # {}
        BY <1>4, <2>4, <3>2
      <3> QED
        BY <3>3, <3>4, <3>5, <3>6, <3>7, <3>8 DEF RecordOK, At, Posting, Holding, Delivering
    <2>12. ClaimOK(w)'
      BY <1>1, <1>3, <2>2, <2>4 DEF ClaimOK, At, Delivering
    <2> QED
      BY <1>1, <1>2, <2>2, <2>5, <2>8, <2>9, <2>10, <2>11, <2>12, StepKeeps
  <1> QED
    BY <1>5, <1>6

\* The consumer is through with the batch, and the claim is given up.
LEMMA ReleaseKeeps ==
  ASSUME DInv, NEW w \in Consumers, Leaves(w), work' = [work EXCEPT ![w] = Idle],
         owner' = None, leased' \in BOOLEAN, due' \in BOOLEAN, attempts' \in 0 .. MaxFailures + 1,
         status' \in {"live", "processed", "dead_lettered"},
         status' = "processed" => Complete, status' = "live" => attempts' <= MaxFailures,
         UNCHANGED <<planned, saved, receipted, answer, ledger, discord, requests, trouble>>
  PROVE  DInv'
  <1>1. Idle \in Work
    BY DeliveryAssumption DEF Idle, Work, Chunks, Verdicts
  <1>2. Moved(w) /\ work'[w] = Idle
    BY <1>1 DEF DInv, TypeOK, Moved
  <1>3. UNCHANGED <<made, visible, remembered>>
    BY DEF discord
  <1>4. TypeOK'
    BY <1>2, <1>3 DEF DInv, TypeOK, Moved
  <1>5. Onward
    BY <1>3, OnwardSame
  <1>6. Complete => Complete'
    BY <1>5, CompleteStays
  <1>7. LedgerOK'
    BY <1>3, <1>6 DEF DInv, LedgerOK
  <1>8. RecordOK(w)'
    <2>1. Idle.pc = "idle" /\ \A c \in Chunks : Idle.ids[c] = 0 /\ made'[c] \in Nat
      BY <1>4 DEF Idle, TypeOK
    <2> QED
      BY <1>2, <2>1 DEF RecordOK, At, Posting, Holding, Delivering
  <1>9. ClaimOK(w)' /\ \A v \in Consumers : owner' # v
    BY DeliveryAssumption DEF ClaimOK
  <1> QED
    BY <1>2, <1>4, <1>5, <1>7, <1>8, <1>9, StepKeeps

\* mark_processed.
LEMMA AcknowledgeKeeps ==
  ASSUME DInv, NEW w \in Consumers, Acknowledge(w)
  PROVE  DInv'
  <1>1. At(w, {"acking"}) /\ UNCHANGED <<answer, ledger, discord, requests, trouble>>
    BY DEF Acknowledge
  <1>2. Leaves(w) /\ trouble' \in 0 .. MaxTrouble
    BY <1>1, TroubleTypes DEF Leaves, At
  <1>3. CASE ~Owned(w)
    BY <1>1, <1>2, <1>3, IdleKeeps DEF Acknowledge, OnRows
  <1>4. CASE Owned(w)
    <2>1. /\ status' = "processed" /\ owner' = None /\ leased' = FALSE
          /\ work' = [work EXCEPT ![w] = Idle]
          /\ UNCHANGED <<due, attempts, planned, saved, receipted>>
      BY <1>4 DEF Acknowledge, OnRows
    <2>2. Complete /\ due \in BOOLEAN /\ attempts \in 0 .. MaxFailures + 1
      BY <1>1 DEF DInv, RecordOK, TypeOK
    <2> QED
      BY <1>1, <1>2, <2>1, <2>2, ReleaseKeeps
  <1> QED
    BY <1>3, <1>4

\* The verdict of an attempt that failed.
LEMMA SettleKeeps ==
  ASSUME DInv, NEW w \in Consumers, Settle(w)
  PROVE  DInv'
  <1>1. At(w, {"ending"}) /\ UNCHANGED <<answer, ledger, discord, requests, trouble>>
    BY DEF Settle
  <1>2. Leaves(w) /\ trouble' \in 0 .. MaxTrouble
    BY <1>1, TroubleTypes DEF Leaves, At
  <1>3. CASE ~Owned(w)
    BY <1>1, <1>2, <1>3, IdleKeeps DEF Settle, OnRows
  <1>4. CASE Owned(w)
    <2>1. /\ status' = IF work[w].verdict = "drop" THEN "dead_lettered" ELSE status
          /\ due' = (work[w].verdict = "drop") /\ attempts' = AttemptsAfter(w)
          /\ owner' = None /\ leased' = FALSE /\ work' = [work EXCEPT ![w] = Idle]
          /\ UNCHANGED <<planned, saved, receipted>>
      BY <1>4 DEF Settle, OnRows
    <2>2. status = "live" /\ owner = w
      BY <1>4 DEF Owned
    <2>3. /\ attempts \in Nat /\ attempts <= MaxFailures /\ work[w].tries = attempts
          /\ work[w].verdict \in Verdicts
          /\ work[w].verdict = "retry" => attempts < MaxFailures
      <3>1. attempts \in 0 .. MaxFailures + 1 /\ work[w] \in Work
        BY DEF DInv, TypeOK
      <3>2. attempts <= MaxFailures
        BY <2>2 DEF DInv, LedgerOK
      <3>3. work[w].tries = attempts
        BY <1>1, <2>2 DEF DInv, ClaimOK, At
      <3>4. work[w].verdict = "retry" => work[w].tries < MaxFailures
        BY <1>1 DEF DInv, RecordOK
      <3> QED
        BY <3>1, <3>2, <3>3, <3>4, DeliveryAssumption DEF Work
    <2>4. /\ attempts' \in 0 .. MaxFailures + 1
          /\ status' = "live" => attempts' <= MaxFailures
      BY <2>1, <2>2, <2>3, DeliveryAssumption DEF AttemptsAfter, Verdicts
    <2>5. status' \in {"live", "dead_lettered"} /\ due' \in BOOLEAN
      BY <2>1, <2>2
    <2> QED
      BY <1>1, <1>2, <2>1, <2>4, <2>5, ReleaseKeeps
  <1> QED
    BY <1>3, <1>4

-------------------------------------------------------------------------------
(* Time and Discord                                                        *)

\* No consumer moves, and no message is made.
LEMMA WorldKeeps ==
  ASSUME DInv, UNCHANGED <<status, owner, attempts, planned, saved, receipted, answer, ledger, work, made>>,
         leased' \in BOOLEAN, due' \in BOOLEAN, trouble' \in 0 .. MaxTrouble, requests' \subseteq requests,
         visible' \in [Chunks -> SUBSET Nat], \A c \in Chunks : visible'[c] \subseteq visible[c],
         remembered' \subseteq remembered,
         \A r \in requests' : visible'[r[2]] # {} => r[2] \in remembered',
         \A v \in Consumers, c \in Chunks : visible'[c] # {} /\ c \notin remembered' =>
            (visible[c] # {} /\ c \notin remembered) \/ ~At(v, Delivering)
  PROVE  DInv'
  <1>1. TypeOK'
    BY DEF DInv, TypeOK
  <1>2. DiscordOK'
    BY DEF DInv, DiscordOK
  <1>3. RequestsOK' /\ LedgerOK'
    BY DEF DInv, RequestsOK, LedgerOK, Complete, At
  <1>4. ASSUME NEW v \in Consumers
        PROVE  RecordOK(v)' /\ ClaimOK(v)'
    <2>1. RecordOK(v)'
      BY OnwardSame, RecordStays DEF DInv, TypeOK
    <2>2. ClaimOK(v)'
      BY DEF DInv, ClaimOK, At
    <2> QED
      BY <2>1, <2>2
  <1> QED
    BY <1>1, <1>2, <1>3, <1>4 DEF DInv

\* The lease, the retry time, lost requests, forgotten nonces and deleted messages.
LEMMA OutsideKeeps ==
  ASSUME DInv,
         \/ Expire \/ FallDue
         \/ \E w \in Consumers \union {None}, c \in Chunks : Lose(w, c)
         \/ \E c \in Chunks : Forget(c) \/ Delete(c)
  PROVE  DInv'
  <1>1. /\ leased \in BOOLEAN /\ due \in BOOLEAN /\ trouble \in 0 .. MaxTrouble
        /\ visible \in [Chunks -> SUBSET Nat]
        /\ \A r \in requests : visible[r[2]] # {} => r[2] \in remembered
    BY DEF DInv, TypeOK, DiscordOK
  <1>2. CASE Expire \/ FallDue
    <2>1. /\ UNCHANGED <<status, owner, attempts, planned, saved, receipted, answer, ledger, work>>
          /\ UNCHANGED <<discord, requests>> /\ leased' \in BOOLEAN /\ due' \in BOOLEAN
          /\ Trouble \/ UNCHANGED trouble
      BY <1>1, <1>2 DEF Expire, FallDue
    <2>2. trouble' \in 0 .. MaxTrouble
      BY <2>1, TroubleTypes
    <2> QED
      BY <1>1, <2>1, <2>2, WorldKeeps DEF discord
  <1>3. CASE \E w \in Consumers \union {None}, c \in Chunks : Lose(w, c)
    <2>1. /\ UNCHANGED <<rowvars, answer, ledger, discord, work, trouble>>
          /\ requests' \subseteq requests
      BY <1>3 DEF Lose
    <2> QED
      BY <1>1, <2>1, WorldKeeps DEF discord, rowvars
  <1>4. ASSUME NEW c \in Chunks, Forget(c)
        PROVE  DInv'
    <2>1. /\ remembered' = remembered \ {c} /\ \A r \in requests : r[2] # c
          /\ \A w \in Consumers : ~At(w, Delivering)
          /\ UNCHANGED <<rowvars, answer, ledger, made, visible, requests, work, trouble>>
      BY <1>4 DEF Forget
    <2> QED
      BY <1>1, <2>1, WorldKeeps DEF rowvars
  <1>5. ASSUME NEW c \in Chunks, Delete(c)
        PROVE  DInv'
    <2>1. /\ visible' = [visible EXCEPT ![c] = {}]
          /\ UNCHANGED <<rowvars, answer, ledger, made, remembered, requests, work, trouble>>
      BY <1>5 DEF Delete
    <2>2. /\ visible' \in [Chunks -> SUBSET Nat]
          /\ \A d \in Chunks : visible'[d] \subseteq visible[d]
      BY <1>1, <2>1
    <2>3. \A r \in requests' : visible'[r[2]] # {} => r[2] \in remembered'
      <3>1. \A r \in requests : r[2] \in Chunks
        BY DEF DInv, TypeOK
      <3> QED
        BY <1>1, <2>1, <2>2, <3>1
    <2>4. \A d \in Chunks : visible'[d] # {} => visible[d] # {}
      BY <2>2
    <2> QED
      BY <1>1, <2>1, <2>2, <2>3, <2>4, WorldKeeps DEF rowvars
  <1> QED
    BY <1>2, <1>3, <1>4, <1>5

\* What Discord makes of a request.
LEMMA Landed ==
  ASSUME DInv, NEW w \in Consumers \union {None}, NEW c \in Chunks, Land(w, c)
  PROVE  /\ made' \in [Chunks -> Nat] /\ made'[c] > 0 /\ \A d \in Chunks : made[d] <= made'[d]
         /\ \A d \in Chunks : d # c => made'[d] = made[d]
         /\ visible' \in [Chunks -> SUBSET Nat]
         /\ \A d \in Chunks : visible'[d] \subseteq 1 .. made'[d]
         /\ \A d \in Chunks : \A i, j \in visible'[d] : i = j
         /\ remembered' = remembered \union {c}
         /\ \A d \in Chunks : d # c => visible'[d] = visible[d]
  <1>1. /\ made \in [Chunks -> Nat] /\ visible \in [Chunks -> SUBSET Nat]
        /\ \A d \in Chunks : visible[d] \subseteq 1 .. made[d]
        /\ \A d \in Chunks : \A i, j \in visible[d] : i = j
    BY DEF DInv, TypeOK, DiscordOK
  <1>2. CASE c \in remembered
    <2>1. UNCHANGED <<made, visible, remembered>>
      BY <1>2 DEF Land, discord
    <2>2. made[c] > 0
      BY <1>2 DEF DInv, DiscordOK
    <2> QED
      BY <1>1, <1>2, <2>1, <2>2
  <1>3. CASE c \notin remembered
    <2>1. /\ made' = [made EXCEPT ![c] = @ + 1]
          /\ visible' = [visible EXCEPT ![c] = @ \union {made[c] + 1}]
          /\ remembered' = remembered \union {c}
      BY <1>3 DEF Land
    <2>2. visible[c] = {}
      <3>1. <<w, c>> \in requests
        BY DEF Land
      <3> QED
        BY <1>3, <3>1 DEF DInv, DiscordOK
    <2>3. /\ made'[c] = made[c] + 1 /\ made[c] \in Nat /\ made' \in [Chunks -> Nat]
          /\ \A d \in Chunks : d # c => made'[d] = made[d]
      BY <1>1, <2>1
    <2>4. /\ visible'[c] = {made[c] + 1} /\ visible' \in [Chunks -> SUBSET Nat]
          /\ \A d \in Chunks : d # c => visible'[d] = visible[d]
      BY <1>1, <2>1, <2>2
    <2> QED
      BY <1>1, <2>1, <2>3, <2>4
  <1> QED
    BY <1>2, <1>3

\* A request arrives: the chunk is shown once more only if it was not shown.
LEMMA LandKeeps ==
  ASSUME DInv, NEW w \in Consumers \union {None}, NEW c \in Chunks, Land(w, c)
  PROVE  DInv'
  <1>1. /\ <<w, c>> \in requests /\ UNCHANGED <<rowvars, answer, ledger, trouble>>
    BY DEF Land
  <1>2. UNCHANGED <<status, owner, leased, due, attempts, planned, saved, receipted>>
    BY <1>1 DEF rowvars
  <1>3. /\ made' \in [Chunks -> Nat] /\ made'[c] > 0 /\ \A d \in Chunks : made[d] <= made'[d]
        /\ \A d \in Chunks : d # c => made'[d] = made[d]
        /\ visible' \in [Chunks -> SUBSET Nat]
        /\ \A d \in Chunks : visible'[d] \subseteq 1 .. made'[d]
        /\ \A d \in Chunks : \A i, j \in visible'[d] : i = j
        /\ remembered' = remembered \union {c}
        /\ \A d \in Chunks : d # c => visible'[d] = visible[d]
    BY Landed
  <1>4. made \in [Chunks -> Nat] /\ saved \in [Chunks -> Nat] /\ work \in [Consumers -> Work]
    BY DEF DInv, TypeOK
  <1>5. answer = "text" /\ \A d \in 1 .. c - 1 : made[d] > 0
    BY <1>1 DEF DInv, RequestsOK
  <1>6. DiscordOK' /\ \A d \in Chunks : visible'[d] # {} /\ d \notin remembered' =>
                                           visible[d] # {} /\ d \notin remembered
    <2>1. \A d \in remembered' : made'[d] > 0
      <3>1. \A d \in remembered : d \in Chunks /\ made[d] > 0
        BY DEF DInv, DiscordOK, TypeOK
      <3> QED
        BY <1>3, <1>4, <3>1
    <2>2. requests' \subseteq requests
      BY DEF Land
    <2>3. \A r \in requests' : visible'[r[2]] # {} => r[2] \in remembered'
      <3>1. \A r \in requests : r[2] \in Chunks /\ (visible[r[2]] # {} => r[2] \in remembered)
        BY DEF DInv, DiscordOK, TypeOK
      <3> QED
        BY <1>3, <2>2, <3>1
    <2> QED
      BY <1>3, <2>1, <2>3 DEF DiscordOK
  <1>7. Onward
    BY <1>1, <1>2, <1>3 DEF Onward
  <1>8. LedgerOK'
    <2>1. Complete => Complete'
      BY <1>7, CompleteStays
    <2>2. \A d \in Chunks : saved'[d] <= made'[d]
      BY <1>2, <1>3, <1>4 DEF DInv, LedgerOK
    <2> QED
      BY <1>1, <1>2, <2>1, <2>2 DEF DInv, LedgerOK
  <1>9. /\ \A d \in Chunks : made'[d] > 0 => \A e \in 1 .. d - 1 : made'[e] > 0
        /\ \A r \in requests : \A d \in 1 .. r[2] - 1 : made'[d] > 0
    <2>1. \A d \in Chunks : 1 .. d - 1 \subseteq Chunks
      BY ChunkRange
    <2>2. \A d \in Chunks : made[d] > 0 => made'[d] > 0
      BY <1>3, <1>4
    <2>3. \A d \in Chunks : made'[d] > 0 => d = c \/ made[d] > 0
      BY <1>3
    <2>4. \A r \in requests : r[2] \in Chunks /\ \A d \in 1 .. r[2] - 1 : made[d] > 0
      BY DEF DInv, RequestsOK, TypeOK
    <2>5. \A d \in Chunks : made[d] > 0 => \A e \in 1 .. d - 1 : made[e] > 0
      BY DEF DInv, RequestsOK
    <2> QED
      BY <1>5, <2>1, <2>2, <2>3, <2>4, <2>5
  <1>10. ASSUME NEW v \in Consumers, work'[v] = work[v]
         PROVE  RecordOK(v)' /\ ClaimOK(v)'
    <2>1. RecordOK(v)'
      BY <1>2, <1>3, <1>4, <1>6, <1>7, <1>10, RecordStays
    <2>2. ClaimOK(v)'
      BY <1>2, <1>10 DEF DInv, ClaimOK, At
    <2> QED
      BY <2>1, <2>2
  <1>11. CASE UNCHANGED <<requests, work>>
    <2>1. TypeOK'
      BY <1>1, <1>2, <1>3, <1>11 DEF DInv, TypeOK
    <2>2. RequestsOK'
      BY <1>1, <1>5, <1>9, <1>11 DEF DInv, RequestsOK, At
    <2> QED
      BY <1>6, <1>8, <1>10, <1>11, <2>1, <2>2 DEF DInv
  <1>12. CASE /\ w # None
              /\ requests' = requests \ {<<w, c>>}
              /\ work' = [work EXCEPT ![w] = PostReturned([work[w] EXCEPT !.ids[c] = made'[c]])]
    <2>1. /\ w \in Consumers /\ At(w, {"waiting"}) /\ work[w].chunk = c
          /\ work[w] \in Work /\ RecordOK(w) /\ ClaimOK(w)
      BY <1>1, <1>4, <1>12 DEF DInv, RequestsOK
    <2> DEFINE rec == PostReturned([work[w] EXCEPT !.ids[c] = made'[c]])
    <2>2. /\ rec \in Work /\ rec.pc = "marking" /\ rec.chunk = c
          /\ rec.ids = [work[w].ids EXCEPT ![c] = made'[c]]
          /\ rec.known = work[w].known /\ rec.pending = work[w].pending
          /\ rec.tries = work[w].tries
      BY <1>3, <2>1 DEF Work, Working, Delivering, PostReturned
    <2>3. Moved(w) /\ work'[w] = rec
      <3> HIDE DEF rec
      <3> QED
        BY <1>4, <1>12, <2>1, <2>2 DEF Moved, rec
    <2> HIDE DEF rec
    <2>4. /\ rec.ids[c] = made'[c] /\ \A d \in Chunks : d # c => rec.ids[d] = work[w].ids[d]
      BY <2>1, <2>2 DEF Work
    <2>5. TypeOK'
      BY <1>1, <1>2, <1>3, <1>12, <2>3 DEF DInv, TypeOK, Moved
    <2>6. RequestsOK'
      <3>1. \A r \in requests' : r \in requests /\ r[1] # w
        <4>1. \A r \in requests : r = <<r[1], r[2]>> /\ (r[1] = w => r[2] = c)
          <5>1. \A r \in requests : r = <<r[1], r[2]>>
            BY DEF DInv, TypeOK
          <5>2. \A r \in requests : r[1] = w => r[2] = c
            BY <1>12, <2>1 DEF DInv, RequestsOK
          <5> QED
            BY <5>1, <5>2
        <4> QED
          BY <1>12, <4>1
      <3>2. \A r \in requests' : r[1] # None => At(r[1], {"waiting"})' /\ work'[r[1]].chunk = r[2]
        <4>1. \A r \in requests : r[1] \in Consumers \union {None}
          BY DEF DInv, TypeOK
        <4> QED
          BY <2>3, <3>1, <4>1 DEF DInv, RequestsOK, Moved, At
      <3> QED
        BY <1>1, <1>5, <1>9, <3>1, <3>2 DEF RequestsOK
    <2>7. RecordOK(w)'
      <3>1. /\ answer = "text" /\ c \notin work[w].known /\ work[w].known \subseteq Chunks
            /\ 1 .. c - 1 \subseteq work[w].known
            /\ \A d \in work[w].known : work[w].ids[d] = saved[d] /\ saved[d] # 0
            /\ \A d \in Chunks \ work[w].pending : receipted[d]
            /\ \A d \in Chunks : work[w].ids[d] \in Nat /\ work[w].ids[d] <= made[d]
            /\ \A d \in Chunks :
                  visible[d] # {} /\ d \notin remembered => d \in work[w].known \/ work[w].ids[d] # 0
        BY <2>1 DEF RecordOK, At, Posting, Holding, Delivering, Work
      <3>2. \A d \in Chunks : rec.ids[d] <= made'[d]
        BY <1>3, <1>4, <2>4, <3>1
      <3>3. \A d \in Chunks : visible'[d] # {} /\ d \notin remembered' =>
                                 d \in rec.known \/ rec.ids[d] # 0
        BY <1>3, <2>2, <2>4, <3>1
      <3>4. /\ \A d \in rec.known : rec.ids[d] = saved'[d] /\ saved'[d] # 0
            /\ \A d \in Chunks \ rec.pending : receipted'[d]
        BY <1>2, <2>2, <2>4, <3>1
      <3>5. rec.ids[rec.chunk] # 0 /\ 1 .. rec.chunk - 1 \subseteq rec.known
        BY <1>3, <2>2, <2>4, <3>1
      <3> QED
        BY <1>1, <2>2, <2>3, <3>1, <3>2, <3>3, <3>4, <3>5 DEF RecordOK, At
    <2>8. ClaimOK(w)'
      BY <1>2, <2>1, <2>2, <2>3 DEF ClaimOK, At, Delivering
    <2> QED
      BY <1>6, <1>8, <1>10, <2>3, <2>5, <2>6, <2>7, <2>8 DEF DInv, Moved
  <1> QED
    BY <1>11, <1>12 DEF Land

-------------------------------------------------------------------------------
(* The theorems                                                            *)

\* The start.
LEMMA InitDInv ==
  ASSUME Init
  PROVE  DInv
  <1>1. /\ Idle \in Work /\ Idle.pc = "idle" /\ \A c \in Chunks : Idle.ids[c] = 0
        /\ Idle.verdict = "defer"
    BY DeliveryAssumption DEF Idle, Work, Chunks, Verdicts
  <1>2. TypeOK
    <2>1. \A c \in Chunks : visible[c] \subseteq 1 .. made[c]
      BY DEF Init
    <2>2. work \in [Consumers -> Work]
      BY <1>1 DEF Init
    <2>3. saved \in [Chunks -> Nat] /\ made \in [Chunks -> Nat] /\ receipted \in [Chunks -> BOOLEAN]
      BY DEF Init
    <2>4. 0 \in 0 .. MaxFailures + 1 /\ 0 \in 0 .. MaxTrouble
      BY DeliveryAssumption
    <2>5. /\ attempts \in 0 .. MaxFailures + 1 /\ trouble \in 0 .. MaxTrouble
          /\ status = "live" /\ owner = None /\ leased = FALSE /\ due = TRUE /\ answer = "none"
          /\ planned = FALSE /\ ledger = {} /\ remembered = {} /\ requests = {}
      BY <2>4 DEF Init
    <2> QED
      BY <2>1, <2>2, <2>3, <2>5 DEF TypeOK
  <1>3. DiscordOK /\ RequestsOK /\ LedgerOK
    <2>1. \A c \in Chunks : made[c] = 0 /\ saved[c] = 0 /\ visible[c] = {} /\ ~receipted[c]
      BY DEF Init
    <2>2. visible \in [Chunks -> SUBSET Nat]
      BY DEF Init
    <2> QED
      BY <2>1, <2>2, DeliveryAssumption DEF Init, DiscordOK, RequestsOK, LedgerOK
  <1>4. ASSUME NEW w \in Consumers
        PROVE  RecordOK(w) /\ ClaimOK(w)
    <2>1. work[w] = Idle /\ owner # w /\ \A c \in Chunks : made[c] = 0
      BY DeliveryAssumption DEF Init
    <2> QED
      BY <1>1, <2>1 DEF RecordOK, ClaimOK, At, Posting, Holding, Delivering
  <1> QED
    BY <1>2, <1>3, <1>4 DEF DInv

\* Each step of Next.
LEMMA NextDInv ==
  ASSUME DInv, Next
  PROVE  DInv'
  <1>1. ASSUME NEW w \in Consumers, Step(w)
        PROVE  DInv'
    BY <1>1, AskKeeps, PlanKeeps, TroubleKeeps, ReconcileKeeps, SendKeeps, MarkSentKeeps,
       ReceiptKeeps, MarkReceiptedKeeps, AcknowledgeKeeps, SettleKeeps DEF Step
  <1>2. ASSUME NEW w \in Consumers,
               NextBatch(w) \/ Postpone(w) \/ SettleFails(w) \/ Crash(w)
        PROVE  DInv'
    BY <1>2, NextBatchKeeps, TroubleKeeps
  <1>3. CASE \/ Expire \/ FallDue
             \/ \E w \in Consumers \union {None}, c \in Chunks : Lose(w, c)
             \/ \E c \in Chunks : Forget(c) \/ Delete(c)
    BY <1>3, OutsideKeeps
  <1>4. ASSUME NEW w \in Consumers \union {None}, NEW c \in Chunks, Land(w, c)
        PROVE  DInv'
    BY <1>4, LandKeeps
  <1> QED
    BY <1>1, <1>2, <1>3, <1>4 DEF Next

\* No step.
LEMMA StutterDInv ==
  ASSUME DInv, UNCHANGED vars
  PROVE  DInv'
  <1> USE DEF vars, rowvars, discord
  <1>1. TypeOK' /\ DiscordOK' /\ LedgerOK'
    BY DEF DInv, TypeOK, DiscordOK, LedgerOK, Complete
  <1>2. RequestsOK'
    BY DEF DInv, RequestsOK, At
  <1>3. ASSUME NEW w \in Consumers
        PROVE  RecordOK(w)' /\ ClaimOK(w)'
    BY DEF DInv, RecordOK, ClaimOK, At, Complete
  <1> QED
    BY <1>1, <1>2, <1>3 DEF DInv

\* The invariant holds throughout _consume_batch and _deliver_response (cogs.py).
THEOREM DeliveryInductive == Spec => []DInv
  <1>1. Init => DInv
    BY InitDInv
  <1>2. DInv /\ [Next]_vars => DInv'
    BY NextDInv, StutterDInv
  <1> QED
    BY <1>1, <1>2, PTL DEF Spec

\* However attempts fail, crash, lose their lease or are overtaken by late and
\* repeated requests, and for any number of chunks, consumers, failures and
\* troubles: an acknowledged batch has its whole reply saved and receipted under
\* one set of message ids, and the channel never shows a chunk twice
\* (_deliver_response, mark_delivery_sent, mark_processed).
THEOREM ReplyExactHolds == Spec => []ReplyExact
  <1>1. ASSUME DInv
        PROVE  AckedComplete
    <2>1. \A c \in Chunks : saved[c] \in Nat /\ made[c] \in Nat /\ saved[c] <= made[c]
      BY <1>1 DEF DInv, TypeOK, LedgerOK
    <2>2. ledger # {} => \A c \in Chunks : saved[c] # 0
      BY <1>1 DEF DInv, LedgerOK
    <2>3. ledger # {} => \A c \in Chunks : saved[c] \in 1 .. made[c]
      BY <2>1, <2>2
    <2> QED
      BY <1>1, <2>3 DEF DInv, LedgerOK, Complete, AckedComplete
  <1>2. ASSUME DInv
        PROVE  NoDuplicate
    <2>1. ASSUME NEW c \in Chunks
          PROVE  Cardinality(visible[c]) <= 1
      <3>1. \A i, j \in visible[c] : i = j
        BY <1>2 DEF DInv, DiscordOK
      <3>2. CASE visible[c] = {}
        BY <3>2, FS_EmptySet
      <3>3. CASE visible[c] # {}
        <4>1. PICK i : visible[c] = {i}
          BY <3>1, <3>3
        <4>2. Cardinality({i}) = 1
          BY FS_Singleton
        <4> QED
          BY <4>1, <4>2
      <3> QED
        BY <3>2, <3>3
    <2> QED
      BY <2>1 DEF NoDuplicate
  <1>3. DInv => ReplyExact
    BY <1>1, <1>2 DEF ReplyExact
  <1> QED
    BY <1>3, DeliveryInductive, PTL

\* A request of w is new only when w posts the chunk it is at, which it does not know.
LEMMA OnlySendPosts ==
  ASSUME DInv, [Next]_vars, NEW w \in Consumers, NEW c \in Chunks, <<w, c>> \in requests' \ requests
  PROVE  Send(w) /\ c = work[w].chunk /\ c \notin work[w].known
  <1>1. None \notin Consumers
    BY DeliveryAssumption
  <1>2. ASSUME NEW v \in Consumers, requests' = Abandoned(v)
        PROVE  FALSE
    <2>1. <<w, c>> \in Abandoned(v) /\ <<w, c>> \notin requests
      BY <1>2
    <2>2. \E q \in requests : <<w, c>> = <<None, q[2]>>
      BY <2>1 DEF Abandoned
    <2> QED
      BY <1>1, <2>2
  <1>3. ~(requests' \subseteq requests)
    OBVIOUS
  <1>4. ASSUME NEW v \in Consumers,
               NextBatch(v) \/ Postpone(v) \/ SettleFails(v) \/ Crash(v) \/ Step(v)
        PROVE  Send(v)
    <2>1. CASE Postpone(v) \/ Crash(v) \/ Fail(v) \/ Forbid(v) \/ Revoke(v)
      BY <1>2, <2>1 DEF Postpone, Crash, Fail, Forbid, Revoke, Ends
    <2>2. CASE \/ NextBatch(v) \/ SettleFails(v) \/ Ask(v) \/ Plan(v) \/ Conflict(v) \/ Reconcile(v)
               \/ MarkSent(v) \/ Receipt(v) \/ MarkReceipted(v) \/ Acknowledge(v) \/ Settle(v)
      <3>1. UNCHANGED requests
        BY <2>2 DEF NextBatch, SettleFails, Ask, Plan, Conflict, Reconcile, MarkSent, Receipt,
                    MarkReceipted, Acknowledge, Settle
      <3> QED
        BY <1>3, <3>1
    <2> QED
      BY <1>4, <2>1, <2>2 DEF Step
  <1>5. ~(\/ Expire \/ FallDue
          \/ \E v \in Consumers \union {None}, d \in Chunks : Land(v, d) \/ Lose(v, d)
          \/ \E d \in Chunks : Forget(d) \/ Delete(d))
    <2>1. (\/ Expire \/ FallDue
           \/ \E v \in Consumers \union {None}, d \in Chunks : Land(v, d) \/ Lose(v, d)
           \/ \E d \in Chunks : Forget(d) \/ Delete(d)) => requests' \subseteq requests
      BY DEF Expire, FallDue, Land, Lose, Forget, Delete
    <2> QED
      BY <1>3, <2>1
  <1>6. \E v \in Consumers : Send(v)
    BY <1>3, <1>4, <1>5 DEF Next, vars
  <1>7. PICK v \in Consumers : Send(v)
    BY <1>6
  <1>8. requests' = requests \union {<<v, work[v].chunk>>} /\ work[v].chunk \notin work[v].known
    BY <1>3, <1>7 DEF Send
  <1> QED
    BY <1>7, <1>8

\* Who holds a good claim never posts a chunk whose message id is saved, not even
\* when the message was deleted: the owner's record has every saved id, since
\* nobody else can have written one since it read the rows (_deliver_response).
THEOREM SavedNotRepostedHolds == Spec => SavedNotReposted
  <1>1. ASSUME DInv, [Next]_vars, NEW w \in Consumers, NEW c \in Chunks, Owned(w),
               <<w, c>> \in requests' \ requests
        PROVE  saved[c] = 0
    <2>1. Send(w) /\ c = work[w].chunk /\ c \notin work[w].known
      BY <1>1, OnlySendPosts
    <2>2. At(w, Delivering)
      BY <2>1 DEF Send, At, Delivering
    <2> QED
      BY <1>1, <2>1, <2>2 DEF DInv, ClaimOK, Owned
  <1>2. DInv /\ [Next]_vars =>
          \A w \in Consumers, c \in Chunks :
             Owned(w) /\ <<w, c>> \in requests' \ requests => saved[c] = 0
    BY <1>1
  <1> QED
    BY <1>2, DeliveryInductive, PTL DEF Spec, SavedNotReposted

\* A message that was not there before is the next one of the reply.
LEMMA LandPosts ==
  ASSUME DInv, NEW w \in Consumers \union {None}, NEW c \in Chunks, Land(w, c)
  PROVE  Posted' = Posted \/ Reply!Post(c)
  <1>1. /\ <<w, c>> \in requests /\ UNCHANGED status
    BY DEF Land, rowvars
  <1>2. /\ made' \in [Chunks -> Nat] /\ made'[c] > 0
        /\ \A d \in Chunks : d # c => made'[d] = made[d]
    BY Landed
  <1>3. made \in [Chunks -> Nat]
    BY DEF DInv, TypeOK
  <1>4. CASE made[c] > 0
    BY <1>2, <1>4 DEF Posted
  <1>5. CASE ~(made[c] > 0)
    <2>1. \A d \in 1 .. c - 1 : made[d] > 0
      BY <1>1 DEF DInv, RequestsOK
    <2>2. \A d \in Chunks : made[d] > 0 => \A e \in 1 .. d - 1 : made[e] > 0
      BY DEF DInv, RequestsOK
    <2>3. c \in Nat /\ c > 0 /\ c <= N /\ N \in Nat
      BY DeliveryAssumption DEF Chunks
    <2>4. \A d \in Chunks : made[d] > 0 <=> d \in 1 .. c - 1
      <3>1. \A d \in Chunks : d \in Nat /\ d > 0 /\ (d < c \/ d = c \/ c < d)
        BY <2>3 DEF Chunks
      <3>2. \A d \in Chunks : c < d => c \in 1 .. d - 1
        BY <2>3 DEF Chunks
      <3>3. \A d \in Chunks : d < c => d \in 1 .. c - 1
        BY <2>3 DEF Chunks
      <3> QED
        BY <1>5, <2>1, <2>2, <3>1, <3>2, <3>3
    <2>5. 1 .. c - 1 \subseteq Chunks /\ 1 .. c = (1 .. c - 1) \union {c}
      BY <2>3 DEF Chunks
    <2>6. Posted = 1 .. c - 1
      BY <2>4, <2>5 DEF Posted
    <2>7. Posted' = 1 .. c
      BY <1>2, <2>4, <2>5 DEF Posted
    <2>8. status # "processed"
      <3>1. answer = "text"
        BY <1>1 DEF DInv, RequestsOK
      <3>2. ledger # {} => saved[c] # 0 /\ saved[c] <= made[c] /\ saved[c] \in Nat
        BY DEF DInv, LedgerOK, TypeOK
      <3>3. ledger = {}
        BY <1>3, <1>5, <3>2
      <3> QED
        BY <3>1, <3>3 DEF DInv, LedgerOK, Complete
    <2> QED
      BY <1>1, <2>6, <2>7, <2>8 DEF Reply!Post
  <1> QED
    BY <1>4, <1>5

\* What may be acknowledged has all its chunks posted, or none.
LEMMA AcknowledgesAll ==
  ASSUME DInv, Complete
  PROVE  Posted \in {{}, 1 .. N}
  <1>1. made \in [Chunks -> Nat] /\ saved \in [Chunks -> Nat] /\ \A c \in Chunks : saved[c] <= made[c]
    BY DEF DInv, TypeOK, LedgerOK
  <1>2. CASE answer = "silent"
    BY <1>1, <1>2 DEF DInv, RequestsOK, Posted
  <1>3. CASE ledger # {}
    <2>1. \A c \in Chunks : saved[c] # 0
      BY <1>3 DEF DInv, LedgerOK
    <2>2. \A c \in Chunks : made[c] > 0
      BY <1>1, <2>1
    <2> QED
      BY <2>2 DEF Posted, Chunks
  <1> QED
    BY <1>2, <1>3 DEF Complete

\* Each step is one of the reply, or none.
LEMMA StepReplies ==
  ASSUME DInv, Next
  PROVE  Reply!Next \/ UNCHANGED <<Posted, status>>
  <1>1. UNCHANGED made => UNCHANGED Posted
    BY DEF Posted
  <1>2. ASSUME NEW w \in Consumers, Acknowledge(w)
        PROVE  Reply!Next \/ UNCHANGED <<Posted, status>>
    <2>1. UNCHANGED made
      BY <1>2 DEF Acknowledge, discord
    <2>2. CASE ~Owned(w)
      BY <1>1, <1>2, <2>1, <2>2 DEF Acknowledge, OnRows, rowvars
    <2>3. CASE Owned(w)
      <3>1. status = "live" /\ status' = "processed" /\ At(w, {"acking"})
        BY <1>2, <2>3 DEF Acknowledge, OnRows, Owned
      <3>2. Posted \in {{}, 1 .. N}
        BY <3>1, AcknowledgesAll DEF DInv, RecordOK
      <3> QED
        BY <1>1, <2>1, <3>1, <3>2 DEF Reply!Next, Reply!Acknowledge
    <2> QED
      BY <2>2, <2>3
  <1>3. ASSUME NEW w \in Consumers, Settle(w)
        PROVE  Reply!Next \/ UNCHANGED <<Posted, status>>
    <2>1. UNCHANGED made
      BY <1>3 DEF Settle, discord
    <2>2. status' = status \/ (status = "live" /\ status' = "dead_lettered")
      BY <1>3 DEF Settle, OnRows, Owned, rowvars
    <2> QED
      BY <1>1, <2>1, <2>2 DEF Reply!Next, Reply!DeadLetter
  <1>4. ASSUME NEW w \in Consumers,
               \/ NextBatch(w) \/ Postpone(w) \/ SettleFails(w) \/ Crash(w)
               \/ Ask(w) \/ Plan(w) \/ Conflict(w) \/ Reconcile(w) \/ Send(w) \/ MarkSent(w)
               \/ Receipt(w) \/ MarkReceipted(w) \/ Fail(w) \/ Forbid(w) \/ Revoke(w)
        PROVE  UNCHANGED <<made, status>>
    BY <1>4 DEF NextBatch, Postpone, SettleFails, Crash, Ask, Plan, Conflict, Reconcile, Send,
                MarkSent, Receipt, MarkReceipted, Fail, Forbid, Revoke, Ends, OnRows, rowvars, discord
  <1>5. ASSUME NEW w \in Consumers \union {None}, NEW c \in Chunks, Land(w, c)
        PROVE  Reply!Next \/ UNCHANGED <<Posted, status>>
    <2>1. Posted' = Posted \/ Reply!Post(c)
      BY <1>5, LandPosts
    <2>2. UNCHANGED status
      BY <1>5 DEF Land, rowvars
    <2> QED
      BY <2>1, <2>2 DEF Reply!Next, Chunks
  <1>6. CASE \/ Expire \/ FallDue
             \/ \E w \in Consumers \union {None}, c \in Chunks : Lose(w, c)
             \/ \E c \in Chunks : Forget(c) \/ Delete(c)
    <2>1. UNCHANGED <<made, status>>
      BY <1>6 DEF Expire, FallDue, Lose, Forget, Delete, rowvars, discord
    <2> QED
      BY <1>1, <2>1
  <1> QED
    BY <1>1, <1>2, <1>3, <1>4, <1>5, <1>6 DEF Next, Step

\* The consumers, the rows and Discord together do what AutonomyReply says: the
\* channel sees the chunks of one reply in their order, and a batch is
\* acknowledged with all of them or none (_consume_batch).
THEOREM ImplementsReplyHolds == Spec => ImplementsReply
  <1>1. Init => Reply!Init
    BY DEF Init, Reply!Init, Posted
  <1>2. DInv /\ [Next]_vars => [Reply!Next]_<<Posted, status>>
    <2>1. ASSUME DInv, UNCHANGED vars
          PROVE  UNCHANGED <<Posted, status>>
      BY <2>1 DEF vars, rowvars, discord, Posted
    <2> QED
      BY <2>1, StepReplies
  <1> QED
    BY <1>1, <1>2, DeliveryInductive, PTL DEF Spec, ImplementsReply, Reply!Spec

\* The rows, Discord's messages and the records of the consumers keep their types,
\* and the marks of a message are of messages that were made.
THEOREM DeliveryTypeCorrect == Spec => []TypeOK
  <1>1. DInv => TypeOK
    BY DEF DInv
  <1> QED
    BY <1>1, DeliveryInductive, PTL

-------------------------------------------------------------------------------
(* Reminders: the invariant                                                *)

\* The reminders of the running life of t that the channel shows.
Shown(t) ==
    {i \in DOMAIN posts : posts[i].timer = t /\ posts[i].life = row[t].life /\ ~posts[i].gone}

Pending(t) == row[t].status \in {"scheduled", "delivering"}

\* What the rows say of each other and of the channel.
RowsOK ==
    /\ \A i \in DOMAIN posts : posts[i].life <= row[posts[i].timer].life
    /\ \A t \in Timers :
          /\ row[t].message # Nothing =>
                row[t].message \in DOMAIN posts /\ posts[row[t].message].timer = t
          /\ row[t].status = "none" => row[t].life = 0 /\ row[t].message = Nothing
          /\ row[t].status # "none" => row[t].life # 0
          /\ row[t].status = "delivering" => row[t].due <= now
          /\ row[t].status = "completed" => row[t].message # Nothing

\* What the worker knows of the row it delivers, and what the row may have become.
DeliveryOK ==
    LET t == worker.timer
    IN  /\ worker.due <= now
        /\ \A u \in worker.todo : row[u].status # "none"
        /\ worker.message # Nothing =>
              worker.message \in DOMAIN posts /\ posts[worker.message].timer = t
        /\ t # Nothing => row[t].status # "none"
        /\ worker.step = "sent" => posts # <<>> /\ posts[Len(posts)].timer = t
        /\ worker.step = "fetch" => row[t].message \in {worker.message, Nothing}
        /\ worker.step \in {"fetch", "finish"} /\ row[t].status = "delivering" =>
              row[t].message # Nothing
        /\ worker.step \in {"search", "send", "sent", "save"} =>
              row[t].message = Nothing \/ posts[row[t].message].gone

\* A pending row whose reminder is not recorded has a young one.
YoungOK ==
    \A t \in Timers : \A i \in Shown(t) :
        Pending(t) /\ row[t].message # i => now <= posts[i].time + Patience

\* The search will find the reminder there is, and what it did not find is not there.
SearchOK ==
    /\ worker.step = "fetch" => \A i \in Shown(worker.timer) :
          i = worker.message \/ worker.due <= posts[i].time + Window
    /\ worker.step = "search" => \A i \in Shown(worker.timer) :
          worker.due <= posts[i].time + Window
    /\ worker.step = "send" => Shown(worker.timer) = {}

OneShown == \A t \in Timers : \A i, j \in Shown(t) : i = j

\* The history reaches as far back as reminders may stay unrecorded, and none stayed longer.
InTime == ~late /\ Patience <= Window

TimerInv ==
    /\ TimerTypeOK /\ RowsOK /\ DeliveryOK
    /\ InTime => YoungOK /\ SearchOK /\ OneShown

\* Spelled out in every proof below.
USE DEF InTime

\* The reminders are numbered, and each is of a timer.
LEMMA PostsAre ==
  ASSUME TimerTypeOK
  PROVE  /\ Len(posts) \in Nat /\ DOMAIN posts = 1 .. Len(posts)
         /\ \A i \in DOMAIN posts : posts[i] \in Posts
  <1>1. posts \in Seq(Posts)
    BY DEF TimerTypeOK
  <1> QED
    BY <1>1

\* A change of rows that takes no timer back to an earlier life and no reminder
\* of a pending row away from it.
Evolves(t) ==
    /\ row[t].life <= row'[t].life
    /\ row'[t].life = row[t].life => \A i \in Shown(t) :
          Pending(t)' /\ row'[t].message # i => Pending(t) /\ row[t].message # i
    /\ row'[t].message # Nothing =>
          row'[t].message \in DOMAIN posts /\ posts[row'[t].message].timer = t
    /\ row'[t].status = "none" => row'[t].life = 0 /\ row'[t].message = Nothing
    /\ row'[t].status # "none" => row'[t].life # 0
    /\ row'[t].status = "delivering" => row'[t].due <= now
    /\ row'[t].status = "completed" => row'[t].message # Nothing

\* A row that stays as it is.
LEMMA SameEvolves ==
  ASSUME TimerInv, NEW t \in Timers, row'[t] = row[t]
  PROVE  Evolves(t)
  <1>1. row[t].life \in Nat
    BY TimerAssumption DEF TimerInv, TimerTypeOK, Rows
  <1> QED
    BY <1>1 DEF TimerInv, RowsOK, Evolves, Pending

\* Such a change keeps what the rows say of each other and of the channel.
LEMMA RowsEvolve ==
  ASSUME TimerInv, UNCHANGED <<now, posts, late>>, row' \in [Timers -> Rows], \A t \in Timers : Evolves(t)
  PROVE  /\ RowsOK' /\ (InTime => YoungOK' /\ OneShown')
         /\ \A t \in Timers : Shown(t)' \subseteq Shown(t)
  <1>1. /\ row \in [Timers -> Rows] /\ \A i \in DOMAIN posts : posts[i] \in Posts
        /\ \A i \in DOMAIN posts : posts[i].life <= row[posts[i].timer].life
    BY PostsAre DEF TimerInv, TimerTypeOK, RowsOK
  <1>2. \A t \in Timers : row[t].life \in Nat /\ row'[t].life \in Nat /\ row[t].life <= row'[t].life
    BY <1>1, TimerAssumption DEF Rows, Evolves
  <1>3. \A i \in DOMAIN posts : posts[i].timer \in Timers /\ posts[i].life \in Nat
    BY <1>1, TimerAssumption DEF Posts
  <1>4. ASSUME NEW t \in Timers, NEW i \in Shown(t)'
        PROVE  i \in Shown(t) /\ row'[t].life = row[t].life
    <2>1. i \in DOMAIN posts /\ posts[i].timer = t /\ posts[i].life = row'[t].life /\ ~posts[i].gone
      BY <1>4 DEF Shown
    <2>2. posts[i].life <= row[t].life
      BY <1>1, <2>1
    <2>3. row'[t].life = row[t].life
      BY <1>2, <2>1, <2>2
    <2> QED
      BY <2>1, <2>3 DEF Shown
  <1>5. RowsOK'
    <2>1. \A i \in DOMAIN posts : posts[i].life <= row'[posts[i].timer].life
      BY <1>1, <1>2, <1>3
    <2> QED
      BY <2>1 DEF RowsOK, Evolves
  <1>6. InTime => OneShown'
    BY <1>4 DEF TimerInv, OneShown
  <1>7. InTime => YoungOK'
    BY <1>4 DEF TimerInv, YoungOK, Evolves
  <1> QED
    BY <1>4, <1>5, <1>6, <1>7

\* A change of rows beside the worker.
LEMMA BesideKeeps ==
  ASSUME TimerInv, UNCHANGED <<now, posts, worker, errors, late>>, row' \in [Timers -> Rows],
         \A t \in Timers : Evolves(t),
         \A t \in Timers : row[t].status # "none" => row'[t].status # "none",
         \A t \in Timers : row[t].status # "none" =>
            /\ row'[t].message = row[t].message \/ row'[t].message = Nothing
            /\ row'[t].status = "delivering" => row'[t] = row[t]
  PROVE  TimerInv'
  <1>1. RowsOK' /\ (InTime => YoungOK' /\ OneShown') /\ \A t \in Timers : Shown(t)' \subseteq Shown(t)
    BY RowsEvolve
  <1>2. TimerTypeOK'
    BY DEF TimerInv, TimerTypeOK
  <1>3. /\ worker.todo \subseteq Timers /\ worker.timer \in Timers \union {Nothing}
        /\ worker.step # "next" => worker.timer # Nothing
    BY DEF TimerInv, TimerTypeOK
  <1>4. DeliveryOK'
    BY <1>3 DEF TimerInv, DeliveryOK
  <1>5. InTime => SearchOK'
    BY <1>1, <1>3 DEF TimerInv, SearchOK
  <1> QED
    BY <1>1, <1>2, <1>4, <1>5 DEF TimerInv

\* A later instant is one of the clock.
LEMMA LaterIs ==
  ASSUME TimerInv, NEW ticks \in Nat
  PROVE  Later(ticks) \in 0 .. MaxTime
  BY TimerAssumption DEF TimerInv, TimerTypeOK, Later

\* What users do with a timer.
LEMMA UserKeeps ==
  ASSUME TimerInv, NEW t \in Timers, Create(t) \/ Cancel(t) \/ Restore(t)
  PROVE  TimerInv'
  <1>1. /\ row \in [Timers -> Rows] /\ row[t] \in Rows
        /\ MaxLives \in Nat /\ MaxLives # 0
    BY TimerAssumption DEF TimerInv, TimerTypeOK
  <1>2. UNCHANGED <<now, posts, worker, errors, late>>
    BY DEF Create, Cancel, Restore
  <1>3. CASE Create(t)
    <2> DEFINE r == [status |-> "scheduled", due |-> Later(Duration), message |-> Nothing, life |-> 1]
    <2>1. row[t].status = "none" /\ row' = [row EXCEPT ![t] = r]
      BY <1>3 DEF Create
    <2>2. r \in Rows /\ r.status = "scheduled" /\ r.message = Nothing /\ r.life = 1
      BY <1>1, LaterIs, TimerAssumption DEF Rows, Statuses
    <2> HIDE DEF r
    <2>3. row' \in [Timers -> Rows] /\ row'[t] = r /\ \A u \in Timers \ {t} : row'[u] = row[u]
      BY <1>1, <2>1, <2>2
    <2>4. row[t].life = 0
      BY <2>1 DEF TimerInv, RowsOK
    <2>5. \A u \in Timers : Evolves(u)
      <3>1. Evolves(t)
        BY <2>2, <2>3, <2>4 DEF Evolves
      <3> QED
        BY <2>3, <3>1, SameEvolves
    <2>6. ASSUME NEW u \in Timers, row[u].status # "none"
          PROVE  row'[u] = row[u]
      BY <2>1, <2>3, <2>6
    <2> QED
      BY <1>2, <2>3, <2>5, <2>6, BesideKeeps
  <1>4. CASE Cancel(t)
    <2> DEFINE r == [row[t] EXCEPT !.status = "cancelled"]
    <2>1. Pending(t) /\ row' = [row EXCEPT ![t] = r]
      BY <1>4 DEF Cancel, Pending
    <2>2. /\ r \in Rows /\ r.status = "cancelled" /\ r.message = row[t].message
          /\ r.life = row[t].life
      BY <1>1 DEF Rows, Statuses
    <2> HIDE DEF r
    <2>3. row' \in [Timers -> Rows] /\ row'[t] = r /\ \A u \in Timers \ {t} : row'[u] = row[u]
      BY <1>1, <2>1, <2>2
    <2>4. row[t].life \in Nat /\ row[t].status # "none"
      BY <1>1, <2>1 DEF Rows, Pending
    <2>5. \A u \in Timers : Evolves(u)
      <3>1. Evolves(t)
        BY <2>2, <2>3, <2>4 DEF Evolves, Pending, TimerInv, RowsOK
      <3> QED
        BY <2>3, <3>1, SameEvolves
    <2> QED
      BY <1>2, <2>2, <2>3, <2>5, BesideKeeps
  <1>5. CASE Restore(t)
    <2> DEFINE r == Restored(row[t])
    <2>1. row[t].status = "cancelled" /\ row[t].life < MaxLives /\ row' = [row EXCEPT ![t] = r]
      BY <1>5 DEF Restore
    <2>2. /\ r \in Rows /\ r.status = "scheduled" /\ r.message = Nothing
          /\ r.life = row[t].life + 1 /\ row[t].life \in Nat
      <3>1. row[t].life \in 0 .. MaxLives /\ row[t].due \in 0 .. MaxTime
        BY <1>1 DEF Rows
      <3>2. row[t].life + 1 \in 0 .. MaxLives
        BY <1>1, <2>1, <3>1
      <3>3. Later(RestoreDelay) \in 0 .. MaxTime
        BY LaterIs, TimerAssumption
      <3>4. \A a, b \in 0 .. MaxTime : (IF a > b THEN a ELSE b) \in 0 .. MaxTime
        OBVIOUS
      <3> HIDE DEF r
      <3>5. r = [status |-> "scheduled",
                 due |-> IF row[t].due > Later(RestoreDelay) THEN row[t].due ELSE Later(RestoreDelay),
                 message |-> Nothing, life |-> row[t].life + 1]
        BY DEF r, Restored
      <3> QED
        BY <3>1, <3>2, <3>3, <3>4, <3>5 DEF Rows, Statuses
    <2> HIDE DEF r
    <2>3. row' \in [Timers -> Rows] /\ row'[t] = r /\ \A u \in Timers \ {t} : row'[u] = row[u]
      BY <1>1, <2>1, <2>2
    <2>4. \A u \in Timers : Evolves(u)
      <3>1. Evolves(t)
        BY <2>2, <2>3 DEF Evolves
      <3> QED
        BY <2>3, <3>1, SameEvolves
    <2> QED
      BY <1>2, <2>2, <2>3, <2>4, BesideKeeps
  <1> QED
    BY <1>3, <1>4, <1>5

\* Time passes: what has been unrecorded too long is late from now on.
LEMMA TickKeeps ==
  ASSUME TimerInv, Tick
  PROVE  TimerInv'
  <1>1. /\ now < MaxTime /\ now' = now + 1 /\ now \in Nat /\ UNCHANGED <<row, posts, worker, errors>>
        /\ late' \in BOOLEAN /\ MaxTime \in Nat
    BY TimerAssumption DEF Tick, TimerInv, TimerTypeOK
  <1>2. TimerTypeOK'
    <2>1. now' \in 0 .. MaxTime
      BY <1>1
    <2> QED
      BY <1>1, <2>1 DEF TimerInv, TimerTypeOK
  <1>3. \A t \in Timers : row[t].due \in Nat
    BY TimerAssumption DEF TimerInv, TimerTypeOK, Rows
  <1>4. worker.due \in Nat
    BY TimerAssumption DEF TimerInv, TimerTypeOK
  <1>5. RowsOK'
    BY <1>1, <1>3 DEF TimerInv, RowsOK
  <1>6. DeliveryOK'
    BY <1>1, <1>4 DEF TimerInv, DeliveryOK
  <1>7. \A t \in Timers : Shown(t)' = Shown(t)
    BY <1>1 DEF Shown
  <1>8. ~late' => ~late /\ \A i \in DOMAIN posts : Unrecorded(i) => now < posts[i].time + Patience
    <2>1. \A i \in DOMAIN posts : posts[i].time \in Nat
      BY PostsAre, TimerAssumption DEF TimerInv, Posts
    <2>2. late' = (late \/ \E i \in DOMAIN posts : Unrecorded(i) /\ now >= posts[i].time + Patience)
      BY DEF Tick
    <2>3. late \in BOOLEAN /\ Patience \in Nat
      BY TimerAssumption DEF TimerInv, TimerTypeOK
    <2>4. ~late' => ~late /\ \A i \in DOMAIN posts : Unrecorded(i) => ~(now >= posts[i].time + Patience)
      BY <2>2, Zenon
    <2>5. \A i \in DOMAIN posts : ~(now >= posts[i].time + Patience) => now < posts[i].time + Patience
      BY <1>1, <2>1, <2>3
    <2> QED
      BY <2>4, <2>5
  <1>9. InTime' => YoungOK' /\ SearchOK' /\ OneShown'
    <2>1. SUFFICES ASSUME InTime'
                   PROVE  YoungOK' /\ SearchOK' /\ OneShown'
      OBVIOUS
    <2>2. SearchOK /\ OneShown /\ \A i \in DOMAIN posts : Unrecorded(i) => now < posts[i].time + Patience
      BY <1>8, <2>1 DEF TimerInv
    <2>3. OneShown'
      BY <1>7, <2>2 DEF OneShown
    <2>4. SearchOK'
      BY <1>1, <1>7, <2>2 DEF SearchOK, Shown
    <2>5. ASSUME NEW t \in Timers, NEW i \in Shown(t), Pending(t), row[t].message # i
          PROVE  now + 1 <= posts[i].time + Patience
      <3>1. i \in DOMAIN posts /\ Unrecorded(i)
        BY <2>5 DEF Shown, Pending, Unrecorded
      <3>2. posts[i].time \in Nat /\ Patience \in Nat
        BY <3>1, PostsAre, TimerAssumption DEF TimerInv, Posts
      <3> QED
        BY <1>1, <2>2, <3>1, <3>2
    <2>6. YoungOK'
      BY <1>1, <1>7, <2>5 DEF YoungOK, Pending
    <2> QED
      BY <2>3, <2>4, <2>6
  <1> QED
    BY <1>2, <1>5, <1>6, <1>9 DEF TimerInv

\* A deletion of a message by people.
LEMMA DeleteKeeps ==
  ASSUME TimerInv, NEW i \in DOMAIN posts, DeleteReminder(i)
  PROVE  TimerInv'
  <1>1. posts' = [posts EXCEPT ![i].gone = TRUE] /\ UNCHANGED <<now, row, worker, errors, late>>
    BY DEF DeleteReminder
  <1>2. posts \in Seq(Posts) /\ Len(posts) <= MaxPosts /\ posts[i] \in Posts
    BY PostsAre DEF TimerInv, TimerTypeOK
  <1>3. [posts[i] EXCEPT !.gone = TRUE] \in Posts
    BY <1>2 DEF Posts
  <1>4. posts' \in Seq(Posts) /\ Len(posts') = Len(posts) /\ DOMAIN posts' = DOMAIN posts
    BY <1>1, <1>2, <1>3
  <1>5. \A j \in DOMAIN posts : /\ posts'[j].timer = posts[j].timer /\ posts'[j].time = posts[j].time
                                /\ posts'[j].life = posts[j].life
                                /\ posts[j].gone => posts'[j].gone
    BY <1>1, <1>2 DEF Posts
  <1>6. \A t \in Timers : Shown(t)' \subseteq Shown(t)
    BY <1>1, <1>4, <1>5 DEF Shown
  <1>7. TimerTypeOK'
    BY <1>1, <1>2, <1>4 DEF TimerInv, TimerTypeOK
  <1>8. RowsOK'
    <2>1. \A t \in Timers : row[t].message # Nothing =>
                row[t].message \in DOMAIN posts /\ posts'[row[t].message].timer = t
      BY <1>5 DEF TimerInv, RowsOK
    <2>2. \A j \in DOMAIN posts : posts'[j].life <= row[posts'[j].timer].life
      BY <1>5 DEF TimerInv, RowsOK
    <2> QED
      BY <1>1, <1>4, <2>1, <2>2 DEF TimerInv, RowsOK
  <1>9. DeliveryOK'
    <2>1. worker.timer \in Timers \union {Nothing} /\ (worker.step # "next" => worker.timer \in Timers)
      BY DEF TimerInv, TimerTypeOK
    <2>2. \A t \in Timers : row[t].message # Nothing => row[t].message \in DOMAIN posts
      BY DEF TimerInv, RowsOK
    <2>3. worker.step = "sent" => posts' # <<>> /\ posts'[Len(posts')].timer = worker.timer
      <3>1. posts # <<>> => Len(posts) \in DOMAIN posts
        BY <1>2
      <3>2. posts # <<>> => posts' # <<>>
        BY <1>2, <1>4
      <3> QED
        BY <1>4, <1>5, <3>1, <3>2 DEF TimerInv, DeliveryOK
    <2>4. worker.message # Nothing =>
              worker.message \in DOMAIN posts' /\ posts'[worker.message].timer = worker.timer
      BY <1>4, <1>5 DEF TimerInv, DeliveryOK
    <2>5. worker.step \in {"search", "send", "sent", "save"} =>
              row[worker.timer].message = Nothing \/ posts'[row[worker.timer].message].gone
      BY <1>5, <2>1, <2>2 DEF TimerInv, DeliveryOK
    <2> QED
      BY <1>1, <2>3, <2>4, <2>5 DEF TimerInv, DeliveryOK
  <1>10. InTime' => YoungOK' /\ SearchOK' /\ OneShown'
    <2>1. SUFFICES ASSUME InTime
                   PROVE  YoungOK' /\ SearchOK' /\ OneShown'
      BY <1>1
    <2>2. YoungOK /\ SearchOK /\ OneShown
      BY <2>1 DEF TimerInv
    <2>3. \A t \in Timers : \A j \in Shown(t)' : j \in Shown(t) /\ posts'[j].time = posts[j].time
      BY <1>5, <1>6 DEF Shown
    <2>4. worker.timer \in Timers \union {Nothing} /\ (worker.step # "next" => worker.timer \in Timers)
      BY DEF TimerInv, TimerTypeOK
    <2>5. OneShown' /\ YoungOK'
      BY <1>1, <2>2, <2>3 DEF OneShown, YoungOK, Pending
    <2>6. SearchOK'
      BY <1>1, <2>2, <2>3, <2>4 DEF SearchOK
    <2> QED
      BY <2>5, <2>6
  <1> QED
    BY <1>7, <1>8, <1>9, <1>10 DEF TimerInv

-------------------------------------------------------------------------------
(* Reminders: the worker                                                   *)

\* A step of the worker that changes neither rows nor reminders.
LEMMA WorkerKeeps ==
  ASSUME TimerInv, UNCHANGED <<now, row, posts, late>>, errors' \in 0 .. MaxErrors,
         worker' \in [step : Steps, todo : SUBSET Timers, timer : Timers \union {Nothing},
                      due : 0 .. MaxTime, message : PostIds \union {Nothing}],
         (worker'.timer = Nothing) = (worker'.step = "next"),
         worker'.step \in {"fetch", "save"} => worker'.message # Nothing,
         DeliveryOK', InTime => SearchOK'
  PROVE  TimerInv'
  <1>1. TimerTypeOK'
    BY DEF TimerInv, TimerTypeOK
  <1>2. RowsOK'
    BY DEF TimerInv, RowsOK
  <1>3. \A t \in Timers : Shown(t)' = Shown(t)
    BY DEF Shown
  <1>4. InTime => YoungOK' /\ OneShown'
    BY <1>3 DEF TimerInv, YoungOK, OneShown, Pending
  <1> QED
    BY <1>1, <1>2, <1>4 DEF TimerInv

\* What the worker remembers, by its step.
LEMMA WorkerIs ==
  ASSUME TimerInv
  PROVE  /\ worker \in [step : Steps, todo : SUBSET Timers, timer : Timers \union {Nothing},
                        due : 0 .. MaxTime, message : PostIds \union {Nothing}]
         /\ worker.step = "next" => worker.timer = Nothing
         /\ worker.step # "next" => worker.timer \in Timers
         /\ worker.timer = Nothing => worker.step = "next"
         /\ worker.step \in {"fetch", "save"} => worker.message # Nothing
         /\ Nothing \notin Timers /\ now \in Nat /\ errors \in 0 .. MaxErrors
  BY TimerAssumption DEF TimerInv, TimerTypeOK

\* What a step within the delivery of one row changes.
LEMMA GotoKeeps ==
  ASSUME TimerInv, NEW step \in Steps \ {"next", "fetch", "save"}, worker.step # "next",
         worker' = [worker EXCEPT !.step = step],
         UNCHANGED <<now, row, posts, errors, late>>,
         step = "sent" => posts # <<>> /\ posts[Len(posts)].timer = worker.timer,
         step = "finish" /\ row[worker.timer].status = "delivering" =>
            row[worker.timer].message # Nothing,
         step \in {"search", "send", "sent"} =>
            row[worker.timer].message = Nothing \/ posts[row[worker.timer].message].gone,
         InTime /\ step = "search" => \A i \in Shown(worker.timer) :
            worker.due <= posts[i].time + Window,
         InTime /\ step = "send" => Shown(worker.timer) = {}
  PROVE  TimerInv'
  <1>1. /\ worker'.step = step /\ worker'.todo = worker.todo /\ worker'.timer = worker.timer
        /\ worker'.due = worker.due /\ worker'.message = worker.message
        /\ worker' \in [step : Steps, todo : SUBSET Timers, timer : Timers \union {Nothing},
                        due : 0 .. MaxTime, message : PostIds \union {Nothing}]
    BY WorkerIs
  <1>2. (worker'.timer = Nothing) = (worker'.step = "next") /\ errors' \in 0 .. MaxErrors
    BY <1>1, WorkerIs
  <1>3. DeliveryOK'
    BY <1>1 DEF TimerInv, DeliveryOK
  <1>4. Shown(worker.timer)' = Shown(worker.timer)
    BY <1>1 DEF Shown
  <1>5. InTime => SearchOK'
    BY <1>1, <1>4 DEF SearchOK, Shown
  <1> QED
    BY <1>1, <1>2, <1>3, <1>5, WorkerKeeps

\* The saved message is there, or it is looked for.
LEMMA FetchKeeps ==
  ASSUME TimerInv, Fetch
  PROVE  TimerInv'
  <1> DEFINE t == worker.timer
             step == IF posts[worker.message].gone THEN "search" ELSE "finish"
  <1>1. /\ worker.step = "fetch" /\ worker' = [worker EXCEPT !.step = step]
        /\ UNCHANGED <<now, row, posts, errors, late>>
    BY DEF Fetch, Goto
  <1>2. step \in Steps \ {"next", "fetch", "save"} /\ step \in {"search", "finish"}
        /\ (step = "search" => posts[worker.message].gone)
    BY DEF Steps
  <1>3. row[t].message \in {worker.message, Nothing} /\ worker.message # Nothing
        /\ (row[t].status = "delivering" => row[t].message # Nothing)
    BY <1>1, WorkerIs DEF TimerInv, DeliveryOK
  <1> HIDE DEF step
  <1>4. InTime /\ step = "search" => \A i \in Shown(t) : worker.due <= posts[i].time + Window
    BY <1>1, <1>2 DEF TimerInv, SearchOK, Shown
  <1> QED
    BY <1>1, <1>2, <1>3, <1>4, GotoKeeps

\* What the history does not show within reach is not there.
LEMMA SearchKeeps ==
  ASSUME TimerInv, Search
  PROVE  TimerInv'
  <1> DEFINE t == worker.timer
  <1>1. worker.step = "search" /\ UNCHANGED <<now, row, posts, errors, late>> /\ t \in Timers
    BY WorkerIs DEF Search
  <1>2. row[t].message = Nothing \/ posts[row[t].message].gone
    BY <1>1 DEF TimerInv, DeliveryOK
  <1>3. CASE Marked(t) = {} /\ Goto("send")
    <2>1. InTime => Shown(t) = {}
      <3>1. InTime => \A i \in Shown(t) : worker.due <= posts[i].time + Window
        BY <1>1 DEF TimerInv, SearchOK
      <3>2. \A i \in Shown(t) : worker.due <= posts[i].time + Window => i \in Marked(t)
        <4>1. \A i \in DOMAIN posts : posts[i].time \in Nat
          BY PostsAre, TimerAssumption DEF TimerInv, Posts
        <4>2. worker.due \in Nat /\ Window \in Nat
          BY WorkerIs, TimerAssumption
        <4>3. \A i \in DOMAIN posts :
                 worker.due <= posts[i].time + Window => posts[i].time >= worker.due - Window
          BY <4>1, <4>2
        <4> QED
          BY <4>3 DEF Shown, Marked
      <3> QED
        BY <1>3, <3>1, <3>2
    <2> QED
      BY <1>1, <1>2, <1>3, <2>1, GotoKeeps DEF Goto, Steps
  <1>4. CASE \E i \in Marked(t) : worker' = [worker EXCEPT !.step = "save", !.message = i]
    <2>1. PICK i \in Marked(t) : worker' = [worker EXCEPT !.step = "save", !.message = i]
      BY <1>4
    <2>2. i \in DOMAIN posts /\ posts[i].timer = t
      BY DEF Marked
    <2>3. i \in PostIds /\ i # Nothing
      BY <2>2, PostsAre, TimerAssumption DEF TimerInv, TimerTypeOK, PostIds
    <2>4. /\ worker'.step = "save" /\ worker'.todo = worker.todo /\ worker'.timer = t
          /\ worker'.due = worker.due /\ worker'.message = i
          /\ worker' \in [step : Steps, todo : SUBSET Timers, timer : Timers \union {Nothing},
                          due : 0 .. MaxTime, message : PostIds \union {Nothing}]
      BY <2>1, <2>3, WorkerIs DEF Steps
    <2>5. DeliveryOK'
      BY <1>1, <1>2, <2>2, <2>4 DEF TimerInv, DeliveryOK
    <2>6. SearchOK'
      BY <2>4 DEF SearchOK
    <2>7. t # Nothing
      BY <1>1, WorkerIs
    <2> QED
      BY <1>1, <2>3, <2>4, <2>5, <2>6, <2>7, WorkerIs, WorkerKeeps
  <1> QED
    BY <1>3, <1>4 DEF Search

\* The response names the latest reminder.
LEMMA SentKeeps ==
  ASSUME TimerInv, Sent
  PROVE  TimerInv'
  <1> DEFINE t == worker.timer
  <1>1. /\ worker.step = "sent" /\ UNCHANGED <<now, row, posts, errors, late>> /\ t \in Timers
        /\ worker' = [worker EXCEPT !.step = "save", !.message = Len(posts)]
    BY WorkerIs DEF Sent
  <1>2. /\ row[t].message = Nothing \/ posts[row[t].message].gone
        /\ posts # <<>> /\ posts[Len(posts)].timer = t
    BY <1>1 DEF TimerInv, DeliveryOK
  <1>3. Len(posts) \in DOMAIN posts /\ Len(posts) \in PostIds /\ Len(posts) # Nothing
    <2>1. posts \in Seq(Posts) /\ Len(posts) <= MaxPosts /\ MaxPosts \in Nat
      BY TimerAssumption DEF TimerInv, TimerTypeOK
    <2>2. Len(posts) \in Nat /\ Len(posts) # 0
      BY <1>2, <2>1
    <2> QED
      BY <2>1, <2>2, TimerAssumption DEF PostIds
  <1>4. /\ worker'.step = "save" /\ worker'.todo = worker.todo /\ worker'.timer = t
        /\ worker'.due = worker.due /\ worker'.message = Len(posts)
        /\ worker' \in [step : Steps, todo : SUBSET Timers, timer : Timers \union {Nothing},
                        due : 0 .. MaxTime, message : PostIds \union {Nothing}]
    BY <1>1, <1>3, WorkerIs DEF Steps
  <1>5. DeliveryOK'
    BY <1>1, <1>2, <1>3, <1>4 DEF TimerInv, DeliveryOK
  <1>6. SearchOK'
    BY <1>4 DEF SearchOK
  <1>7. t # Nothing
    BY <1>1, WorkerIs
  <1> QED
    BY <1>1, <1>3, <1>4, <1>5, <1>6, <1>7, WorkerIs, WorkerKeeps

\* The reminder is the only one of the running life that the channel shows.
LEMMA PostKeeps ==
  ASSUME TimerInv, Post
  PROVE  TimerInv'
  <1> DEFINE t == worker.timer
             p == [timer |-> t, time |-> now, life |-> row[t].life, gone |-> FALSE]
             n == Len(posts)
  <1>1. /\ worker.step = "send" /\ UNCHANGED <<now, row, errors, late>> /\ t \in Timers
        /\ worker' = [worker EXCEPT !.step = "sent"] /\ Len(posts) < MaxPosts
        /\ posts' = Append(posts, p)
    BY WorkerIs DEF Post, Goto
  <1>2. /\ row \in [Timers -> Rows] /\ posts \in Seq(Posts) /\ now \in 0 .. MaxTime /\ n \in Nat
        /\ MaxPosts \in Nat /\ late \in BOOLEAN
    BY PostsAre, TimerAssumption DEF TimerInv, TimerTypeOK
  <1>3. row[t].life \in 1 .. MaxLives
    <2>1. row[t].status # "none"
      BY <1>1, WorkerIs DEF TimerInv, DeliveryOK
    <2>2. row[t].life # 0
      BY <1>1, <2>1 DEF TimerInv, RowsOK
    <2> QED
      BY <1>1, <1>2, <2>2, TimerAssumption DEF Rows
  <1>4. p \in Posts
    BY <1>1, <1>2, <1>3 DEF Posts
  <1> DEFINE q == p
  <1>5. /\ q \in Posts /\ q.timer = t /\ q.time = now /\ q.life = row[t].life /\ ~q.gone
        /\ posts' = Append(posts, q)
    BY <1>1, <1>4
  <1> HIDE DEF q
  <1>6. /\ posts' \in Seq(Posts) /\ Len(posts') = n + 1 /\ posts'[n + 1] = q
        /\ DOMAIN posts = 1 .. n /\ DOMAIN posts' = 1 .. n + 1
        /\ \A i \in 1 .. n : posts'[i] = posts[i]
    BY <1>2, <1>5
  <1>7. /\ worker'.step = "sent" /\ worker'.todo = worker.todo /\ worker'.timer = t
        /\ worker'.due = worker.due /\ worker'.message = worker.message
        /\ worker' \in [step : Steps, todo : SUBSET Timers, timer : Timers \union {Nothing},
                        due : 0 .. MaxTime, message : PostIds \union {Nothing}]
    BY <1>1, WorkerIs DEF Steps
  <1>8. \A i \in DOMAIN posts : i \in DOMAIN posts' /\ posts'[i] = posts[i]
    BY <1>2, <1>6
  <1>9. \A i \in DOMAIN posts' : i \in DOMAIN posts \/ i = n + 1
    BY <1>2, <1>6
  <1>10. TimerTypeOK'
    <2>1. Len(posts') <= MaxPosts
      BY <1>1, <1>2, <1>6
    <2> QED
      BY <1>1, <1>6, <1>7, <2>1, WorkerIs DEF TimerInv, TimerTypeOK
  <1>11. RowsOK'
    <2>1. \A i \in DOMAIN posts' : posts'[i].life <= row[posts'[i].timer].life
      <3>1. row[t].life <= row[t].life
        BY <1>3
      <3> QED
        BY <1>5, <1>6, <1>8, <1>9, <3>1 DEF TimerInv, RowsOK
    <2> QED
      BY <1>1, <1>8, <2>1 DEF TimerInv, RowsOK
  <1>12. DeliveryOK'
    <2>1. posts' # <<>> /\ posts'[Len(posts')].timer = t
      BY <1>2, <1>5, <1>6
    <2>2. row[t].message = Nothing \/ posts'[row[t].message].gone
      <3>1. row[t].message # Nothing => row[t].message \in DOMAIN posts /\ posts[row[t].message].gone
        BY <1>1 DEF TimerInv, DeliveryOK, RowsOK
      <3> QED
        BY <1>8, <3>1
    <2>3. worker.message # Nothing =>
              worker.message \in DOMAIN posts' /\ posts'[worker.message].timer = t
      BY <1>8 DEF TimerInv, DeliveryOK
    <2> QED
      BY <1>1, <1>7, <2>1, <2>2, <2>3 DEF TimerInv, DeliveryOK
  <1>13. InTime' => YoungOK' /\ SearchOK' /\ OneShown'
    <2>1. SUFFICES ASSUME InTime
                   PROVE  YoungOK' /\ SearchOK' /\ OneShown'
      BY <1>1
    <2>2. YoungOK /\ OneShown /\ Shown(t) = {}
      BY <1>1, <2>1 DEF TimerInv, SearchOK
    <2>3. ASSUME NEW u \in Timers, NEW i \in Shown(u)'
          PROVE  (i = n + 1 /\ u = t) \/ (u # t /\ i \in Shown(u) /\ posts'[i] = posts[i])
      <3>1. i \in DOMAIN posts' /\ posts'[i].timer = u /\ posts'[i].life = row[u].life /\ ~posts'[i].gone
        BY <1>1, <2>3 DEF Shown
      <3>2. CASE i \in DOMAIN posts
        <4>1. i \in Shown(u) /\ posts'[i] = posts[i]
          BY <1>8, <3>1, <3>2 DEF Shown
        <4> QED
          BY <2>2, <4>1
      <3>3. CASE i = n + 1
        BY <1>5, <1>6, <3>1, <3>3
      <3> QED
        BY <1>9, <3>1, <3>2, <3>3
    <2>4. OneShown'
      BY <2>2, <2>3 DEF OneShown
    <2>5. YoungOK'
      <3>1. now <= posts'[n + 1].time + Patience
        BY <1>2, <1>5, <1>6, TimerAssumption
      <3> QED
        BY <1>1, <2>2, <2>3, <3>1 DEF YoungOK, Pending
    <2>6. SearchOK'
      BY <1>7 DEF SearchOK
    <2> QED
      BY <2>4, <2>5, <2>6
  <1> QED
    BY <1>10, <1>11, <1>12, <1>13 DEF TimerInv

\* current(): what is unrecorded is young, so the search reaches it.
LEMMA ReloadKeeps ==
  ASSUME TimerInv, NEW t \in Timers, Reload(t)
  PROVE  TimerInv'
  <1>1. /\ worker.step = "next" /\ t \in worker.todo /\ UNCHANGED <<now, row, posts, errors, late>>
    BY DEF Reload
  <1>2. row \in [Timers -> Rows] /\ row[t] \in Rows /\ row[t].status # "none"
    BY <1>1 DEF TimerInv, TimerTypeOK, DeliveryOK
  <1>3. CASE row[t].status # "delivering"
    <2>1. worker' = [worker EXCEPT !.todo = worker.todo \ {t}]
      BY <1>3 DEF Reload
    <2>2. /\ worker'.step = "next" /\ worker'.todo = worker.todo \ {t} /\ worker'.timer = worker.timer
          /\ worker'.due = worker.due /\ worker'.message = worker.message
          /\ worker' \in [step : Steps, todo : SUBSET Timers, timer : Timers \union {Nothing},
                          due : 0 .. MaxTime, message : PostIds \union {Nothing}]
      BY <1>1, <2>1, WorkerIs
    <2>3. DeliveryOK'
      BY <1>1, <2>2 DEF TimerInv, DeliveryOK
    <2>4. SearchOK'
      BY <2>2 DEF SearchOK
    <2> QED
      BY <1>1, <2>2, <2>3, <2>4, WorkerIs, WorkerKeeps
  <1>4. CASE row[t].status = "delivering"
    <2> DEFINE step == IF row[t].message = Nothing THEN "search" ELSE "fetch"
               rec == [step |-> step, todo |-> worker.todo \ {t}, timer |-> t,
                       due |-> row[t].due, message |-> row[t].message]
    <2>1. worker' = rec
      BY <1>4 DEF Reload
    <2>2. /\ worker'.step = step /\ worker'.todo = worker.todo \ {t} /\ worker'.timer = t
          /\ worker'.due = row[t].due /\ worker'.message = row[t].message
          /\ worker' \in [step : Steps, todo : SUBSET Timers, timer : Timers \union {Nothing},
                          due : 0 .. MaxTime, message : PostIds \union {Nothing}]
      BY <1>2, <2>1, WorkerIs DEF Rows, Steps
    <2>3. /\ row[t].due <= now
          /\ row[t].message # Nothing =>
                row[t].message \in DOMAIN posts /\ posts[row[t].message].timer = t
      BY <1>4 DEF TimerInv, RowsOK
    <2>4. DeliveryOK'
      BY <1>1, <1>2, <2>2, <2>3 DEF TimerInv, DeliveryOK
    <2>5. Shown(t)' = Shown(t)
      BY <1>1 DEF Shown
    <2>6. InTime => \A i \in Shown(t) : i = row[t].message \/ row[t].due <= posts[i].time + Window
      <3>1. ASSUME InTime, NEW i \in Shown(t), i # row[t].message
            PROVE  row[t].due <= posts[i].time + Window
        <4>1. now <= posts[i].time + Patience
          BY <1>4, <3>1 DEF TimerInv, YoungOK, Pending
        <4>2. i \in DOMAIN posts
          BY DEF Shown
        <4>3. posts[i].time \in Nat /\ row[t].due \in Nat /\ now \in Nat /\ Patience \in Nat /\ Window \in Nat
          BY <1>2, <4>2, PostsAre, WorkerIs, TimerAssumption DEF TimerInv, Posts, Rows
        <4>4. Patience <= Window
          BY <3>1
        <4> QED
          BY <2>3, <4>1, <4>3, <4>4
      <3> QED
        BY <3>1
    <2>7. InTime => SearchOK'
      <3>1. row[t].message = Nothing => \A i \in Shown(t) : i # row[t].message
        BY PostsAre, TimerAssumption DEF Shown, TimerInv, TimerTypeOK
      <3> QED
        BY <1>1, <2>2, <2>5, <2>6, <3>1 DEF SearchOK
    <2>8. t # Nothing
      BY WorkerIs
    <2> QED
      BY <1>1, <2>2, <2>4, <2>7, <2>8, WorkerIs, WorkerKeeps
  <1> QED
    BY <1>3, <1>4

\* The worker drops what it does, and rows may evolve.
LEMMA RestKeeps ==
  ASSUME TimerInv, UNCHANGED <<now, posts, late>>, errors' \in 0 .. MaxErrors,
         row' \in [Timers -> Rows], \A t \in Timers : Evolves(t),
         NEW S \in SUBSET Timers, worker' = [Resting EXCEPT !.todo = S],
         \A t \in S : row'[t].status # "none"
  PROVE  TimerInv'
  <1>1. RowsOK' /\ (InTime => YoungOK' /\ OneShown')
    BY RowsEvolve
  <1>2. /\ worker' \in [step : Steps, todo : SUBSET Timers, timer : Timers \union {Nothing},
                        due : 0 .. MaxTime, message : PostIds \union {Nothing}]
        /\ worker'.step = "next" /\ worker'.todo = S /\ worker'.timer = Nothing
        /\ worker'.due = 0 /\ worker'.message = Nothing
    BY TimerAssumption DEF Resting, Steps
  <1>3. TimerTypeOK'
    BY <1>2 DEF TimerInv, TimerTypeOK
  <1>4. DeliveryOK' /\ SearchOK'
    BY <1>2, WorkerIs DEF DeliveryOK, SearchOK
  <1> QED
    BY <1>1, <1>3, <1>4 DEF TimerInv

\* A row gets another status while it is pending, or is settled.
LEMMA StatusEvolves ==
  ASSUME TimerInv, NEW t \in Timers, NEW r \in Rows, row'[t] = r,
         r.message = row[t].message, r.life = row[t].life, Pending(t),
         r.status \in {"scheduled", "delivering", "completed"},
         r.status = "delivering" => r.due <= now,
         r.status = "completed" => r.message # Nothing
  PROVE  Evolves(t)
  <1>1. row[t] \in Rows /\ row[t].life \in Nat
    BY TimerAssumption DEF TimerInv, TimerTypeOK, Rows
  <1>2. row[t].status # "none" /\ row[t].life # 0
    BY DEF Pending, TimerInv, RowsOK
  <1> QED
    BY <1>1, <1>2 DEF Evolves, Pending, TimerInv, RowsOK

\* claim_due, and the start of a process.
LEMMA ClaimsKeep ==
  ASSUME TimerInv, Scan \/ RestartTimers
  PROVE  TimerInv'
  <1>1. /\ row \in [Timers -> Rows] /\ now \in 0 .. MaxTime
        /\ UNCHANGED <<now, posts, errors, late>>
    BY DEF TimerInv, TimerTypeOK, Scan, RestartTimers
  <1>4. errors' \in 0 .. MaxErrors
    BY <1>1, WorkerIs
  <1>2. CASE Scan
    <2>1. /\ row' = [t \in Timers |->
                       IF Due(t) THEN [row[t] EXCEPT !.status = "delivering"] ELSE row[t]]
          /\ worker' = [Resting EXCEPT !.todo = {t \in Timers : Due(t)}]
      BY <1>2 DEF Scan
    <2>2. ASSUME NEW t \in Timers
          PROVE  row'[t] \in Rows /\ Evolves(t) /\ (Due(t) => row'[t].status = "delivering")
      <3>1. CASE Due(t)
        <4> DEFINE r == [row[t] EXCEPT !.status = "delivering"]
        <4>1. /\ r \in Rows /\ r.status = "delivering" /\ r.message = row[t].message
              /\ r.life = row[t].life /\ r.due = row[t].due /\ row'[t] = r
          BY <1>1, <2>1, <3>1 DEF Rows, Statuses
        <4> HIDE DEF r
        <4>2. Pending(t) /\ row[t].due <= now
          BY <3>1 DEF Due, Pending
        <4> QED
          BY <4>1, <4>2, StatusEvolves
      <3>2. CASE ~Due(t)
        BY <1>1, <2>1, <3>2, SameEvolves
      <3> QED
        BY <3>1, <3>2
    <2>3. row' \in [Timers -> Rows]
      BY <2>1, <2>2
    <2> DEFINE S == {t \in Timers : Due(t)}
    <2>4. S \in SUBSET Timers /\ worker' = [Resting EXCEPT !.todo = S]
      BY <2>1
    <2>5. \A t \in S : row'[t].status # "none"
      BY <2>2
    <2>6. \A t \in Timers : Evolves(t)
      BY <2>2
    <2> HIDE DEF S
    <2> QED
      BY <1>1, <1>4, <2>3, <2>4, <2>5, <2>6, RestKeeps
  <1>3. CASE RestartTimers
    <2>1. /\ row' = [t \in Timers |->
                       IF row[t].status = "delivering"
                       THEN [row[t] EXCEPT !.status = "scheduled", !.due = now]
                       ELSE row[t]]
          /\ worker' = Resting
      BY <1>3 DEF RestartTimers
    <2>2. ASSUME NEW t \in Timers
          PROVE  row'[t] \in Rows /\ Evolves(t)
      <3>1. CASE row[t].status = "delivering"
        <4> DEFINE r == [row[t] EXCEPT !.status = "scheduled", !.due = now]
        <4>1. /\ r \in Rows /\ r.status = "scheduled" /\ r.message = row[t].message
              /\ r.life = row[t].life /\ row'[t] = r
          BY <1>1, <2>1, <3>1 DEF Rows, Statuses
        <4> HIDE DEF r
        <4> QED
          BY <3>1, <4>1, StatusEvolves DEF Pending
      <3>2. CASE row[t].status # "delivering"
        BY <1>1, <2>1, <3>2, SameEvolves
      <3> QED
        BY <3>1, <3>2
    <2>3. row' \in [Timers -> Rows]
      BY <2>1, <2>2
    <2>4. worker' = [Resting EXCEPT !.todo = {}] /\ {} \in SUBSET Timers
      <3>1. [Resting EXCEPT !.todo = {}] = Resting
        BY DEF Resting
      <3> QED
        BY <2>1, <3>1
    <2>5. \A t \in Timers : Evolves(t)
      BY <2>2
    <2> QED
      BY <1>1, <1>4, <2>3, <2>4, <2>5, RestKeeps
  <1> QED
    BY <1>2, <1>3

\* The end of a delivery.
LEMMA EndsKeep ==
  ASSUME TimerInv, Finish \/ Retry \/ RetryFails \/ ReloadFails
  PROVE  TimerInv'
  <1> DEFINE t == worker.timer
  <1>1. /\ row \in [Timers -> Rows] /\ now \in 0 .. MaxTime /\ worker.todo \subseteq Timers
        /\ UNCHANGED <<now, posts, late>> /\ errors' \in 0 .. MaxErrors
        /\ \A u \in worker.todo : row[u].status # "none"
    BY WorkerIs, TimerAssumption
       DEF TimerInv, TimerTypeOK, DeliveryOK, Finish, Retry, RetryFails, ReloadFails
  <1>2. PICK S \in SUBSET worker.todo : worker' = [Resting EXCEPT !.todo = S]
    <2>1. CASE ReloadFails
      <3>1. worker' = [Resting EXCEPT !.todo = {}]
        BY <2>1 DEF ReloadFails, Resting
      <3> QED
        BY <3>1
    <2>2. CASE Finish \/ Retry \/ RetryFails
      BY <2>2 DEF Finish, Retry, RetryFails, Done
    <2> QED
      BY <2>1, <2>2
  <1>3. CASE row' = row
    <2>1. \A u \in Timers : Evolves(u)
      BY <1>3, SameEvolves
    <2> QED
      BY <1>1, <1>2, <1>3, <2>1, RestKeeps
  <1>4. CASE Finish /\ row' # row
    <2> DEFINE r == [row[t] EXCEPT !.status = "completed"]
    <2>1. /\ worker.step = "finish" /\ row[t].status = "delivering" /\ t \in Timers
          /\ row' = [row EXCEPT ![t] = r]
      BY <1>4, WorkerIs DEF Finish, Completes
    <2>2. /\ r \in Rows /\ r.status = "completed" /\ r.message = row[t].message
          /\ r.life = row[t].life
      BY <1>1, <2>1 DEF Rows, Statuses
    <2> HIDE DEF r
    <2>3. row' \in [Timers -> Rows] /\ row'[t] = r /\ \A u \in Timers \ {t} : row'[u] = row[u]
      BY <1>1, <2>1, <2>2
    <2>4. row[t].message # Nothing
      BY <2>1 DEF TimerInv, DeliveryOK
    <2>5. Evolves(t)
      BY <2>1, <2>2, <2>3, <2>4, StatusEvolves DEF Pending
    <2>6. \A u \in Timers : Evolves(u)
      BY <2>3, <2>5, SameEvolves
    <2> QED
      BY <1>1, <1>2, <2>2, <2>3, <2>6, RestKeeps
  <1>5. CASE Retry /\ row' # row
    <2> DEFINE r == [row[t] EXCEPT !.status = "scheduled", !.due = Later(RetryDelay)]
    <2>1. /\ row[t].status = "delivering" /\ t \in Timers /\ row' = [row EXCEPT ![t] = r]
      BY <1>5, WorkerIs DEF Retry
    <2>2. /\ r \in Rows /\ r.status = "scheduled" /\ r.message = row[t].message
          /\ r.life = row[t].life
      BY <1>1, <2>1, LaterIs, TimerAssumption DEF Rows, Statuses
    <2> HIDE DEF r
    <2>3. row' \in [Timers -> Rows] /\ row'[t] = r /\ \A u \in Timers \ {t} : row'[u] = row[u]
      BY <1>1, <2>1, <2>2
    <2>4. Evolves(t)
      BY <2>1, <2>2, <2>3, StatusEvolves DEF Pending
    <2>5. \A u \in Timers : Evolves(u)
      BY <2>3, <2>4, SameEvolves
    <2> QED
      BY <1>1, <1>2, <2>2, <2>3, <2>5, RestKeeps
  <1>6. row' = row \/ Finish \/ Retry
    BY DEF RetryFails, ReloadFails
  <1> QED
    BY <1>3, <1>4, <1>5, <1>6

\* set_delivery_message: the reminder it replaces is gone.
LEMMA SaveKeeps ==
  ASSUME TimerInv, Save
  PROVE  TimerInv'
  <1> DEFINE t == worker.timer
             m == worker.message
             r == [row[t] EXCEPT !.message = m]
  <1>1. /\ worker.step = "save" /\ t \in Timers /\ m # Nothing /\ m \in PostIds
        /\ row' = [row EXCEPT ![t] = r] /\ worker' = [worker EXCEPT !.step = "finish"]
        /\ UNCHANGED <<now, posts, errors, late>>
    BY WorkerIs DEF Save, Goto
  <1>2. row \in [Timers -> Rows] /\ row[t] \in Rows /\ row[t].life \in Nat
    BY <1>1, TimerAssumption DEF TimerInv, TimerTypeOK, Rows
  <1>3. /\ r \in Rows /\ r.status = row[t].status /\ r.message = m
        /\ r.life = row[t].life /\ r.due = row[t].due
    BY <1>1, <1>2 DEF Rows
  <1> HIDE DEF r
  <1>4. row' \in [Timers -> Rows] /\ row'[t] = r /\ \A u \in Timers \ {t} : row'[u] = row[u]
    BY <1>1, <1>2, <1>3
  <1>5. /\ row[t].message = Nothing \/ posts[row[t].message].gone
        /\ m \in DOMAIN posts /\ posts[m].timer = t /\ row[t].status # "none"
    BY <1>1, WorkerIs DEF TimerInv, DeliveryOK
  <1>6. Evolves(t)
    <2>1. \A i \in Shown(t) : row[t].message # i
      <3>1. \A i \in Shown(t) : i \in DOMAIN posts /\ ~posts[i].gone
        BY DEF Shown
      <3>2. \A i \in DOMAIN posts : i # Nothing
        BY PostsAre, TimerAssumption DEF TimerInv, TimerTypeOK
      <3> QED
        BY <1>5, <3>1, <3>2
    <2> QED
      BY <1>1, <1>2, <1>3, <1>4, <1>5, <2>1 DEF TimerInv, RowsOK, Evolves, Pending
  <1>7. \A u \in Timers : Evolves(u)
    BY <1>4, <1>6, SameEvolves
  <1>8. RowsOK' /\ (InTime => YoungOK' /\ OneShown')
    BY <1>1, <1>4, <1>7, RowsEvolve
  <1>9. /\ worker'.step = "finish" /\ worker'.todo = worker.todo /\ worker'.timer = t
        /\ worker'.due = worker.due /\ worker'.message = m
        /\ worker' \in [step : Steps, todo : SUBSET Timers, timer : Timers \union {Nothing},
                        due : 0 .. MaxTime, message : PostIds \union {Nothing}]
    BY <1>1, WorkerIs DEF Steps
  <1>10. TimerTypeOK'
    BY <1>1, <1>4, <1>9, WorkerIs DEF TimerInv, TimerTypeOK
  <1>11. DeliveryOK'
    <2>1. \A u \in worker.todo : row'[u].status # "none"
      BY <1>3, <1>4, WorkerIs DEF TimerInv, DeliveryOK
    <2> QED
      BY <1>1, <1>3, <1>4, <1>5, <1>9, <2>1 DEF TimerInv, DeliveryOK
  <1>12. SearchOK'
    BY <1>9 DEF SearchOK
  <1> QED
    BY <1>1, <1>8, <1>10, <1>11, <1>12 DEF TimerInv

\* _deliver_claimed_timer catches every error.
LEMMA AttemptFailsKeeps ==
  ASSUME TimerInv, AttemptFails
  PROVE  TimerInv'
  <1>1. /\ worker.step # "next" /\ worker' = [worker EXCEPT !.step = "retry"]
        /\ UNCHANGED <<now, row, posts, errors, late>>
    BY DEF AttemptFails, Goto
  <1> QED
    BY <1>1, GotoKeeps DEF Steps

-------------------------------------------------------------------------------
(* Reminders: the theorems                                                 *)

\* The start.
LEMMA TimerInitFact ==
  ASSUME TimerInit
  PROVE  TimerInv
  <1>1. 0 \in 0 .. MaxTime /\ 0 \in 0 .. MaxErrors /\ 0 \in 0 .. MaxLives /\ 0 <= MaxPosts
    BY TimerAssumption
  <1>2. /\ row \in [Timers -> Rows] /\ now = 0 /\ posts = <<>> /\ errors = 0 /\ late = FALSE
        /\ \A t \in Timers : row[t].status = "none" /\ row[t].message = Nothing /\ row[t].life = 0
    BY <1>1 DEF TimerInit, Rows, Statuses
  <1>3. /\ worker \in [step : Steps, todo : SUBSET Timers, timer : Timers \union {Nothing},
                       due : 0 .. MaxTime, message : PostIds \union {Nothing}]
        /\ worker.step = "next" /\ worker.todo = {} /\ worker.timer = Nothing
        /\ worker.due = 0 /\ worker.message = Nothing
    BY <1>1 DEF TimerInit, Resting, Steps
  <1>4. posts \in Seq(Posts) /\ Len(posts) = 0 /\ DOMAIN posts = {}
    BY <1>2
  <1>5. TimerTypeOK
    BY <1>1, <1>2, <1>3, <1>4 DEF TimerTypeOK
  <1>6. RowsOK /\ YoungOK /\ OneShown
    BY <1>2, <1>4 DEF RowsOK, YoungOK, OneShown, Shown
  <1>7. DeliveryOK /\ SearchOK
    BY <1>2, <1>3, TimerAssumption DEF DeliveryOK, SearchOK
  <1> QED
    BY <1>5, <1>6, <1>7 DEF TimerInv

\* Each step, and no step.
LEMMA TimerStepKeeps ==
  ASSUME TimerInv, [TimerNext]_timerVars
  PROVE  TimerInv'
  <1>1. CASE TimerNext
    BY <1>1, TickKeeps, UserKeeps, ReloadKeeps, DeleteKeeps, ClaimsKeep, EndsKeep, FetchKeeps,
       SearchKeeps, PostKeeps, SentKeeps, SaveKeeps, AttemptFailsKeeps DEF TimerNext
  <1>2. CASE UNCHANGED timerVars
    <2>1. UNCHANGED <<now, row, posts, worker, errors, late>>
      BY <1>2 DEF timerVars
    <2>2. DeliveryOK'
      BY <2>1 DEF TimerInv, DeliveryOK
    <2>3. InTime => SearchOK'
      BY <2>1 DEF TimerInv, SearchOK, Shown
    <2> QED
      BY <2>1, <2>2, <2>3, WorkerIs, WorkerKeeps DEF TimerInv, TimerTypeOK
  <1> QED
    BY <1>1, <1>2

\* The invariant holds throughout FocusTimerCog and FocusTimerService (cogs.py,
\* services/focus_timer.py).
THEOREM TimerInductive == TimerSpec => []TimerInv
  <1>1. TimerInit => TimerInv
    BY TimerInitFact
  <1>2. TimerInv /\ [TimerNext]_timerVars => TimerInv'
    BY TimerStepKeeps
  <1> QED
    BY <1>1, <1>2, PTL DEF TimerSpec

\* For any number of timers and any delays: whatever attempts fail after posting,
\* however often the process restarts, people cancel, restore and delete, the
\* channel shows one reminder of the running life of a timer, as long as none
\* stays unrecorded for longer than the searched history reaches back
\* (_focus_timer_delivery_message).  MCFocusTimerLate.cfg shows why the
\* hypothesis is needed.
THEOREM OnePostHolds ==
  ASSUME Patience <= Window
  PROVE  TimerSpec => []OnePost
  <1>1. TimerInv => OnePost
    <2>1. SUFFICES ASSUME TimerInv, InTime, NEW t \in Timers
                   PROVE  Cardinality(Shown(t)) <= 1
      BY DEF OnePost, Shown
    <2>2. \A i, j \in Shown(t) : i = j
      BY <2>1 DEF TimerInv, OneShown
    <2>3. CASE Shown(t) = {}
      BY <2>3, FS_EmptySet
    <2>4. CASE Shown(t) # {}
      <3>1. PICK i : Shown(t) = {i}
        BY <2>2, <2>4
      <3>2. Cardinality({i}) = 1
        BY FS_Singleton
      <3> QED
        BY <3>1, <3>2
    <2> QED
      BY <2>3, <2>4
  <1> QED
    BY <1>1, TimerInductive, PTL

\* A completed timer names a reminder of its own, although its row may have been
\* cancelled, restored and so have lost its message under the running delivery
\* (_complete, _set_delivery_message, _restore).
THEOREM CompletedRemindedHolds == TimerSpec => []CompletedReminded
  <1>1. TimerInv => CompletedReminded
    BY DEF TimerInv, RowsOK, CompletedReminded
  <1> QED
    BY <1>1, TimerInductive, PTL

\* Only a row that is being delivered is completed: a late delivery leaves a
\* cancelled, restored or rescheduled timer alone (_complete).
THEOREM CancelWinsHolds == TimerSpec => CancelWins
  <1>1. ASSUME TimerInv, [TimerNext]_timerVars, NEW t \in Timers,
               row[t].status \notin {"delivering", "completed"}
        PROVE  row'[t].status # "completed"
    <2>1. row \in [Timers -> Rows]
      BY <1>1 DEF TimerInv, TimerTypeOK
    <2>2. CASE UNCHANGED row
      BY <1>1, <2>2
    <2>3. ASSUME NEW u \in Timers, Create(u) \/ Cancel(u) \/ Restore(u)
          PROVE  row'[t].status # "completed"
      BY <1>1, <2>1, <2>3 DEF Create, Cancel, Restore, Restored, Rows
    <2>4. CASE Scan
      BY <1>1, <2>1, <2>4 DEF Scan, Due, Rows
    <2>5. CASE Save
      BY <1>1, <2>1, <2>5 DEF Save, Rows
    <2>6. CASE Finish
      BY <1>1, <2>1, <2>6 DEF Finish, Completes, Rows
    <2>7. CASE Retry
      BY <1>1, <2>1, <2>7 DEF Retry, Rows
    <2>8. CASE RestartTimers
      BY <1>1, <2>1, <2>8 DEF RestartTimers, Rows
    <2>9. \/ UNCHANGED row \/ \E u \in Timers : Create(u) \/ Cancel(u) \/ Restore(u)
          \/ Scan \/ Save \/ Finish \/ Retry \/ RestartTimers
      BY <1>1 DEF TimerNext, timerVars, Tick, Reload, DeleteReminder, ReloadFails, Fetch, Search,
                  Post, Sent, AttemptFails, RetryFails
    <2> QED
      BY <2>2, <2>3, <2>4, <2>5, <2>6, <2>7, <2>8, <2>9
  <1>2. TimerInv /\ [TimerNext]_timerVars =>
          \A t \in Timers : row[t].status \notin {"delivering", "completed"} =>
             row'[t].status # "completed"
    BY <1>1
  <1> QED
    BY <1>2, TimerInductive, PTL DEF TimerSpec, CancelWins

-------------------------------------------------------------------------------
(* Routing: the invariant                                                  *)

\* What the row and the turn say of a follow-up, by how far its handler is.
HandlerOK(f) ==
    /\ host[f] \in {"idle", "recording"} =>
          route[f] = "none" /\ own[f] = "none" /\ taken[f] = "none"
    /\ host[f] \in {"offering", "steering", "deciding", "committing"} =>
          route[f] = "candidate" /\ own[f] = "waiting" /\ taken[f] = "none"
    /\ host[f] \in {"confirming", "applying", "marking", "cancelling"} =>
          route[f] = choice[f] /\ own[f] = "waiting"
    /\ host[f] = "confirming" => taken[f] = "none"
    /\ host[f] = "applying" =>
          IF f \in pending
          THEN f \in confirmed /\ decision[f] = choice[f] /\ taken[f] = "none"
          ELSE taken[f] \in {"none", choice[f]}
    /\ host[f] = "marking" => taken[f] = choice[f] /\ choice[f] # "cancel"
    /\ host[f] = "cancelling" => taken[f] = "cancel" /\ choice[f] = "cancel"
    /\ host[f] \in {"reverting", "responding"} => taken[f] \in {"none", "cancel"}
    /\ host[f] = "recovering" => f \in old

\* What goes on without the handler, or after it.
FateOK(f) ==
    /\ choice[f] = "cancel" => f \in MayCancel
    /\ f \in confirmed => host[f] = "applying"
    /\ f \in authorized => f \notin old
    /\ f \in authorized \union crossed => taken[f] = "attach" /\ own[f] # "begun"
    /\ f \in old => host[f] \in {"done", "recovering"}
    /\ f \in todo => f \in old
    /\ f \in marked =>
          /\ host[f] = "done" /\ route[f] = taken[f] /\ own[f] = "waiting"
          /\ taken[f] = "cancel" => task = "cancelled" /\ f \in MayCancel

\* A process that is down has nothing in memory.
DownOK ==
    /\ phase = "gone" /\ recovery = "done" /\ todo = {} /\ authorized = {}
    /\ starts < MaxStarts
    /\ \A f \in FollowUps : host[f] \in {"idle", "done"}

RoutingInv ==
    /\ RoutingTypeOK
    /\ \A f \in FollowUps : HandlerOK(f) /\ FateOK(f)
    /\ ~up => DownOK
    /\ task = "finishing" => \E f \in FollowUps : route[f] = "finish"

\* Nothing that concerns g changes, except what the recovery has still to do.
Still(g) ==
    /\ host'[g] = host[g] /\ choice'[g] = choice[g]
    /\ route'[g] = route[g] /\ own'[g] = own[g] /\ taken'[g] = taken[g]
    /\ decision'[g] = decision[g] \/ g \notin pending'
    /\ g \in pending' <=> g \in pending
    /\ g \in confirmed' <=> g \in confirmed
    /\ g \in marked' <=> g \in marked
    /\ g \in authorized' <=> g \in authorized
    /\ g \in crossed' <=> g \in crossed
    /\ g \in old' <=> g \in old
    /\ g \in todo' => g \in todo

\* A step of one follow-up.
LEMMA StepOfOneKeeps ==
  ASSUME RoutingInv, RoutingTypeOK', NEW f \in FollowUps,
         HandlerOK(f)', FateOK(f)', \A g \in FollowUps \ {f} : Still(g),
         task = "cancelled" => task' = "cancelled",
         ~up' => DownOK',
         task' = "finishing" => \E g \in FollowUps : route'[g] = "finish"
  PROVE  RoutingInv'
  <1>1. ASSUME NEW g \in FollowUps \ {f}
        PROVE  HandlerOK(g)' /\ FateOK(g)'
    <2>1. HandlerOK(g) /\ FateOK(g) /\ Still(g)
      BY DEF RoutingInv
    <2>2. HandlerOK(g)'
      BY <2>1 DEF HandlerOK, Still
    <2>3. FateOK(g)'
      BY <2>1 DEF FateOK, Still
    <2> QED
      BY <2>2, <2>3
  <1> QED
    BY <1>1 DEF RoutingInv

\* A step of one handler that changes neither the task nor what is beside the
\* handlers: what is left to show is that the follow-up's own facts hold.
LEMMA HandlerKeeps ==
  ASSUME RoutingInv, NEW f \in FollowUps, NEW h \in Hosts \ {"idle"}, NEW d \in Decisions,
         host[f] \notin {"idle", "done"} \/ up,
         host' = [host EXCEPT ![f] = h], choice' = [choice EXCEPT ![f] = d],
         told' \in SUBSET FollowUps,
         UNCHANGED <<rows, candidates, unchangedByHost>>,
         HandlerOK(f)', FateOK(f)'
  PROVE  RoutingInv'
  <1>1. RoutingTypeOK' /\ \A g \in FollowUps \ {f} : Still(g)
    BY DEF RoutingInv, RoutingTypeOK, Still, rows, candidates, unchangedByHost, process
  <1>2. up'
    BY DEF RoutingInv, DownOK, unchangedByHost, process
  <1>3. task' = "finishing" => \E g \in FollowUps : route'[g] = "finish"
    BY DEF RoutingInv, rows
  <1>4. task' = task
    BY DEF rows
  <1> QED
    BY <1>1, <1>2, <1>3, <1>4, StepOfOneKeeps

-------------------------------------------------------------------------------
(* Routing: the handler of a follow-up                                     *)

\* A mention arrives while the task runs.
LEMMA ArriveKeeps ==
  ASSUME RoutingInv, NEW f \in FollowUps, Arrive(f)
  PROVE  RoutingInv'
  <1>1. /\ host[f] = "idle" /\ phase # "gone" /\ host' = [host EXCEPT ![f] = "recording"]
        /\ UNCHANGED <<choice, told, rows, candidates, unchangedByHost>>
    BY DEF Arrive, HostAt, Go, turn, unchangedByHost
  <1>2. up /\ "recording" \in Hosts \ {"idle"} /\ choice[f] \in Decisions /\ told' \in SUBSET FollowUps
        /\ choice' = [choice EXCEPT ![f] = choice[f]] /\ host'[f] = "recording"
    BY <1>1 DEF RoutingInv, DownOK, RoutingTypeOK, Hosts
  <1>3. HandlerOK(f)' /\ FateOK(f)'
    BY <1>1, <1>2 DEF RoutingInv, HandlerOK, FateOK, rows, candidates, unchangedByHost, process
  <1> QED
    BY <1>1, <1>2, <1>3, HandlerKeeps

\* A step of one handler that leaves the row and the turn alone, or drops the
\* candidate from the budget.
LEMMA WaitingKeeps ==
  ASSUME RoutingInv, NEW f \in FollowUps, NEW h \in Hosts \ {"idle"}, NEW d \in Decisions,
         host[f] \notin {"idle", "done"},
         host' = [host EXCEPT ![f] = h], choice' = [choice EXCEPT ![f] = d],
         UNCHANGED <<rows, unchangedByHost, told>>,
         UNCHANGED candidates \/ ResolveCandidates(pending \intersect {f}),
         HandlerOK(f)', FateOK(f)'
  PROVE  RoutingInv'
  <1>1. RoutingTypeOK' /\ \A g \in FollowUps \ {f} : Still(g)
    BY DEF RoutingInv, RoutingTypeOK, Still, rows, candidates, unchangedByHost, process,
           ResolveCandidates, Decisions, IntoTask
  <1>2. up'
    BY DEF RoutingInv, DownOK, unchangedByHost, process
  <1>3. task' = task /\ (task' = "finishing" => \E g \in FollowUps : route'[g] = "finish")
    BY DEF RoutingInv, rows
  <1> QED
    BY <1>1, <1>2, <1>3, StepOfOneKeeps

\* record_task_candidate.
LEMMA RecordKeeps ==
  ASSUME RoutingInv, NEW f \in FollowUps, Record(f)
  PROVE  RoutingInv'
  <1>1. /\ host[f] = "recording" /\ up /\ f \notin marked \union old \union confirmed
        /\ route[f] = "none" /\ own[f] = "none" /\ taken[f] = "none"
        /\ f \notin authorized \union crossed \union todo
    BY DEF Record, HostAt, RoutingInv, DownOK, HandlerOK, FateOK
  <1>2. /\ UNCHANGED <<task, marked, phase, attempt, candidates, taken, authorized, crossed>>
        /\ UNCHANGED process
    BY DEF Record, turn
  <1>3. \/ /\ route' = [route EXCEPT ![f] = "candidate"] /\ own' = [own EXCEPT ![f] = "waiting"]
           /\ host' = [host EXCEPT ![f] = "offering"] /\ UNCHANGED <<choice, told>>
        \/ /\ UNCHANGED <<route, own, choice, told>> /\ host' = [host EXCEPT ![f] = "responding"]
        \/ /\ UNCHANGED <<route, own>> /\ host' = [host EXCEPT ![f] = "done"]
           /\ choice' = [choice EXCEPT ![f] = "separate"] /\ told' = told \union {f}
    BY DEF Record, Go, Error, Over, Choose
  <1>4. RoutingTypeOK' /\ \A g \in FollowUps \ {f} : Still(g)
    BY <1>2, <1>3 DEF RoutingInv, RoutingTypeOK, Hosts, Decisions, Still, candidates, process
  <1>5. HandlerOK(f)' /\ FateOK(f)'
    BY <1>1, <1>2, <1>3 DEF RoutingInv, RoutingTypeOK, HandlerOK, FateOK, candidates, process
  <1>6. task' = "finishing" => \E g \in FollowUps : route'[g] = "finish"
    BY <1>1, <1>2, <1>3 DEF RoutingInv, RoutingTypeOK
  <1>7. up' /\ task' = task
    BY <1>1, <1>2 DEF process
  <1> QED
    BY <1>4, <1>5, <1>6, <1>7, StepOfOneKeeps

\* The candidate enters the budget of the attempt.
LEMMA OfferKeeps ==
  ASSUME RoutingInv, NEW f \in FollowUps, Offer(f)
  PROVE  RoutingInv'
  <1>1. host[f] = "offering" /\ up
    BY DEF Offer, HostAt, RoutingInv, DownOK
  <1>2. /\ UNCHANGED <<rows, unchangedByHost, decision, confirmed, told>>
        /\ \/ pending' = pending \union {f} /\ host' = [host EXCEPT ![f] = "steering"] /\ UNCHANGED choice
           \/ /\ UNCHANGED pending /\ host' = [host EXCEPT ![f] = "committing"]
              /\ choice' = [choice EXCEPT ![f] = "separate"]
    BY DEF Offer, Go, Choose
  <1>3. RoutingTypeOK' /\ \A g \in FollowUps \ {f} : Still(g)
    BY <1>2 DEF RoutingInv, RoutingTypeOK, Hosts, Decisions, Still, rows, unchangedByHost, process
  <1>4. HandlerOK(f)' /\ FateOK(f)'
    BY <1>1, <1>2 DEF RoutingInv, RoutingTypeOK, HandlerOK, FateOK, rows, unchangedByHost, process
  <1>5. /\ up' /\ task' = task
        /\ task' = "finishing" => \E g \in FollowUps : route'[g] = "finish"
    BY <1>1, <1>2 DEF RoutingInv, rows, unchangedByHost, process
  <1> QED
    BY <1>3, <1>4, <1>5, StepOfOneKeeps

\* The app-server takes the pointer or not; the host waits no longer.
LEMMA SteerKeeps ==
  ASSUME RoutingInv, NEW f \in FollowUps, Steer(f) \/ DecideTimeout(f)
  PROVE  RoutingInv'
  <1>1. host[f] \in {"steering", "deciding"} /\ UNCHANGED <<rows, unchangedByHost, told>>
    BY DEF Steer, DecideTimeout, HostAt
  <1>2. PICK h \in {"deciding", "committing"}, d \in Decisions :
           host' = [host EXCEPT ![f] = h] /\ choice' = [choice EXCEPT ![f] = d]
           /\ (d = choice[f] \/ d = "separate")
    <2>1. choice \in [FollowUps -> Decisions] /\ "separate" \in Decisions
      BY DEF RoutingInv, RoutingTypeOK, Decisions
    <2>2. choice = [choice EXCEPT ![f] = choice[f]] /\ choice[f] \in Decisions
      BY <2>1
    <2> QED
      BY <2>1, <2>2 DEF Steer, DecideTimeout, Go, Choose
  <1>3. UNCHANGED candidates \/ ResolveCandidates(pending \intersect {f})
    BY DEF Steer, DecideTimeout
  <1>4. h \in Hosts \ {"idle"} /\ host'[f] = h /\ choice'[f] = d
    BY <1>2 DEF Hosts, RoutingInv, RoutingTypeOK
  <1>5. HandlerOK(f)' /\ FateOK(f)'
    BY <1>1, <1>2, <1>3, <1>4
       DEF RoutingInv, RoutingTypeOK, HandlerOK, FateOK, rows, unchangedByHost, process, candidates,
           ResolveCandidates
  <1> QED
    BY <1>1, <1>2, <1>3, <1>4, <1>5, WaitingKeeps

\* A cancellation is committed only for an author who may.
LEMMA DecideKeeps ==
  ASSUME RoutingInv, NEW f \in FollowUps, Decide(f)
  PROVE  RoutingInv'
  <1> DEFINE d == IF decision[f] = "cancel" /\ f \notin MayCancel THEN "separate" ELSE decision[f]
  <1>1. /\ host[f] = "deciding" /\ UNCHANGED <<rows, unchangedByHost, candidates, told>>
        /\ host' = [host EXCEPT ![f] = "committing"] /\ choice' = [choice EXCEPT ![f] = d]
    BY DEF Decide, HostAt, Go, Choose
  <1>2. d \in Decisions /\ (d = "cancel" => f \in MayCancel)
    BY DEF Decide, RoutingInv, RoutingTypeOK, Decisions
  <1> HIDE DEF d
  <1>3. "committing" \in Hosts \ {"idle"} /\ host'[f] = "committing" /\ choice'[f] = d
    BY <1>1 DEF Hosts, RoutingInv, RoutingTypeOK
  <1>4. HandlerOK(f)' /\ FateOK(f)'
    BY <1>1, <1>2, <1>3 DEF RoutingInv, HandlerOK, FateOK, rows, unchangedByHost, process, candidates
  <1> QED
    BY <1>1, <1>2, <1>3, <1>4, WaitingKeeps

\* route_task_candidate: a task that is to finish has a row that says so.
LEMMA CommitKeeps ==
  ASSUME RoutingInv, NEW f \in FollowUps, Commit(f)
  PROVE  RoutingInv'
  <1>1. /\ host[f] = "committing" /\ route[f] = "candidate" /\ up
        /\ UNCHANGED <<marked, own, unchangedByHost, candidates, told>>
    BY DEF Commit, HostAt, RoutingInv, DownOK
  <1>2. \/ /\ route' = [route EXCEPT ![f] = choice[f]]
           /\ task' = IF choice[f] = "finish" THEN "finishing" ELSE task
           /\ choice[f] = "separate" \/ task \in OpenStates
           /\ host' = [host EXCEPT ![f] = "confirming"] /\ UNCHANGED choice
        \/ choice' = [choice EXCEPT ![f] = "separate"] /\ UNCHANGED <<route, task, host>>
    BY DEF Commit, Go, Choose
  <1>3. RoutingTypeOK' /\ \A g \in FollowUps \ {f} : Still(g)
    BY <1>1, <1>2
       DEF RoutingInv, RoutingTypeOK, Hosts, Decisions, OpenStates, Still, candidates,
           unchangedByHost, process
  <1>4. HandlerOK(f)' /\ FateOK(f)'
    BY <1>1, <1>2
       DEF RoutingInv, RoutingTypeOK, HandlerOK, FateOK, candidates, unchangedByHost, process, OpenStates
  <1>5. task' = "finishing" => \E g \in FollowUps : route'[g] = "finish"
    BY <1>1, <1>2 DEF RoutingInv, RoutingTypeOK
  <1>6. up' /\ (task = "cancelled" => task' = "cancelled")
    BY <1>1, <1>2 DEF unchangedByHost, process, OpenStates
  <1> QED
    BY <1>3, <1>4, <1>5, <1>6, StepOfOneKeeps

\* The handler fails where it writes to the store.
LEMMA HandlerFailsKeeps ==
  ASSUME RoutingInv, NEW f \in FollowUps,
         host[f] \in {"committing", "marking", "cancelling", "reverting", "responding"},
         Error(f), UNCHANGED <<rows, candidates, unchangedByHost>>
  PROVE  RoutingInv'
  <1>1. /\ host' = [host EXCEPT ![f] = "done"] /\ choice' = [choice EXCEPT ![f] = "separate"]
        /\ told' = told \union {f}
    BY DEF Error, Over, Go, Choose
  <1>2. /\ "done" \in Hosts \ {"idle"} /\ "separate" \in Decisions /\ told' \in SUBSET FollowUps
        /\ host'[f] = "done" /\ choice'[f] = "separate" /\ up
    BY <1>1 DEF RoutingInv, RoutingTypeOK, DownOK, Hosts, Decisions
  <1>3. HandlerOK(f)' /\ FateOK(f)'
    BY <1>1, <1>2 DEF RoutingInv, HandlerOK, FateOK, rows, unchangedByHost, process, candidates
  <1> QED
    BY <1>1, <1>2, <1>3, HandlerKeeps

\* The call learns that its decision is durable.
LEMMA ConfirmKeeps ==
  ASSUME RoutingInv, NEW f \in FollowUps, Confirm(f)
  PROVE  RoutingInv'
  <1>1. /\ host[f] = "confirming" /\ up
        /\ UNCHANGED <<rows, unchangedByHost, pending, decision, choice, told>>
    BY DEF Confirm, HostAt, RoutingInv, DownOK
  <1>2. \/ /\ f \in pending /\ decision[f] = choice[f] /\ confirmed' = confirmed \union {f}
           /\ host' = [host EXCEPT ![f] = "applying"]
        \/ /\ UNCHANGED confirmed /\ choice[f] = "separate" /\ host' = [host EXCEPT ![f] = "responding"]
        \/ UNCHANGED confirmed /\ host' = [host EXCEPT ![f] = "reverting"]
    BY DEF Confirm, Go, Unapplied
  <1>3. RoutingTypeOK' /\ \A g \in FollowUps \ {f} : Still(g)
    BY <1>1, <1>2 DEF RoutingInv, RoutingTypeOK, Hosts, Still, rows, unchangedByHost, process
  <1>4. HandlerOK(f)' /\ FateOK(f)'
    BY <1>1, <1>2 DEF RoutingInv, RoutingTypeOK, HandlerOK, FateOK, rows, unchangedByHost, process
  <1>5. /\ up' /\ task' = task
        /\ task' = "finishing" => \E g \in FollowUps : route'[g] = "finish"
    BY <1>1 DEF RoutingInv, rows, unchangedByHost, process
  <1> QED
    BY <1>3, <1>4, <1>5, StepOfOneKeeps

\* What was not taken is made separate; what was taken is marked.
LEMMA AnsweredKeeps ==
  ASSUME RoutingInv, NEW f \in FollowUps, Answered(f)
  PROVE  RoutingInv'
  <1>1. /\ host[f] = "applying" /\ f \notin pending
        /\ UNCHANGED <<rows, candidates, unchangedByHost, choice, told>>
    BY DEF Answered, HostAt, turn, unchangedByHost
  <1>2. PICK h \in {"responding", "reverting", "cancelling", "marking"} :
           /\ host' = [host EXCEPT ![f] = h]
           /\ h \in {"responding", "reverting"} => taken[f] # choice[f]
           /\ h \in {"cancelling", "marking"} => taken[f] = choice[f]
           /\ h = "cancelling" <=> taken[f] = choice[f] /\ choice[f] = "cancel"
    BY DEF Answered, Go, Unapplied
  <1>3. /\ h \in Hosts \ {"idle"} /\ host'[f] = h /\ choice[f] \in Decisions
        /\ choice' = [choice EXCEPT ![f] = choice[f]] /\ told' \in SUBSET FollowUps
    BY <1>1, <1>2 DEF Hosts, RoutingInv, RoutingTypeOK
  <1>4. HandlerOK(f)' /\ FateOK(f)'
    BY <1>1, <1>2, <1>3
       DEF RoutingInv, RoutingTypeOK, HandlerOK, FateOK, rows, unchangedByHost, process, candidates
  <1> QED
    BY <1>1, <1>2, <1>3, <1>4, HandlerKeeps

\* mark_task_candidate_applied.
LEMMA MarkKeeps ==
  ASSUME RoutingInv, NEW f \in FollowUps, Mark(f)
  PROVE  RoutingInv'
  <1>1. /\ host[f] = "marking" /\ up /\ marked' = marked \union {f}
        /\ host' = [host EXCEPT ![f] = "done"] /\ choice' = [choice EXCEPT ![f] = "separate"]
        /\ UNCHANGED <<task, route, own, candidates, unchangedByHost, told>>
    BY DEF Mark, HostAt, Over, Go, Choose, turn, unchangedByHost, RoutingInv, DownOK
  <1>2. RoutingTypeOK' /\ \A g \in FollowUps \ {f} : Still(g)
    BY <1>1
       DEF RoutingInv, RoutingTypeOK, Hosts, Decisions, Still, candidates, unchangedByHost, process
  <1>3. HandlerOK(f)' /\ FateOK(f)'
    BY <1>1 DEF RoutingInv, RoutingTypeOK, HandlerOK, FateOK, candidates, unchangedByHost, process
  <1>4. /\ up' /\ task' = task
        /\ task' = "finishing" => \E g \in FollowUps : route'[g] = "finish"
    BY <1>1 DEF RoutingInv, unchangedByHost, process
  <1> QED
    BY <1>2, <1>3, <1>4, StepOfOneKeeps

\* The task is cancelled with the mark, for an author who may.
LEMMA CancelTaskKeeps ==
  ASSUME RoutingInv, NEW f \in FollowUps, CancelTask(f)
  PROVE  RoutingInv'
  <1>1. /\ host[f] = "cancelling" /\ up
        /\ UNCHANGED <<route, own, candidates, unchangedByHost>>
    BY DEF CancelTask, HostAt, turn, unchangedByHost, RoutingInv, DownOK
  <1>2. CASE task' = "cancelled" /\ marked' = marked \union {f} /\ Over(f) /\ UNCHANGED told
    <2>1. host' = [host EXCEPT ![f] = "done"] /\ choice' = [choice EXCEPT ![f] = "separate"]
      BY <1>2 DEF Over, Go, Choose
    <2>2. RoutingTypeOK' /\ \A g \in FollowUps \ {f} : Still(g)
      BY <1>1, <1>2, <2>1
         DEF RoutingInv, RoutingTypeOK, Hosts, Decisions, Still, candidates, unchangedByHost, process
    <2>3. HandlerOK(f)' /\ FateOK(f)'
      BY <1>1, <1>2, <2>1
         DEF RoutingInv, RoutingTypeOK, HandlerOK, FateOK, candidates, unchangedByHost, process
    <2>4. up'
      BY <1>1 DEF unchangedByHost, process
    <2> QED
      BY <1>2, <2>2, <2>3, <2>4, StepOfOneKeeps
  <1>3. CASE Error(f) /\ UNCHANGED <<task, marked>>
    BY <1>1, <1>3, HandlerFailsKeeps DEF rows
  <1>4. CASE Go(f, "reverting") /\ UNCHANGED <<task, marked, choice, told>>
    <2>1. /\ host' = [host EXCEPT ![f] = "reverting"] /\ "reverting" \in Hosts \ {"idle"}
          /\ host'[f] = "reverting" /\ choice[f] \in Decisions
          /\ choice' = [choice EXCEPT ![f] = choice[f]] /\ UNCHANGED rows
      BY <1>1, <1>4 DEF Go, Hosts, RoutingInv, RoutingTypeOK, rows
    <2>2. HandlerOK(f)' /\ FateOK(f)'
      BY <1>1, <1>4, <2>1 DEF RoutingInv, HandlerOK, FateOK, unchangedByHost, process, candidates
    <2>3. told' \in SUBSET FollowUps
      BY <1>4 DEF RoutingInv, RoutingTypeOK
    <2> QED
      BY <1>1, <2>1, <2>2, <2>3, HandlerKeeps
  <1> QED
    BY <1>2, <1>3, <1>4 DEF CancelTask

\* default_task_candidate_to_separate: the task stays finishing for another row.
LEMMA DefaultIs ==
  ASSUME RoutingInv, NEW f \in FollowUps, Default(f)
  PROVE  /\ f \notin marked /\ route' = [route EXCEPT ![f] = "separate"]
         /\ UNCHANGED <<marked, own>>
         /\ task' \in OpenStates \union {"completed", "failed", "cancelled"}
         /\ task = "cancelled" => task' = "cancelled"
         /\ task' = "finishing" => \E g \in FollowUps : route'[g] = "finish"
  <1>1. route \in [FollowUps -> Decisions \union {"none", "candidate"}]
        /\ task \in OpenStates \union {"completed", "failed", "cancelled"}
    BY DEF RoutingInv, RoutingTypeOK
  <1>2. ASSUME task' = "finishing"
        PROVE  \E g \in FollowUps \ {f} : route[g] = "finish"
    BY <1>2 DEF Default, RoutingInv
  <1> QED
    BY <1>1, <1>2 DEF Default, OpenStates

\* What the turn did not apply becomes a separate task.
LEMMA RevertKeeps ==
  ASSUME RoutingInv, NEW f \in FollowUps, Revert(f)
  PROVE  RoutingInv'
  <1>1. /\ host[f] = "reverting" /\ up /\ UNCHANGED <<candidates, unchangedByHost>>
    BY DEF Revert, HostAt, turn, unchangedByHost, RoutingInv, DownOK
  <1>2. CASE Default(f) /\ Go(f, "responding") /\ Choose(f, "separate") /\ UNCHANGED told
    <2>1. /\ host' = [host EXCEPT ![f] = "responding"] /\ choice' = [choice EXCEPT ![f] = "separate"]
          /\ UNCHANGED told
      BY <1>2 DEF Go, Choose
    <2>2. /\ f \notin marked /\ route' = [route EXCEPT ![f] = "separate"] /\ UNCHANGED <<marked, own>>
          /\ task' \in OpenStates \union {"completed", "failed", "cancelled"}
          /\ task = "cancelled" => task' = "cancelled"
          /\ task' = "finishing" => \E g \in FollowUps : route'[g] = "finish"
      BY <1>2, DefaultIs
    <2>3. RoutingTypeOK' /\ \A g \in FollowUps \ {f} : Still(g)
      BY <1>1, <2>1, <2>2
         DEF RoutingInv, RoutingTypeOK, Hosts, Decisions, Still, candidates, unchangedByHost, process
    <2>4. HandlerOK(f)' /\ FateOK(f)'
      BY <1>1, <2>1, <2>2
         DEF RoutingInv, RoutingTypeOK, HandlerOK, FateOK, candidates, unchangedByHost, process
    <2>5. up'
      BY <1>1 DEF unchangedByHost, process
    <2> QED
      BY <2>2, <2>3, <2>4, <2>5, StepOfOneKeeps
  <1>3. CASE Error(f) /\ UNCHANGED rows
    BY <1>1, <1>3, HandlerFailsKeeps
  <1> QED
    BY <1>2, <1>3 DEF Revert

\* The follow-up's own turn: nothing was written under its id.
LEMMA RespondKeeps ==
  ASSUME RoutingInv, NEW f \in FollowUps, Respond(f)
  PROVE  RoutingInv'
  <1>1. /\ host[f] = "responding" /\ up /\ UNCHANGED <<task, route, marked, candidates, unchangedByHost>>
    BY DEF Respond, HostAt, turn, unchangedByHost, RoutingInv, DownOK
  <1>2. CASE own' = [own EXCEPT ![f] = "begun"] /\ Go(f, "done") /\ UNCHANGED <<choice, told>>
    <2>1. host' = [host EXCEPT ![f] = "done"]
      BY <1>2 DEF Go
    <2>2. RoutingTypeOK' /\ \A g \in FollowUps \ {f} : Still(g)
      BY <1>1, <1>2, <2>1
         DEF RoutingInv, RoutingTypeOK, Hosts, Still, candidates, unchangedByHost, process
    <2>3. HandlerOK(f)' /\ FateOK(f)'
      BY <1>1, <1>2, <2>1
         DEF RoutingInv, RoutingTypeOK, HandlerOK, FateOK, candidates, unchangedByHost, process
    <2>4. /\ up' /\ task' = task
          /\ task' = "finishing" => \E g \in FollowUps : route'[g] = "finish"
      BY <1>1 DEF RoutingInv, unchangedByHost, process
    <2> QED
      BY <2>2, <2>3, <2>4, StepOfOneKeeps
  <1>3. CASE Error(f) /\ UNCHANGED own
    BY <1>1, <1>3, HandlerFailsKeeps DEF rows
  <1> QED
    BY <1>2, <1>3 DEF Respond

\* Every step of a handler.
LEMMA HostStepKeeps ==
  ASSUME RoutingInv, NEW f \in FollowUps, HostStep(f)
  PROVE  RoutingInv'
  <1>1. CASE CommitFails(f) \/ MarkFails(f)
    BY <1>1, HandlerFailsKeeps
       DEF CommitFails, MarkFails, HostAt, turn, unchangedByHost
  <1> QED
    BY <1>1, RecordKeeps, OfferKeeps, SteerKeeps, DecideKeeps, CommitKeeps, ConfirmKeeps,
       AnsweredKeeps, MarkKeeps, CancelTaskKeeps, RevertKeeps, RespondKeeps DEF HostStep

-------------------------------------------------------------------------------
(* Routing: the turn and its calls                                         *)

\* A step that changes nothing about any follow-up.
LEMMA StillKeeps ==
  ASSUME RoutingInv, RoutingTypeOK', \A g \in FollowUps : Still(g),
         task = "cancelled" => task' = "cancelled",
         ~up' => DownOK',
         task' = "finishing" => \E g \in FollowUps : route'[g] = "finish"
  PROVE  RoutingInv'
  <1>1. ASSUME NEW g \in FollowUps
        PROVE  HandlerOK(g)' /\ FateOK(g)'
    <2>1. HandlerOK(g) /\ FateOK(g) /\ Still(g)
      BY DEF RoutingInv
    <2>2. HandlerOK(g)'
      BY <2>1 DEF HandlerOK, Still
    <2>3. FateOK(g)'
      BY <2>1 DEF FateOK, Still
    <2> QED
      BY <2>2, <2>3
  <1> QED
    BY <1>1 DEF RoutingInv

\* The end of an attempt drops the candidates: who was told applies it no more,
\* and the handler finds that it was not taken.
LEMMA TurnEndsKeeps ==
  ASSUME RoutingInv, TurnEnds
  PROVE  RoutingInv'
  <1>1. /\ phase = "turn" /\ phase' \in {"ending", "between"} /\ pending' = {} /\ confirmed' = {}
        /\ decision' = [f \in FollowUps |->
               IF f \in pending /\ decision[f] = "open" THEN "separate" ELSE decision[f]]
        /\ UNCHANGED <<rows, attempt, taken, authorized, crossed, handlers, process>>
    BY DEF TurnEnds, ResolveCandidates, RoutingInv, RoutingTypeOK
  <1>2. up /\ up'
    BY <1>1 DEF RoutingInv, DownOK, process
  <1>3. RoutingTypeOK'
    BY <1>1 DEF RoutingInv, RoutingTypeOK, Decisions, rows, handlers, process
  <1>4. ASSUME NEW f \in FollowUps
        PROVE  HandlerOK(f)' /\ FateOK(f)'
    <2>1. HandlerOK(f) /\ FateOK(f)
      BY DEF RoutingInv
    <2>2. HandlerOK(f)'
      BY <1>1, <2>1 DEF HandlerOK, rows, handlers, process
    <2>3. FateOK(f)'
      BY <1>1, <2>1 DEF FateOK, rows, handlers, process
    <2> QED
      BY <2>2, <2>3
  <1> QED
    BY <1>1, <1>2, <1>3, <1>4 DEF RoutingInv, rows

\* The next attempt, the outcome, the cancellation of the task by a user.
LEMMA TaskKeeps ==
  ASSUME RoutingInv, TurnAgain \/ TaskEnds \/ UserCancels
  PROVE  RoutingInv'
  <1>1. /\ phase # "gone" /\ phase' \in {"turn", "between", "ending", "gone"} /\ attempt' \in 1 .. 2
        /\ UNCHANGED <<route, marked, own, candidates, taken, authorized, crossed, handlers, process>>
        /\ task' = task \/ (task \in OpenStates /\ task' \in {"completed", "failed", "cancelled"})
    BY DEF TurnAgain, TaskEnds, UserCancels, Running, rows, turn, RoutingInv, RoutingTypeOK
  <1>2. up /\ up'
    BY <1>1 DEF RoutingInv, DownOK, process
  <1>3. RoutingTypeOK' /\ \A g \in FollowUps : Still(g)
    BY <1>1 DEF RoutingInv, RoutingTypeOK, Still, candidates, handlers, process
  <1>4. /\ task = "cancelled" => task' = "cancelled"
        /\ task' = "finishing" => \E g \in FollowUps : route'[g] = "finish"
    BY <1>1 DEF RoutingInv, OpenStates
  <1> QED
    BY <1>2, <1>3, <1>4, StillKeeps

\* The model decides.
LEMMA StageKeeps ==
  ASSUME RoutingInv, NEW f \in FollowUps, NEW d \in Decisions, Stage(f, d)
  PROVE  RoutingInv'
  <1>1. /\ f \in pending /\ decision[f] = "open" /\ decision' = [decision EXCEPT ![f] = d]
        /\ UNCHANGED <<rows, phase, attempt, pending, confirmed, taken, authorized, crossed,
                       handlers, process>>
    BY DEF Stage
  <1>2. RoutingTypeOK' /\ \A g \in FollowUps \ {f} : Still(g)
    BY <1>1 DEF RoutingInv, RoutingTypeOK, Still, rows, handlers, process
  <1>3. HandlerOK(f)' /\ FateOK(f)'
    BY <1>1
       DEF RoutingInv, RoutingTypeOK, HandlerOK, FateOK, Decisions, IntoTask, rows, handlers, process
  <1>4. /\ ~up' => DownOK'
        /\ task' = task /\ (task' = "finishing" => \E g \in FollowUps : route'[g] = "finish")
    BY <1>1 DEF RoutingInv, DownOK, rows, handlers, process
  <1> QED
    BY <1>2, <1>3, <1>4, StepOfOneKeeps

\* A confirmed call applies what its row says.
LEMMA ApplyKeeps ==
  ASSUME RoutingInv, NEW f \in FollowUps, Apply(f)
  PROVE  RoutingInv'
  <1>1. /\ f \in confirmed /\ f \in pending /\ host[f] = "applying" /\ decision[f] = choice[f]
        /\ taken[f] = "none" /\ f \notin marked /\ own[f] = "waiting" /\ up /\ f \notin old
        /\ choice[f] \in Decisions
    BY DEF Apply, RoutingInv, RoutingTypeOK, HandlerOK, FateOK, DownOK
  <1>2. /\ taken' = [taken EXCEPT ![f] = IF decision[f] = "separate" THEN taken[f] ELSE decision[f]]
        /\ authorized' = authorized \union {g \in {f} : decision[f] = "attach"}
        /\ pending' = pending \ {f} /\ confirmed' = confirmed \ {f}
        /\ decision' = [g \in FollowUps |->
               IF g \in {f} /\ decision[g] = "open" THEN "separate" ELSE decision[g]]
        /\ UNCHANGED <<rows, phase, attempt, crossed, handlers, process>>
    BY DEF Apply, ResolveCandidates
  <1>3. RoutingTypeOK'
    BY <1>1, <1>2 DEF RoutingInv, RoutingTypeOK, Decisions, rows, handlers, process
  <1>4. \A g \in FollowUps \ {f} : Still(g)
    BY <1>2 DEF RoutingInv, RoutingTypeOK, Still, rows, handlers, process
  <1>5. HandlerOK(f)' /\ FateOK(f)'
    BY <1>1, <1>2 DEF RoutingInv, RoutingTypeOK, HandlerOK, FateOK, rows, handlers, process
  <1>6. /\ up'
        /\ task' = task /\ (task' = "finishing" => \E g \in FollowUps : route'[g] = "finish")
    BY <1>1, <1>2 DEF RoutingInv, rows, handlers, process
  <1> QED
    BY <1>3, <1>4, <1>5, <1>6, StepOfOneKeeps

\* A call gives up only before it is confirmed.
LEMMA GiveUpKeeps ==
  ASSUME RoutingInv, NEW f \in FollowUps, GiveUp(f)
  PROVE  RoutingInv'
  <1>1. /\ f \in pending \ confirmed /\ host[f] # "applying"
        /\ pending' = pending \ {f} /\ confirmed' = confirmed \ {f}
        /\ decision' = [g \in FollowUps |->
               IF g \in {f} /\ decision[g] = "open" THEN "separate" ELSE decision[g]]
        /\ UNCHANGED <<rows, phase, attempt, taken, authorized, crossed, handlers, process>>
    BY DEF GiveUp, ResolveCandidates, RoutingInv, HandlerOK
  <1>2. RoutingTypeOK'
    BY <1>1 DEF RoutingInv, RoutingTypeOK, Decisions, rows, handlers, process
  <1>3. \A g \in FollowUps \ {f} : Still(g)
    BY <1>1 DEF RoutingInv, RoutingTypeOK, Still, rows, handlers, process
  <1>4. HandlerOK(f)' /\ FateOK(f)'
    BY <1>1 DEF RoutingInv, RoutingTypeOK, HandlerOK, FateOK, rows, handlers, process
  <1>5. /\ ~up' => DownOK'
        /\ task' = task /\ (task' = "finishing" => \E g \in FollowUps : route'[g] = "finish")
    BY <1>1 DEF RoutingInv, DownOK, rows, handlers, process
  <1> QED
    BY <1>2, <1>3, <1>4, <1>5, StepOfOneKeeps

\* A write needs an authority, which only what was attached gives.
LEMMA WriteKeeps ==
  ASSUME RoutingInv, NEW f \in FollowUps, Write(f)
  PROVE  RoutingInv'
  <1>1. /\ f \in authorized /\ crossed' = crossed \union {f} /\ up
        /\ UNCHANGED <<rows, phase, attempt, candidates, taken, authorized, handlers, process>>
    BY DEF Write, RoutingInv, DownOK
  <1>2. RoutingTypeOK' /\ \A g \in FollowUps \ {f} : Still(g)
    BY <1>1 DEF RoutingInv, RoutingTypeOK, Still, rows, candidates, handlers, process
  <1>3. HandlerOK(f)' /\ FateOK(f)'
    BY <1>1 DEF RoutingInv, RoutingTypeOK, HandlerOK, FateOK, rows, candidates, handlers, process
  <1>4. /\ up'
        /\ task' = task /\ (task' = "finishing" => \E g \in FollowUps : route'[g] = "finish")
    BY <1>1 DEF RoutingInv, rows, process
  <1> QED
    BY <1>2, <1>3, <1>4, StepOfOneKeeps

-------------------------------------------------------------------------------
(* Routing: the process and its recovery                                   *)

\* What is in memory goes, what was taken and written stays.
LEMMA ProcessEndsKeeps ==
  ASSUME RoutingInv, ProcessEnds
  PROVE  RoutingInv'
  <1>1. /\ up' = FALSE /\ phase' = "gone" /\ attempt' = 1 /\ pending' = {} /\ confirmed' = {}
        /\ decision' = [f \in FollowUps |-> "open"] /\ authorized' = {} /\ recovery' = "done"
        /\ host' = [f \in FollowUps |-> IF host[f] = "idle" THEN "idle" ELSE "done"]
        /\ choice' = [f \in FollowUps |-> "separate"] /\ todo' = {}
        /\ UNCHANGED <<rows, taken, crossed, told, starts, old, left>>
        /\ starts < MaxStarts
    BY DEF ProcessEnds
  <1>2. RoutingTypeOK'
    <2>1. /\ host' \in [FollowUps -> Hosts] /\ choice' \in [FollowUps -> Decisions]
          /\ decision' \in [FollowUps -> Decisions \union {"open"}]
      BY <1>1 DEF Hosts, Decisions
    <2>2. attempt' \in 1 .. 2
      BY <1>1
    <2> QED
      BY <1>1, <2>1, <2>2 DEF RoutingInv, RoutingTypeOK, rows
  <1>3. ASSUME NEW f \in FollowUps
        PROVE  HandlerOK(f)' /\ FateOK(f)'
    <2>1. /\ HandlerOK(f) /\ FateOK(f)
          /\ host'[f] \in {"idle", "done"} /\ (host'[f] = "idle" <=> host[f] = "idle")
      BY <1>1 DEF RoutingInv
    <2>2. HandlerOK(f)'
      BY <1>1, <2>1 DEF HandlerOK, rows
    <2>3. FateOK(f)'
      BY <1>1, <2>1 DEF FateOK, rows
    <2> QED
      BY <2>2, <2>3
  <1>4. DownOK'
    BY <1>1 DEF DownOK
  <1> QED
    BY <1>1, <1>2, <1>3, <1>4 DEF RoutingInv, rows

\* The rows there are belong to handlers that are over.
LEMMA StartAgainKeeps ==
  ASSUME RoutingInv, StartAgain
  PROVE  RoutingInv'
  <1>1. /\ ~up /\ up' = TRUE /\ starts' = starts + 1 /\ recovery' = "task" /\ left' = {}
        /\ old' = {f \in FollowUps : route[f] # "none"}
        /\ UNCHANGED <<rows, turn, handlers, todo>>
    BY DEF StartAgain
  <1>2. DownOK
    BY <1>1 DEF RoutingInv
  <1>3. RoutingTypeOK'
    <2>1. starts' \in 1 .. MaxStarts
      BY <1>1, <1>2, RoutingAssumption DEF RoutingInv, RoutingTypeOK, DownOK
    <2> QED
      BY <1>1, <2>1 DEF RoutingInv, RoutingTypeOK, rows, turn, candidates, handlers
  <1>4. ASSUME NEW f \in FollowUps
        PROVE  HandlerOK(f)' /\ FateOK(f)'
    <2>1. HandlerOK(f) /\ FateOK(f) /\ host[f] \in {"idle", "done"} /\ f \notin authorized
      BY <1>2 DEF RoutingInv, DownOK
    <2>2. HandlerOK(f)'
      BY <1>1, <2>1 DEF HandlerOK, rows, turn, candidates, handlers
    <2>3. f \in old' => host[f] = "done"
      BY <1>1, <2>1 DEF HandlerOK
    <2>4. FateOK(f)'
      BY <1>1, <1>2, <2>1, <2>3 DEF FateOK, DownOK, rows, turn, candidates, handlers
    <2> QED
      BY <2>2, <2>4
  <1> QED
    BY <1>1, <1>3, <1>4 DEF RoutingInv, rows

\* The task runs again or is given up; then what has no route is listed.
LEMMA RecoverTaskKeeps ==
  ASSUME RoutingInv, RecoverTask \/ ListUnrouted
  PROVE  RoutingInv'
  <1>1. /\ recovery \in {"task", "running"} /\ recovery' \in {"running", "done"}
        /\ phase' \in {phase, "turn"} /\ attempt' \in {attempt, 1}
        /\ task' = task \/ (task \in OpenStates /\ task' \in {"active", "failed"})
        /\ todo' = todo \/ todo' = {f \in FollowUps : Unrouted(f)}
        /\ UNCHANGED <<route, marked, own, candidates, taken, authorized, crossed, handlers>>
        /\ UNCHANGED <<up, starts, old, left>>
    BY DEF RecoverTask, ListUnrouted, rows, turn
  <1>2. up /\ up'
    BY <1>1 DEF RoutingInv, DownOK
  <1>3. RoutingTypeOK'
    BY <1>1 DEF RoutingInv, RoutingTypeOK, OpenStates, candidates, handlers
  <1>4. ASSUME NEW f \in FollowUps
        PROVE  HandlerOK(f)' /\ FateOK(f)'
    <2>1. HandlerOK(f) /\ FateOK(f)
      BY DEF RoutingInv
    <2>2. HandlerOK(f)'
      BY <1>1, <2>1 DEF HandlerOK, candidates, handlers
    <2>3. f \in todo' => f \in old
      BY <1>1, <2>1 DEF FateOK, Unrouted
    <2>4. FateOK(f)'
      BY <1>1, <2>1, <2>3 DEF FateOK, OpenStates, candidates, handlers
    <2> QED
      BY <2>2, <2>4
  <1>5. task' = "finishing" => \E g \in FollowUps : route'[g] = "finish"
    BY <1>1 DEF RoutingInv
  <1> QED
    BY <1>2, <1>3, <1>4, <1>5 DEF RoutingInv

\* Listed rows are old ones, whose handlers are over.
LEMMA RecoverFollowUpKeeps ==
  ASSUME RoutingInv, NEW f \in FollowUps, RecoverFollowUp(f)
  PROVE  RoutingInv'
  <1>1. /\ f \in todo /\ up /\ f \in old /\ host[f] \in {"done", "recovering"} /\ todo' = todo \ {f}
        /\ UNCHANGED <<turn, choice, told, up, starts, recovery, old>>
    BY DEF RecoverFollowUp, RoutingInv, FateOK, DownOK
  <1>2. CASE Default(f) /\ Go(f, "recovering") /\ UNCHANGED left
    <2>1. host' = [host EXCEPT ![f] = "recovering"] /\ left' = left
      BY <1>2 DEF Go
    <2>2. /\ f \notin marked /\ route' = [route EXCEPT ![f] = "separate"] /\ UNCHANGED <<marked, own>>
          /\ task' \in OpenStates \union {"completed", "failed", "cancelled"}
          /\ task = "cancelled" => task' = "cancelled"
          /\ task' = "finishing" => \E g \in FollowUps : route'[g] = "finish"
      BY <1>2, DefaultIs
    <2>3. RoutingTypeOK' /\ \A g \in FollowUps \ {f} : Still(g)
      BY <1>1, <2>1, <2>2
         DEF RoutingInv, RoutingTypeOK, Hosts, Decisions, Still, turn, candidates
    <2>4. HandlerOK(f)' /\ FateOK(f)'
      BY <1>1, <2>1, <2>2 DEF RoutingInv, RoutingTypeOK, HandlerOK, FateOK, turn, candidates
    <2> QED
      BY <1>1, <2>2, <2>3, <2>4, StepOfOneKeeps
  <1>3. CASE left' = left \union {f} /\ UNCHANGED <<rows, host>>
    <2>1. RoutingTypeOK' /\ \A g \in FollowUps : Still(g)
      BY <1>1, <1>3 DEF RoutingInv, RoutingTypeOK, Still, turn, candidates, rows
    <2>2. task' = task /\ (task' = "finishing" => \E g \in FollowUps : route'[g] = "finish")
      BY <1>3 DEF RoutingInv, rows
    <2> QED
      BY <1>1, <2>1, <2>2, StillKeeps
  <1> QED
    BY <1>2, <1>3 DEF RecoverFollowUp

\* A follow-up under whose id something was written does not run again.
LEMMA RecoverSeparatelyKeeps ==
  ASSUME RoutingInv, NEW f \in FollowUps, RecoverSeparately(f)
  PROVE  RoutingInv'
  <1>1. /\ host[f] = "recovering" /\ up /\ f \in old /\ f \notin marked \union authorized
        /\ host' = [host EXCEPT ![f] = "done"]
        /\ \/ f \notin crossed /\ own' = [own EXCEPT ![f] = "begun"] /\ UNCHANGED left
           \/ own' = [own EXCEPT ![f] = "failed"] /\ UNCHANGED left
           \/ left' = left \union {f} /\ UNCHANGED own
        /\ UNCHANGED <<task, route, marked, turn, choice, told, up, starts, recovery, old, todo>>
    BY DEF RecoverSeparately, HostAt, Go, ReplayBarrier, RoutingInv, HandlerOK, FateOK, DownOK
  <1>2. RoutingTypeOK' /\ \A g \in FollowUps \ {f} : Still(g)
    BY <1>1 DEF RoutingInv, RoutingTypeOK, Hosts, Still, turn, candidates
  <1>3. HandlerOK(f)' /\ FateOK(f)'
    BY <1>1 DEF RoutingInv, RoutingTypeOK, HandlerOK, FateOK, turn, candidates
  <1>4. task' = "finishing" => \E g \in FollowUps : route'[g] = "finish"
    BY <1>1 DEF RoutingInv
  <1> QED
    BY <1>1, <1>2, <1>3, <1>4, StepOfOneKeeps

\* Each step, and no step.
LEMMA RoutingStepKeeps ==
  ASSUME RoutingInv, [RoutingNext]_routingVars
  PROVE  RoutingInv'
  <1>1. CASE UNCHANGED routingVars
    <2>1. UNCHANGED <<rows, turn, handlers, process>>
      BY <1>1 DEF routingVars
    <2>2. RoutingTypeOK' /\ \A g \in FollowUps : Still(g)
      BY <2>1 DEF RoutingInv, RoutingTypeOK, Still, rows, turn, candidates, handlers, process
    <2>3. /\ ~up' => DownOK'
          /\ task' = task /\ (task' = "finishing" => \E g \in FollowUps : route'[g] = "finish")
      BY <2>1 DEF RoutingInv, DownOK, rows, turn, handlers, process
    <2> QED
      BY <2>2, <2>3, StillKeeps
  <1>2. CASE RoutingNext
    BY <1>2, TurnEndsKeeps, TaskKeeps, HostStepKeeps, ApplyKeeps, GiveUpKeeps, StartAgainKeeps,
       RecoverTaskKeeps, RecoverFollowUpKeeps, RecoverSeparatelyKeeps, ArriveKeeps, WriteKeeps,
       StageKeeps, ProcessEndsKeeps
       DEF RoutingNext, RoutingStep, TurnStep, CallStep, RecoveryStep
  <1> QED
    BY <1>1, <1>2

\* The start.
LEMMA RoutingInitFact ==
  ASSUME RoutingInit
  PROVE  RoutingInv
  <1>1. RoutingTypeOK
    BY RoutingAssumption DEF RoutingInit, RoutingTypeOK, OpenStates, Hosts, Decisions
  <1>2. \A f \in FollowUps : HandlerOK(f) /\ FateOK(f)
    BY DEF RoutingInit, HandlerOK, FateOK
  <1> QED
    BY <1>1, <1>2 DEF RoutingInit, RoutingInv

-------------------------------------------------------------------------------
(* Routing: the theorems                                                   *)

\* The invariant holds throughout route_candidate, the model's call and the
\* recovery (service.py, providers/codex.py, cogs.py).
THEOREM RoutingInductive == RoutingSpec => []RoutingInv
  <1>1. RoutingInit => RoutingInv
    BY RoutingInitFact
  <1>2. RoutingInv /\ [RoutingNext]_routingVars => RoutingInv'
    BY RoutingStepKeeps
  <1> QED
    BY <1>1, <1>2, PTL DEF RoutingSpec

\* For any number of follow-ups and starts of the process: what the turn took
\* and what the row says agree, once the row is marked for good; it is not run
\* separately as well, nor is one under whose id the turn wrote; and a task
\* finishes or is cancelled only for a follow-up whose row says so, of an author
\* who may (service.py:576-843, cogs.py:11248).
THEOREM OneFateHolds == RoutingSpec => []OneFate
  <1>1. RoutingInv => OneFate
    <2>1. SUFFICES ASSUME RoutingInv, NEW f \in FollowUps
                   PROVE  /\ taken[f] \in {"attach", "finish"} /\ ~Unmarked(f) => route[f] = taken[f]
                          /\ f \in marked => route[f] = taken[f] /\ own[f] = "waiting"
                          /\ f \in crossed => own[f] # "begun"
                          /\ f \in marked /\ taken[f] = "cancel" => task = "cancelled" /\ f \in MayCancel
      BY DEF RoutingInv, OneFate
    <2>2. HandlerOK(f) /\ FateOK(f) /\ host[f] \in Hosts
      BY <2>1 DEF RoutingInv, RoutingTypeOK
    <2>3. taken[f] \in {"attach", "finish"} /\ ~Unmarked(f) => route[f] = taken[f]
      BY <2>2 DEF HandlerOK, FateOK, Unmarked, Hosts
    <2> QED
      BY <2>2, <2>3 DEF FateOK
  <1> QED
    BY <1>1, RoutingInductive, PTL

\* The states of tasks, rows, calls and handlers stay in their sets.
THEOREM RoutingTypeCorrect == RoutingSpec => []RoutingTypeOK
  <1>1. RoutingInv => RoutingTypeOK
    BY DEF RoutingInv
  <1> QED
    BY <1>1, RoutingInductive, PTL

===============================================================================
