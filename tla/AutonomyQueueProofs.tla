-------------------------- MODULE AutonomyQueueProofs --------------------------
(***************************************************************************)
(* Proofs about AutonomyQueue for any events, channels, limits and times:  *)
(* the types and admission limits; that a claim which was overtaken by a   *)
(* later one can never settle its batch again; that the rows of a batch    *)
(* are a unit and a beginning of their channel's backlog, which the queue  *)
(* therefore implements; that a running lease is respected; and that the   *)
(* consumer's timer is due exactly when a claim would hand something out.  *)
(***************************************************************************)
EXTENDS AutonomyQueue, FiniteSetTheorems, WellFoundedInduction, TLAPS

\* A row some claim has a share in carries no token, or that of this claim or
\* of a later one.
TokenExact ==
    \A t \in DOMAIN claims :
        \A s \in claims[t].members \intersect DOMAIN rows :
            rows[s].token = 0 \/ rows[s].token >= t

IInv == TypeOK /\ TokenExact

Typed(table) == DOMAIN table \subseteq Nat /\ \A s \in DOMAIN table : table[s] \in Row

\* No row of the new table is new, or live where it was not before.
Shrunk(old, new) ==
    /\ DOMAIN new \subseteq DOMAIN old
    /\ \A s \in DOMAIN new :
          /\ new[s].event = old[s].event
          /\ new[s].status = "live" => old[s].status = "live"

\* Every row of the new table has the old token or none.
TokensKept(old, new) ==
    /\ DOMAIN new \subseteq DOMAIN old
    /\ \A s \in DOMAIN new : new[s].token \in {0, old[s].token}

-------------------------------------------------------------------------------
(* Tables and sets                                                         *)

LEMMA LeastNatural ==
  ASSUME NEW S, S \subseteq Nat, S # {}
  PROVE  \E n \in S : \A m \in S : n <= m
<1> DEFINE less == {p \in Nat \X Nat : p[1] < p[2]}
<1>1. IsWellFoundedOn(less, Nat)
  BY NatLessThanWellFounded DEF OpToRel
<1>2. \A x, y \in Nat : <<y, x>> \notin less => x <= y
  OBVIOUS
<1> HIDE DEF less
<1>3. PICK x \in S : \A y \in S : <<y, x>> \notin less
  BY <1>1, WFMin
<1>4. QED
  BY <1>2, <1>3

LEMMA MinFacts ==
  ASSUME NEW S, S \subseteq Nat, S # {}
  PROVE  Min(S) \in S /\ \A y \in S : Min(S) <= y
BY LeastNatural DEF Min

LEMMA EarliestFacts ==
  ASSUME NEW sets, sets # {}, \A x \in sets : x \subseteq Nat /\ x # {}
  PROVE  Earliest(sets) \in sets
<1> DEFINE M == {Min(x) : x \in sets}
<1>1. M \subseteq Nat /\ M # {}
  BY MinFacts
<1>2. \E n \in M : \A m \in M : n <= m
  BY <1>1, LeastNatural
<1>3. \E x \in sets : \A y \in sets : Min(x) <= Min(y)
  BY <1>2
<1>4. QED
  BY <1>3 DEF Earliest

LEMMA SmallerSet ==
  ASSUME NEW S, NEW T, S \subseteq T, IsFiniteSet(T), NEW n \in Nat, Cardinality(T) <= n
  PROVE  IsFiniteSet(S) /\ Cardinality(S) <= n
<1>1. IsFiniteSet(S) /\ Cardinality(S) <= Cardinality(T)
  BY FS_Subset
<1>2. Cardinality(S) \in Nat /\ Cardinality(T) \in Nat
  BY <1>1, FS_CardinalityType
<1>3. QED
  BY <1>1, <1>2

LEMMA OneMore ==
  ASSUME NEW S, NEW T, NEW x, S \subseteq T \union {x}, IsFiniteSet(T),
         NEW n \in Nat, Cardinality(T) < n
  PROVE  Cardinality(S) <= n
<1>1. IsFiniteSet(T \union {x}) /\ Cardinality(T \union {x}) <= Cardinality(T) + 1
  <2>1. Cardinality(T) \in Nat
    BY FS_CardinalityType
  <2>2. CASE x \in T
    <3>1. T \union {x} = T
      BY <2>2
    <3>2. /\ IsFiniteSet(T \union {x})
          /\ Cardinality(T \union {x}) = Cardinality(T)
      BY <3>1, Zenon
    <3>3. QED
      BY <2>1, <3>2
  <2>3. CASE x \notin T
    <3>1. /\ IsFiniteSet(T \union {x})
          /\ Cardinality(T \union {x}) = Cardinality(T) + 1
      BY <2>3, FS_AddElement
    <3>2. QED
      BY <2>1, <3>1
  <2>4. QED
    BY <2>2, <2>3
<1>2. Cardinality(T \union {x}) <= n
  BY <1>1, FS_CardinalityType
<1>3. QED
  BY <1>1, <1>2, SmallerSet

LEMMA ShrunkSets ==
  ASSUME NEW old, NEW new, Shrunk(old, new)
  PROVE  /\ Live(new) \subseteq Live(old)
         /\ \A c \in Channels : OfChannel(new, c) \subseteq OfChannel(old, c)
         /\ \A a \in Actors : OfActor(new, a) \subseteq OfActor(old, a)
BY DEF Shrunk, Live, OfChannel, OfActor, Channel, Actor

LEMMA RetainedFacts ==
  ASSUME NEW table, Typed(table)
  PROVE  /\ Typed(Retained(table))
         /\ Shrunk(table, Retained(table))
         /\ TokensKept(table, Retained(table))
BY DEF Retained, Typed, Shrunk, TokensKept

LEMMA WithoutClaimFacts ==
  ASSUME NEW row \in Row
  PROVE  /\ WithoutClaim(row) \in Row
         /\ WithoutClaim(row).event = row.event /\ WithoutClaim(row).batch = row.batch
         /\ WithoutClaim(row).enqueuedAt = row.enqueuedAt
         /\ WithoutClaim(row).notBefore = row.notBefore
         /\ WithoutClaim(row).token = 0 /\ WithoutClaim(row).leaseUntil = 0
         /\ WithoutClaim(row).failures = row.failures
         /\ WithoutClaim(row).deferrals = row.deferrals
         /\ WithoutClaim(row).status = row.status /\ WithoutClaim(row).endedAt = row.endedAt
BY DEF WithoutClaim, Row

LEMMA CountsFacts ==
  ASSUME NEW row \in Row
  PROVE  /\ row.failures \in Nat /\ row.failures + 1 \in Nat
         /\ row.deferrals \in Nat /\ row.deferrals + 1 \in Nat
<1>1. row.failures \in Nat /\ row.deferrals \in Nat
  BY DEF Row
<1>2. QED
  BY <1>1

LEMMA UnclaimedFacts ==
  ASSUME NEW table, Typed(table)
  PROVE  /\ Typed(Unclaimed(table))
         /\ DOMAIN Unclaimed(table) = DOMAIN table
         /\ Shrunk(table, Unclaimed(table))
         /\ TokensKept(table, Unclaimed(table))
<1>1. Unclaimed(table) =
        [s \in DOMAIN table |-> IF s \in {u \in DOMAIN table : Lapsed(table[u])}
                                THEN WithoutClaim(table[s]) ELSE table[s]]
  BY DEF Unclaimed, Updated
<1>2. \A s \in DOMAIN table : /\ table[s] \in Row
                              /\ WithoutClaim(table[s]) \in Row
                              /\ WithoutClaim(table[s]).event = table[s].event
                              /\ WithoutClaim(table[s]).status = table[s].status
                              /\ WithoutClaim(table[s]).token = 0
  BY WithoutClaimFacts DEF Typed
<1>3. QED
  BY <1>1, <1>2 DEF Typed, Shrunk, TokensKept

\* A claim takes live rows without a token.
LEMMA SelectedFacts ==
  ASSUME NEW table, Typed(table)
  PROVE  Selected(table) \subseteq {s \in Live(table) : table[s].token = 0}
<1> USE QueueAssumption
<1>1. CASE RetryBatches(table) # {}
  <2> DEFINE sets == {Members(table, b) : b \in RetryBatches(table)}
  <2>1. \A x \in sets : x \subseteq Nat /\ x # {}
    BY DEF RetryBatches, Batches, Members, Live, Typed
  <2>2. Earliest(sets) \in sets
    <3>1. sets # {}
      BY <1>1
    <3> HIDE DEF sets
    <3>2. QED
      BY <2>1, <3>1, EarliestFacts
  <2>3. \A x \in sets : x \subseteq {s \in Live(table) : table[s].token = 0}
    BY DEF RetryBatches, Members
  <2>4. Selected(table) = Earliest(sets)
    BY <1>1 DEF Selected
  <2>5. QED
    BY <2>2, <2>3, <2>4
<1>2. CASE RetryBatches(table) = {} /\ RipeChannels(table) # {}
  <2> DEFINE sets == {Candidates(table, c) : c \in RipeChannels(table)}
  <2>1. ASSUME NEW c \in RipeChannels(table)
        PROVE  /\ Candidates(table, c) \subseteq {s \in Live(table) : table[s].token = 0}
               /\ Candidates(table, c) \subseteq Nat
               /\ Candidates(table, c) # {}
    <3> DEFINE m == Min(Waiting(table, c))
    <3>1. Waiting(table, c) # {} /\ Waiting(table, c) \subseteq Live(table) /\ Live(table) \subseteq Nat
      BY <2>1 DEF RipeChannels, Waiting, Live, Typed
    <3>2. m \in Waiting(table, c) /\ \A u \in Waiting(table, c) : m <= u
      BY <3>1, MinFacts
    <3>3. table[m].enqueuedAt \in Nat
      BY <3>1, <3>2 DEF Live, Typed, Row
    <3>4. m \in Window(table, c)
      BY <3>2, <3>3 DEF Window, Deadline
    <3>5. {u \in Window(table, c) : u < m} = {}
      BY <3>1, <3>2 DEF Window
    <3>6. Cardinality({u \in Window(table, c) : u < m}) < CandidateLimit
      BY <3>5, FS_EmptySet
    <3>7. m \in Candidates(table, c)
      BY <3>4, <3>6 DEF Candidates
    <3>8. QED
      BY <3>1, <3>7 DEF Candidates, Window, Waiting
  <2>2. Earliest(sets) \in sets
    <3>1. sets # {} /\ \A x \in sets : x \subseteq Nat /\ x # {}
      BY <1>2, <2>1
    <3> HIDE DEF sets
    <3>2. QED
      BY <3>1, EarliestFacts
  <2>3. Selected(table) = Earliest(sets)
    BY <1>2 DEF Selected
  <2>4. QED
    BY <2>1, <2>2, <2>3
<1>3. CASE RetryBatches(table) = {} /\ RipeChannels(table) = {}
  BY <1>3 DEF Selected
<1>4. QED
  BY <1>1, <1>2, <1>3

-------------------------------------------------------------------------------
(* Steps that add no row                                                   *)

\* Whatever shrinks the table keeps within the limits.
LEMMA ShrunkType ==
  ASSUME TypeOK, Typed(rows'), Shrunk(rows, rows'),
         now' \in Nat, UNCHANGED sequence, claims' \in Seq(Claim)
  PROVE  TypeOK'
<1> USE QueueAssumption DEF TypeOK
<1>1. DOMAIN rows' \subseteq 1 .. sequence' /\ \A s \in DOMAIN rows' : rows'[s] \in Row
  BY DEF Typed, Shrunk
<1>2. IsFiniteSet(DOMAIN rows)
  <2>1. 1 \in Int /\ sequence \in Int
    OBVIOUS
  <2>2. IsFiniteSet(1 .. sequence)
    BY <2>1, FS_Interval
  <2>3. QED
    BY <2>2, FS_Subset
<1>3. \A S \in SUBSET DOMAIN rows : IsFiniteSet(S)
  BY <1>2, FS_Subset
<1>4. /\ Live(rows) \subseteq DOMAIN rows
      /\ \A c \in Channels : OfChannel(rows, c) \subseteq DOMAIN rows
      /\ \A a \in Actors : OfActor(rows, a) \subseteq DOMAIN rows
  BY DEF Live, OfChannel, OfActor
<1>5. /\ Live(rows') \subseteq Live(rows)
      /\ \A c \in Channels : OfChannel(rows', c) \subseteq OfChannel(rows, c)
      /\ \A a \in Actors : OfActor(rows', a) \subseteq OfActor(rows, a)
  BY ShrunkSets
<1>6. Cardinality(Live(rows')) <= MaxPending
  BY <1>3, <1>4, <1>5, SmallerSet
<1>7. ASSUME NEW c \in Channels PROVE Cardinality(OfChannel(rows', c)) <= MaxPerChannel
  BY <1>3, <1>4, <1>5, SmallerSet
<1>8. ASSUME NEW a \in Actors PROVE Cardinality(OfActor(rows', a)) <= MaxPerActor
  BY <1>3, <1>4, <1>5, SmallerSet
<1>9. QED
  BY <1>1, <1>6, <1>7, <1>8

LEMMA TypedRows ==
  ASSUME TypeOK
  PROVE  Typed(rows)
BY DEF TypeOK, Typed

\* So it does for the invariant, when tokens are only taken off.
LEMMA ShrunkStep ==
  ASSUME IInv, Typed(rows'), Shrunk(rows, rows'), TokensKept(rows, rows'),
         now' \in Nat, UNCHANGED <<sequence, claims>>
  PROVE  IInv'
<1>1. TypeOK'
  BY ShrunkType DEF IInv, TypeOK
<1>2. TokenExact'
  BY DEF IInv, TokenExact, TokensKept
<1>3. QED
  BY <1>1, <1>2 DEF IInv

LEMMA InitializeStep ==
  ASSUME IInv, Initialize
  PROVE  IInv'
BY TypedRows, RetainedFacts, ShrunkStep DEF Initialize, IInv, TypeOK

LEMMA NoBatchStep ==
  ASSUME IInv, NoBatch
  PROVE  IInv'
BY TypedRows, UnclaimedFacts, ShrunkStep DEF NoBatch, IInv, TypeOK

LEMMA RenewLeaseStep ==
  ASSUME IInv, NEW t \in DOMAIN claims, RenewLease(t)
  PROVE  IInv'
<1> USE QueueAssumption DEF IInv, TypeOK
<1>1. rows' = [s \in DOMAIN rows |-> IF s \in claims[t].members
                                     THEN [rows[s] EXCEPT !.leaseUntil = now + Lease]
                                     ELSE rows[s]]
  BY DEF RenewLease, Settle, Updated
<1>2. \A row \in Row :
        LET new == [row EXCEPT !.leaseUntil = now + Lease]
        IN  /\ new \in Row /\ new.event = row.event
            /\ new.status = row.status /\ new.token = row.token
  <2>1. now + Lease \in Nat
    OBVIOUS
  <2>2. QED
    BY <2>1 DEF Row
<1>3. Typed(rows') /\ Shrunk(rows, rows') /\ TokensKept(rows, rows')
  BY <1>1, <1>2 DEF Typed, Shrunk, TokensKept
<1>4. QED
  BY <1>3, ShrunkStep DEF RenewLease, Settle

LEMMA MarkProcessedStep ==
  ASSUME IInv, NEW t \in DOMAIN claims, MarkProcessed(t)
  PROVE  IInv'
<1> USE QueueAssumption DEF IInv, TypeOK
<1> DEFINE Done(row) == [WithoutClaim(row) EXCEPT !.status = "processed", !.endedAt = now]
<1>1. rows' = [s \in DOMAIN rows |-> IF s \in claims[t].members
                                     THEN Done(rows[s]) ELSE rows[s]]
  BY DEF MarkProcessed, Settle, Updated
<1>2. \A row \in Row : /\ Done(row) \in Row /\ Done(row).event = row.event
                       /\ Done(row).status = "processed" /\ Done(row).token = 0
  BY DEF WithoutClaim, Row
<1>3. Typed(rows') /\ Shrunk(rows, rows') /\ TokensKept(rows, rows')
  <2> HIDE DEF Done
  <2>1. QED
    BY <1>1, <1>2 DEF Typed, Shrunk, TokensKept
<1>4. QED
  BY <1>3, ShrunkStep DEF MarkProcessed, Settle

LEMMA RescheduleStep ==
  ASSUME IInv, NEW t \in DOMAIN claims, NEW delay \in Delays, NEW failed \in BOOLEAN,
         Reschedule(t, delay, failed)
  PROVE  IInv'
<1> USE QueueAssumption DEF IInv, TypeOK
<1> DEFINE Again(row) ==
      [WithoutClaim(row) EXCEPT
          !.notBefore = now + delay,
          !.failures  = IF failed THEN @ + 1 ELSE @,
          !.deferrals = IF failed THEN @ ELSE @ + 1]
<1>1. rows' = [s \in DOMAIN rows |-> IF s \in claims[t].members
                                     THEN Again(rows[s]) ELSE rows[s]]
  BY DEF Reschedule, Settle, Updated
<1>2. \A row \in Row : /\ Again(row) \in Row /\ Again(row).event = row.event
                       /\ Again(row).status = row.status /\ Again(row).token = 0
  <2>1. now + delay \in Nat
    OBVIOUS
  <2>2. SUFFICES ASSUME NEW row \in Row
                 PROVE  /\ Again(row) \in Row /\ Again(row).event = row.event
                        /\ Again(row).status = row.status /\ Again(row).token = 0
    OBVIOUS
  <2>3. PICK w : w = WithoutClaim(row)
    OBVIOUS
  <2>4. w \in Row /\ w.event = row.event /\ w.status = row.status /\ w.token = 0
    BY <2>3, WithoutClaimFacts
  <2>5. Again(row) = [w EXCEPT !.notBefore = now + delay,
                               !.failures  = IF failed THEN w.failures + 1 ELSE w.failures,
                               !.deferrals = IF failed THEN w.deferrals ELSE w.deferrals + 1]
    BY <2>3
  <2>6. /\ w.failures \in Nat /\ w.failures + 1 \in Nat
        /\ w.deferrals \in Nat /\ w.deferrals + 1 \in Nat
    BY <2>4, CountsFacts
  <2> HIDE DEF Again
  <2>7. QED
    BY <2>1, <2>4, <2>5, <2>6 DEF Row
<1>3. Typed(rows') /\ Shrunk(rows, rows') /\ TokensKept(rows, rows')
  <2> HIDE DEF Again
  <2>1. QED
    BY <1>1, <1>2 DEF Typed, Shrunk, TokensKept
<1>4. QED
  BY <1>3, ShrunkStep DEF Reschedule, Settle

LEMMA DeadLetterStep ==
  ASSUME IInv, NEW t \in DOMAIN claims, DeadLetter(t)
  PROVE  IInv'
<1> USE QueueAssumption DEF IInv, TypeOK
<1> DEFINE Dead(row) ==
      [WithoutClaim(row) EXCEPT
          !.status = "dead_lettered", !.endedAt = now, !.failures = @ + 1]
<1>1. rows' = [s \in DOMAIN rows |-> IF s \in claims[t].members
                                     THEN Dead(rows[s]) ELSE rows[s]]
  BY DEF DeadLetter, Settle, Updated
<1>2. \A row \in Row : /\ Dead(row) \in Row /\ Dead(row).event = row.event
                       /\ Dead(row).status = "dead_lettered" /\ Dead(row).token = 0
  <2>1. SUFFICES ASSUME NEW row \in Row
                 PROVE  /\ Dead(row) \in Row /\ Dead(row).event = row.event
                        /\ Dead(row).status = "dead_lettered" /\ Dead(row).token = 0
    OBVIOUS
  <2>2. PICK w : w = WithoutClaim(row)
    OBVIOUS
  <2>3. w \in Row /\ w.event = row.event /\ w.token = 0
    BY <2>2, WithoutClaimFacts
  <2>4. Dead(row) = [w EXCEPT !.status = "dead_lettered", !.endedAt = now,
                              !.failures = w.failures + 1]
    BY <2>2
  <2>5. w.failures + 1 \in Nat /\ now \in Nat
    BY <2>3, CountsFacts
  <2> HIDE DEF Dead
  <2>6. QED
    BY <2>3, <2>4, <2>5 DEF Row
<1>3. Typed(rows') /\ Shrunk(rows, rows') /\ TokensKept(rows, rows')
  <2> HIDE DEF Dead
  <2>1. QED
    BY <1>1, <1>2 DEF Typed, Shrunk, TokensKept
<1>4. QED
  BY <1>3, ShrunkStep DEF DeadLetter, Settle

-------------------------------------------------------------------------------
(* The other steps                                                         *)

\* The set of a kept table's rows is finite.
LEMMA TableFinite ==
  ASSUME TypeOK
  PROVE  \A S \in SUBSET DOMAIN rows : IsFiniteSet(S)
<1>1. IsFiniteSet(1 .. sequence)
  <2>1. 1 \in Int /\ sequence \in Int
    BY DEF TypeOK
  <2>2. QED
    BY <2>1, FS_Interval
<1>2. DOMAIN rows \subseteq 1 .. sequence
  BY DEF TypeOK
<1>3. QED
  BY <1>1, <1>2, FS_Subset

LEMMA EnqueueStep ==
  ASSUME IInv, NEW e \in Events, Enqueue(e)
  PROVE  IInv'
<1> USE QueueAssumption
<1>1. PICK kept : kept = Retained(rows)
  OBVIOUS
<1>2. Typed(kept) /\ Shrunk(rows, kept) /\ TokensKept(rows, kept)
  BY <1>1, TypedRows, RetainedFacts DEF IInv
<1>3. PICK n : n = sequence + 1
  OBVIOUS
<1>4. /\ n \in Nat \ {0} /\ n \notin DOMAIN rows /\ n \notin DOMAIN kept
      /\ DOMAIN kept \subseteq DOMAIN rows
      /\ DOMAIN kept \union {n} \subseteq 1 .. n
  BY <1>2, <1>3 DEF IInv, TypeOK, Shrunk
<1>5. /\ Admitted(kept, e)
      /\ sequence' = n
      /\ rows' = [s \in DOMAIN kept \union {n} |->
                    IF s \in DOMAIN kept THEN kept[s] ELSE NewRow(e)]
      /\ UNCHANGED <<now, claims>>
  BY <1>1, <1>3 DEF Enqueue
<1>6. NewRow(e) \in Row /\ NewRow(e).event = e /\ NewRow(e).token = 0
  BY DEF NewRow, Row, IInv, TypeOK
<1>7. /\ DOMAIN rows' = DOMAIN kept \union {n}
      /\ \A s \in DOMAIN kept : rows'[s] = kept[s]
      /\ rows'[n] = NewRow(e)
  BY <1>4, <1>5
<1>8. \A s \in DOMAIN rows' : rows'[s] \in Row
  BY <1>2, <1>6, <1>7 DEF Typed
<1>9. \A S \in SUBSET DOMAIN kept : IsFiniteSet(S)
  BY <1>4, TableFinite DEF IInv
<1>10. /\ Live(kept) \subseteq DOMAIN kept
       /\ \A c \in Channels : OfChannel(kept, c) \subseteq DOMAIN kept
       /\ \A a \in Actors : OfActor(kept, a) \subseteq DOMAIN kept
  BY DEF Live, OfChannel, OfActor
<1>11. /\ Live(kept) \subseteq Live(rows)
       /\ \A c \in Channels : OfChannel(kept, c) \subseteq OfChannel(rows, c)
       /\ \A a \in Actors : OfActor(kept, a) \subseteq OfActor(rows, a)
  BY <1>2, ShrunkSets
<1>12. /\ Live(rows) \subseteq DOMAIN rows
       /\ \A c \in Channels : OfChannel(rows, c) \subseteq DOMAIN rows
       /\ \A a \in Actors : OfActor(rows, a) \subseteq DOMAIN rows
  BY DEF Live, OfChannel, OfActor
<1>13. Cardinality(Live(rows')) <= MaxPending
  <2>1. Live(rows') \subseteq Live(kept) \union {n}
    BY <1>7 DEF Live
  <2>2. Cardinality(Live(kept)) < MaxPending
    BY <1>5 DEF Admitted
  <2>3. QED
    BY <2>1, <2>2, <1>9, <1>10, OneMore
<1>14. ASSUME NEW c \in Channels PROVE Cardinality(OfChannel(rows', c)) <= MaxPerChannel
  <2>1. OfChannel(rows', c) \subseteq OfChannel(kept, c) \union {n}
    BY <1>7 DEF OfChannel, Live, Channel
  <2>2. CASE c = ChannelOf[e]
    <3>1. Cardinality(OfChannel(kept, c)) < MaxPerChannel
      BY <1>5, <2>2 DEF Admitted
    <3>2. QED
      BY <2>1, <3>1, <1>9, <1>10, OneMore
  <2>3. CASE c # ChannelOf[e]
    <3>1. n \notin OfChannel(rows', c)
      BY <1>6, <1>7, <2>3 DEF OfChannel, Live, Channel
    <3>2. OfChannel(rows', c) \subseteq OfChannel(rows, c)
      BY <2>1, <3>1, <1>11
    <3>3. IsFiniteSet(OfChannel(rows, c)) /\ Cardinality(OfChannel(rows, c)) <= MaxPerChannel
      BY <1>12, TableFinite DEF IInv, TypeOK
    <3>4. QED
      BY <3>2, <3>3, SmallerSet
  <2>4. QED
    BY <2>2, <2>3
<1>15. ASSUME NEW a \in Actors PROVE Cardinality(OfActor(rows', a)) <= MaxPerActor
  <2>1. OfActor(rows', a) \subseteq OfActor(kept, a) \union {n}
    BY <1>7 DEF OfActor, Live, Actor
  <2>2. CASE a = ActorOf[e]
    <3>1. Cardinality(OfActor(kept, a)) < MaxPerActor
      BY <1>5, <2>2 DEF Admitted
    <3>2. QED
      BY <2>1, <3>1, <1>9, <1>10, OneMore
  <2>3. CASE a # ActorOf[e]
    <3>1. n \notin OfActor(rows', a)
      BY <1>6, <1>7, <2>3 DEF OfActor, Live, Actor
    <3>2. OfActor(rows', a) \subseteq OfActor(rows, a)
      BY <2>1, <3>1, <1>11
    <3>3. IsFiniteSet(OfActor(rows, a)) /\ Cardinality(OfActor(rows, a)) <= MaxPerActor
      BY <1>12, TableFinite DEF IInv, TypeOK
    <3>4. QED
      BY <3>2, <3>3, SmallerSet
  <2>4. QED
    BY <2>2, <2>3
<1>16. TypeOK'
  BY <1>4, <1>5, <1>7, <1>8, <1>13, <1>14, <1>15 DEF IInv, TypeOK
<1>17. TokenExact'
  <2>1. SUFFICES ASSUME NEW t \in DOMAIN claims,
                        NEW s \in claims[t].members \intersect DOMAIN rows'
                 PROVE  rows'[s].token = 0 \/ rows'[s].token >= t
    BY <1>5 DEF TokenExact
  <2>2. CASE s \in DOMAIN kept
    BY <2>2, <1>2, <1>7 DEF TokensKept, IInv, TokenExact
  <2>3. CASE s = n
    BY <2>3, <1>6, <1>7
  <2>4. QED
    BY <2>2, <2>3, <1>7
<1>18. QED
  BY <1>16, <1>17 DEF IInv

LEMMA NextBatchStep ==
  ASSUME IInv, NextBatch
  PROVE  IInv'
<1> USE QueueAssumption
<1>1. PICK table : table = Unclaimed(rows)
  OBVIOUS
<1>2. /\ Typed(table) /\ DOMAIN table = DOMAIN rows
      /\ Shrunk(rows, table) /\ TokensKept(rows, table)
  BY <1>1, TypedRows, UnclaimedFacts DEF IInv
<1>3. PICK chosen : chosen = Selected(table)
  OBVIOUS
<1>4. PICK n : n = Len(claims) + 1
  OBVIOUS
<1>5. PICK batch : batch = BatchId(table, chosen)
  OBVIOUS
<1>6. PICK until : until = now + Lease
  OBVIOUS
<1>7. /\ chosen # {}
      /\ rows' = [s \in DOMAIN table |->
                    IF s \in chosen
                    THEN [table[s] EXCEPT !.batch = batch, !.token = n, !.leaseUntil = until]
                    ELSE table[s]]
      /\ claims' = Append(claims, [batch |-> batch, members |-> chosen])
      /\ UNCHANGED <<now, sequence>>
  BY <1>1, <1>3, <1>4, <1>5, <1>6 DEF NextBatch, Updated
<1>8. n \in Nat /\ until \in Nat /\ claims \in Seq(Claim)
  BY <1>4, <1>6 DEF IInv, TypeOK
<1>9. chosen \subseteq DOMAIN table /\ chosen \subseteq Nat
  BY <1>2, <1>3, SelectedFacts DEF Live, Typed
<1>10. batch \subseteq Nat
  <2>1. Min(chosen) \in chosen
    BY <1>7, <1>9, MinFacts
  <2>2. table[Min(chosen)].batch \subseteq Nat
    BY <2>1, <1>2, <1>9 DEF Typed, Row
  <2>3. QED
    BY <2>2, <1>5, <1>9 DEF BatchId
<1>11. \A row \in Row :
         LET new == [row EXCEPT !.batch = batch, !.token = n, !.leaseUntil = until]
         IN  /\ new \in Row /\ new.event = row.event
             /\ new.status = row.status /\ new.token = n
  BY <1>8, <1>10 DEF Row
<1>12. Typed(rows') /\ Shrunk(rows, rows')
  BY <1>2, <1>7, <1>11 DEF Typed, Shrunk
<1>13. PICK claim : claim = [batch |-> batch, members |-> chosen]
  OBVIOUS
<1>14. claim \in Claim /\ claim.members = chosen
  BY <1>9, <1>10, <1>13 DEF Claim
<1>15. claims' = Append(claims, claim)
  BY <1>7, <1>13
<1>16. /\ claims' \in Seq(Claim)
       /\ Len(claims) \in Nat /\ DOMAIN claims = 1 .. Len(claims)
       /\ DOMAIN claims' = 1 .. n
       /\ claims'[n] = claim
       /\ \A t \in DOMAIN claims : claims'[t] = claims[t]
  BY <1>4, <1>8, <1>14, <1>15
<1>17. TypeOK'
  <2>1. now' \in Nat
    BY <1>7 DEF IInv, TypeOK
  <2>2. QED
    BY <2>1, <1>7, <1>12, <1>16, ShrunkType DEF IInv
<1>18. TokenExact'
  <2>1. SUFFICES ASSUME NEW t \in DOMAIN claims',
                        NEW s \in claims'[t].members \intersect DOMAIN rows'
                 PROVE  rows'[s].token = 0 \/ rows'[s].token >= t
    BY DEF TokenExact
  <2>2. t \in 1 .. n /\ (t # n => t \in DOMAIN claims /\ claims'[t] = claims[t])
    BY <1>4, <1>16
  <2>3. claims'[n].members = chosen
    BY <1>14, <1>16
  <2>4. s \in DOMAIN rows /\ s \in DOMAIN table
    BY <1>2, <1>7
  <2>5. CASE s \in chosen
    <3>1. rows'[s].token = n
      BY <2>4, <2>5, <1>2, <1>7, <1>11 DEF Typed
    <3>2. QED
      BY <3>1, <2>2, <1>8
  <2>6. CASE s \notin chosen
    <3>1. t \in DOMAIN claims /\ s \in claims[t].members
      BY <2>2, <2>3, <2>6
    <3>2. rows[s].token = 0 \/ rows[s].token >= t
      BY <3>1, <2>4 DEF IInv, TokenExact
    <3>3. rows'[s].token \in {0, rows[s].token}
      BY <2>4, <2>6, <1>2, <1>7 DEF TokensKept
    <3>4. QED
      BY <3>2, <3>3
  <2>7. QED
    BY <2>5, <2>6
<1>19. QED
  BY <1>17, <1>18 DEF IInv

LEMMA InitFact ==
  ASSUME Init
  PROVE  IInv
<1> USE QueueAssumption
<1>1. DOMAIN rows = {} /\ claims = <<>>
  BY DEF Init
<1>2. /\ Live(rows) = {}
      /\ \A c \in Channels : OfChannel(rows, c) = {}
      /\ \A a \in Actors : OfActor(rows, a) = {}
  BY <1>1 DEF Live, OfChannel, OfActor
<1>3. Cardinality({}) = 0 /\ 0 <= MaxPending /\ 0 <= MaxPerChannel /\ 0 <= MaxPerActor
  BY FS_EmptySet
<1>4. TypeOK
  <2>1. now \in Nat /\ sequence \in Nat /\ claims \in Seq(Claim)
    BY <1>1 DEF Init
  <2>2. DOMAIN rows \subseteq 1 .. sequence /\ \A s \in DOMAIN rows : rows[s] \in Row
    BY <1>1
  <2>3. QED
    BY <2>1, <2>2, <1>2, <1>3 DEF TypeOK
<1>5. TokenExact
  BY <1>1 DEF TokenExact
<1>6. QED
  BY <1>4, <1>5 DEF IInv

LEMMA StepFact ==
  ASSUME IInv, [Next]_vars
  PROVE  IInv'
<1>1. CASE \E e \in Events : Enqueue(e)
  BY <1>1, EnqueueStep
<1>2. CASE Initialize
  BY <1>2, InitializeStep
<1>3. CASE NoBatch
  BY <1>3, NoBatchStep
<1>4. CASE NextBatch
  BY <1>4, NextBatchStep
<1>5. CASE \E t \in DOMAIN claims : RenewLease(t)
  BY <1>5, RenewLeaseStep
<1>6. CASE \E t \in DOMAIN claims : MarkProcessed(t)
  BY <1>6, MarkProcessedStep
<1>7. CASE \E t \in DOMAIN claims, delay \in Delays, failed \in BOOLEAN :
              Reschedule(t, delay, failed)
  BY <1>7, RescheduleStep
<1>8. CASE \E t \in DOMAIN claims : DeadLetter(t)
  BY <1>8, DeadLetterStep
<1>9. CASE Tick
  BY <1>9 DEF Tick, IInv, TypeOK, TokenExact
<1>10. CASE UNCHANGED vars
  BY <1>10 DEF vars, IInv, TypeOK, TokenExact
<1>11. QED
  BY <1>1, <1>2, <1>3, <1>4, <1>5, <1>6, <1>7, <1>8, <1>9, <1>10 DEF Next

\* The invariant holds throughout.
THEOREM InvariantHolds == Spec => []IInv
BY InitFact, StepFact, PTL DEF Spec

\* The types, and the limits of the queue, of each channel and of each actor,
\* hold whatever events arrive and whatever becomes of their claims.
THEOREM TypeCorrect == Spec => []TypeOK
<1>1. IInv => TypeOK
  BY DEF IInv
<1>2. QED
  BY <1>1, InvariantHolds, PTL

\* A claim that shares a row with a later one cannot renew, settle or give up
\* its batch any more, however long its worker was suspended.
THEOREM StaleClaimVoidHolds == Spec => []StaleClaimVoid
<1>1. IInv => StaleClaimVoid
  <2>1. SUFFICES ASSUME IInv, NEW t \in DOMAIN claims, NEW u \in DOMAIN claims, t < u,
                        NEW s \in claims[t].members \intersect claims[u].members,
                        BatchOwned(t)
                 PROVE  FALSE
    BY DEF StaleClaimVoid
  <2>2. s \in DOMAIN rows /\ rows[s].token = t
    BY <2>1 DEF BatchOwned, Members, Live
  <2>3. rows[s].token = 0 \/ rows[s].token >= u
    BY <2>1, <2>2 DEF IInv, TokenExact
  <2>4. t \in Nat \ {0} /\ u \in Nat
    BY <2>1 DEF IInv, TypeOK
  <2>5. QED
    BY <2>1, <2>2, <2>3, <2>4
<1>2. QED
  BY <1>1, InvariantHolds, PTL

-------------------------------------------------------------------------------
(* What all transactions keep of the table: the invariant behind the      *)
(* refinement and the timer.                                               *)

\* Two rows that a claim took together differ in nothing that it writes.
Alike(r, q) ==
    /\ r.batch = q.batch /\ r.token = q.token /\ r.leaseUntil = q.leaseUntil
    /\ r.failures = q.failures /\ r.deferrals = q.deferrals
    /\ r.status = q.status /\ r.endedAt = q.endedAt

\* A row without a batch is as it was written.
Unmarked(table) ==
    \A s \in DOMAIN table : table[s].batch = {} =>
        /\ table[s].status = "live" /\ table[s].token = 0
        /\ table[s].leaseUntil = 0 /\ table[s].endedAt = 0
        /\ table[s].failures = 0 /\ table[s].deferrals = 0

\* A batch lists its rows, which are alike.
Units(table) ==
    \A s \in DOMAIN table : table[s].batch # {} =>
        /\ s \in table[s].batch
        /\ \A u \in table[s].batch \intersect DOMAIN table : Alike(table[u], table[s])

\* Sequence numbers follow the clock; what is claimed was due.
Timely(table) ==
    /\ \A s \in DOMAIN table :
          /\ table[s].enqueuedAt <= now
          /\ table[s].token # 0 \/ table[s].batch = {} => table[s].notBefore <= now
    /\ \A s, u \in DOMAIN table : s <= u => table[s].enqueuedAt <= table[u].enqueuedAt

\* A channel has one live batch at most, and it is a beginning of its backlog.
OneBatch(table) ==
    \A s, u \in Live(table) :
        Channel(table, s) = Channel(table, u) /\ table[s].batch # {} =>
            \/ table[u].batch = table[s].batch
            \/ table[u].batch = {} /\ s < u

\* The live rows of a batch are of one channel.
OneChannel(table) ==
    \A s, u \in Live(table) :
        table[s].batch # {} /\ table[u].batch = table[s].batch
            => Channel(table, s) = Channel(table, u)

Sound(table) ==
    /\ Unmarked(table) /\ Units(table) /\ Timely(table)
    /\ OneBatch(table) /\ OneChannel(table)

\* A claim has a batch and members.
ClaimsOK == \A t \in DOMAIN claims : claims[t].batch # {} /\ claims[t].members # {}

\* A batch lists numbers that were given out.
Numbered == \A s \in DOMAIN rows : rows[s].batch \subseteq 1 .. sequence

BInv == IInv /\ Sound(rows) /\ ClaimsOK /\ Numbered

\* The live rows of a batch are all its rows.
LEMMA MembersFacts ==
  ASSUME NEW table, Typed(table), Sound(table), NEW s \in Live(table), table[s].batch # {}
  PROVE  /\ Members(table, table[s].batch) = {u \in DOMAIN table : table[u].batch = table[s].batch}
         /\ Members(table, table[s].batch) = table[s].batch \intersect DOMAIN table
         /\ \A u \in Members(table, table[s].batch) : Alike(table[u], table[s])
<1> DEFINE b == table[s].batch
<1>1. ASSUME NEW u \in DOMAIN table, table[u].batch = b
      PROVE  u \in b /\ u \in Live(table)
  <2>1. u \in b
    BY <1>1 DEF Sound, Units
  <2>2. Alike(table[u], table[s])
    BY <2>1 DEF Sound, Units, Live
  <2>3. QED
    BY <2>1, <2>2 DEF Live, Alike
<1>2. ASSUME NEW u \in b \intersect DOMAIN table
      PROVE  Alike(table[u], table[s])
  BY <1>2 DEF Sound, Units, Live
<1>3. QED
  BY <1>1, <1>2 DEF Members, Alike, Live

LEMMA SoundSubset ==
  ASSUME NEW old, NEW new, Typed(old), Sound(old), DOMAIN new \subseteq DOMAIN old,
         \A s \in DOMAIN new : new[s] = old[s]
  PROVE  Sound(new)
<1>1. Live(new) \subseteq Live(old)
  BY DEF Live
<1>2. Unmarked(new) /\ Timely(new)
  BY DEF Sound, Unmarked, Timely
<1>3. Units(new)
  BY DEF Sound, Units
<1>4. OneBatch(new)
  BY <1>1 DEF Sound, OneBatch, Channel, Live
<1>5. OneChannel(new)
  BY <1>1 DEF Sound, OneChannel, Channel, Live
<1>6. QED
  BY <1>2, <1>3, <1>4, <1>5 DEF Sound

\* One transaction changes the rows of whole batches, alike.
LEMMA SoundGroups ==
  ASSUME NEW old, NEW new, Typed(old), Sound(old), DOMAIN new = DOMAIN old,
         \A s \in DOMAIN new :
             /\ new[s].event = old[s].event /\ new[s].batch = old[s].batch
             /\ new[s].enqueuedAt = old[s].enqueuedAt
             /\ new[s].status = "live" => old[s].status = "live"
             /\ old[s].batch = {} => new[s] = old[s]
             /\ new[s].token # 0 => new[s].notBefore <= now,
         \A s, u \in DOMAIN new :
             old[s].batch # {} /\ Alike(old[u], old[s]) => Alike(new[u], new[s])
  PROVE  Sound(new)
<1>1. Live(new) \subseteq Live(old)
  BY DEF Live
<1>2. Unmarked(new)
  BY DEF Sound, Unmarked
<1>3. Timely(new)
  BY DEF Sound, Timely
<1>4. Units(new)
  BY DEF Sound, Units
<1>5. OneBatch(new)
  BY <1>1 DEF Sound, OneBatch, Channel, Live
<1>6. OneChannel(new)
  BY <1>1 DEF Sound, OneChannel, Channel, Live
<1>7. QED
  BY <1>2, <1>3, <1>4, <1>5, <1>6 DEF Sound

LEMMA RetainedSound ==
  ASSUME NEW table, Typed(table), Sound(table)
  PROVE  Sound(Retained(table))
BY SoundSubset DEF Retained

LEMMA UnclaimedRows ==
  ASSUME NEW table, Typed(table)
  PROVE  /\ DOMAIN Unclaimed(table) = DOMAIN table
         /\ \A s \in DOMAIN table :
               Unclaimed(table)[s] = IF Lapsed(table[s]) THEN WithoutClaim(table[s]) ELSE table[s]
BY DEF Unclaimed, Updated

LEMMA UnclaimedFields ==
  ASSUME NEW table, Typed(table), NEW s \in DOMAIN table
  PROVE  /\ Unclaimed(table)[s].event = table[s].event
         /\ Unclaimed(table)[s].batch = table[s].batch
         /\ Unclaimed(table)[s].enqueuedAt = table[s].enqueuedAt
         /\ Unclaimed(table)[s].notBefore = table[s].notBefore
         /\ Unclaimed(table)[s].status = table[s].status
         /\ Unclaimed(table)[s].failures = table[s].failures
         /\ Unclaimed(table)[s].deferrals = table[s].deferrals
         /\ Unclaimed(table)[s].endedAt = table[s].endedAt
         /\ Unclaimed(table)[s].token = IF Lapsed(table[s]) THEN 0 ELSE table[s].token
         /\ Unclaimed(table)[s].leaseUntil = IF Lapsed(table[s]) THEN 0 ELSE table[s].leaseUntil
<1>1. table[s] \in Row
  BY DEF Typed
<1>2. Unclaimed(table)[s] = IF Lapsed(table[s]) THEN WithoutClaim(table[s]) ELSE table[s]
  BY UnclaimedRows
<1>3. QED
  BY <1>1, <1>2 DEF WithoutClaim, Row

LEMMA UnclaimedSound ==
  ASSUME NEW table, Typed(table), Sound(table)
  PROVE  Sound(Unclaimed(table))
<1> DEFINE new == Unclaimed(table)
<1>1. DOMAIN new = DOMAIN table
  BY UnclaimedRows
<1>2. ASSUME NEW s \in DOMAIN new
      PROVE  /\ new[s].event = table[s].event /\ new[s].batch = table[s].batch
             /\ new[s].enqueuedAt = table[s].enqueuedAt
             /\ new[s].status = "live" => table[s].status = "live"
             /\ table[s].batch = {} => new[s] = table[s]
             /\ new[s].token # 0 => new[s].notBefore <= now
  <2>1. table[s].batch = {} => ~Lapsed(table[s])
    BY <1>1 DEF Sound, Unmarked, Lapsed
  <2>2. new[s].token # 0 => table[s].token # 0
    BY <1>1, UnclaimedFields
  <2>3. QED
    BY <1>1, <2>1, <2>2, UnclaimedFields, UnclaimedRows DEF Sound, Timely
<1>3. ASSUME NEW s \in DOMAIN new, NEW u \in DOMAIN new, Alike(table[u], table[s])
      PROVE  Alike(new[u], new[s])
  <2>1. Lapsed(table[u]) <=> Lapsed(table[s])
    BY <1>3 DEF Lapsed, Alike
  <2>2. QED
    BY <1>1, <1>3, <2>1, UnclaimedFields DEF Alike
<1> HIDE DEF new
<1>4. Sound(new)
  BY <1>1, <1>2, <1>3, SoundGroups
<1>5. QED
  BY <1>4 DEF new

\* What a claim that is good has: all live rows of its batch.
LEMMA OwnedFacts ==
  ASSUME BInv, NEW t \in DOMAIN claims, BatchOwned(t)
  PROVE  /\ claims[t].batch # {} /\ claims[t].members # {}
         /\ claims[t].members = Members(rows, claims[t].batch)
         /\ claims[t].members = {u \in DOMAIN rows : rows[u].batch = claims[t].batch}
         /\ claims[t].members = claims[t].batch \intersect DOMAIN rows
         /\ \A s \in claims[t].members :
               /\ rows[s].status = "live" /\ rows[s].token = t /\ rows[s].leaseUntil > now
               /\ \A u \in claims[t].members : Alike(rows[u], rows[s])
<1> DEFINE b == claims[t].batch
           m == claims[t].members
<1>1. b # {} /\ m # {}
  BY DEF BInv, ClaimsOK
<1>2. Typed(rows) /\ Sound(rows)
  BY TypedRows DEF BInv, IInv
<1>3. Members(rows, b) \subseteq DOMAIN rows
  BY DEF Members, Live
<1>4. IsFiniteSet(Members(rows, b))
  BY <1>3, TableFinite DEF BInv, IInv
<1>5. m \subseteq Members(rows, b) /\ Cardinality(Members(rows, b)) = Cardinality(m)
  BY DEF BatchOwned
<1>6. m = Members(rows, b)
  BY <1>4, <1>5, FS_Subset
<1>7. PICK s \in m : TRUE
  BY <1>1
<1>8. s \in Live(rows) /\ rows[s].batch = b
  BY <1>6, <1>7 DEF Members
<1>9. /\ m = {u \in DOMAIN rows : rows[u].batch = b}
      /\ m = b \intersect DOMAIN rows
      /\ \A u \in m : Alike(rows[u], rows[s])
  BY <1>1, <1>2, <1>6, <1>8, MembersFacts
<1>10. \A u, v \in m : Alike(rows[u], rows[v])
  BY <1>9 DEF Alike
<1>11. \A u \in m : rows[u].status = "live" /\ rows[u].token = t /\ rows[u].leaseUntil > now
  BY <1>6 DEF BatchOwned, Members, Live
<1>12. QED
  BY <1>1, <1>6, <1>9, <1>10, <1>11

\* A claim that is settled changes the rows of its batch, and alike.
LEMMA SettledSound ==
  ASSUME BInv, NEW t \in DOMAIN claims, BatchOwned(t),
         DOMAIN rows' = DOMAIN rows, UNCHANGED now,
         \A s \in DOMAIN rows \ claims[t].members : rows'[s] = rows[s],
         \A s \in claims[t].members :
             /\ rows'[s].event = rows[s].event /\ rows'[s].batch = rows[s].batch
             /\ rows'[s].enqueuedAt = rows[s].enqueuedAt
             /\ rows'[s].token # 0 =>
                   rows'[s].token = rows[s].token /\ rows'[s].notBefore = rows[s].notBefore,
         \A s, u \in claims[t].members : Alike(rows'[u], rows'[s])
  PROVE  Sound(rows)'
<1> DEFINE m == claims[t].members
           new == rows'
<1>1. /\ m = {u \in DOMAIN rows : rows[u].batch = claims[t].batch}
      /\ claims[t].batch # {}
      /\ \A s \in m : rows[s].status = "live" /\ rows[s].token = t
  BY OwnedFacts
<1>2. t # 0
  BY DEF BInv, IInv, TypeOK
<1>3. Typed(rows) /\ Sound(rows)
  BY TypedRows DEF BInv, IInv
<1>4. ASSUME NEW s \in DOMAIN new
      PROVE  /\ new[s].event = rows[s].event /\ new[s].batch = rows[s].batch
             /\ new[s].enqueuedAt = rows[s].enqueuedAt
             /\ new[s].status = "live" => rows[s].status = "live"
             /\ rows[s].batch = {} => new[s] = rows[s]
             /\ new[s].token # 0 => new[s].notBefore <= now
  <2>1. CASE s \in m
    <3>1. rows[s].notBefore <= now
      BY <1>1, <1>2, <1>3, <2>1 DEF Sound, Timely
    <3>2. QED
      BY <1>1, <2>1, <3>1
  <2>2. CASE s \notin m
    BY <1>3, <2>2 DEF Sound, Timely
  <2>3. QED
    BY <2>1, <2>2
<1>5. ASSUME NEW s \in DOMAIN new, NEW u \in DOMAIN new, Alike(rows[u], rows[s])
      PROVE  Alike(new[u], new[s])
  <2>1. s \in m <=> u \in m
    BY <1>1, <1>5 DEF Alike
  <2>2. QED
    BY <1>5, <2>1
<1> HIDE DEF new
<1>6. Sound(new)
  BY <1>3, <1>4, <1>5, SoundGroups DEF new
<1>7. QED
  BY <1>6 DEF new, Sound, Unmarked, Units, Timely, OneBatch, OneChannel, Channel, Live

LEMMA OneBatchFacts ==
  ASSUME NEW table, Sound(table), NEW s \in Live(table), NEW u \in Live(table),
         Channel(table, s) = Channel(table, u), table[s].batch # {}
  PROVE  table[u].batch = table[s].batch \/ (table[u].batch = {} /\ s < u)
BY DEF Sound, OneBatch

\* A row that is written, numbered above all others.
LEMMA SoundAdded ==
  ASSUME NEW old, NEW new, NEW n \in Nat, now \in Nat, Typed(old), Sound(old),
         \A s \in DOMAIN old : s < n /\ n \notin old[s].batch,
         DOMAIN new = DOMAIN old \union {n},
         \A s \in DOMAIN old : new[s] = old[s],
         new[n].batch = {}, new[n].status = "live", new[n].token = 0,
         new[n].leaseUntil = 0, new[n].endedAt = 0,
         new[n].failures = 0, new[n].deferrals = 0,
         new[n].enqueuedAt = now, new[n].notBefore = now
  PROVE  Sound(new)
<1>1. \A s \in DOMAIN old : s \in Nat /\ s < n /\ ~(n <= s) /\ old[s].enqueuedAt <= now
  BY DEF Typed, Sound, Timely
<1>2. Live(new) = Live(old) \union {n}
  BY <1>1 DEF Live
<1>3. Unmarked(new)
  BY DEF Sound, Unmarked
<1>4. Units(new)
  BY DEF Sound, Units
<1>5. Timely(new)
  BY <1>1 DEF Sound, Timely
<1>6. OneBatch(new)
  <2>1. SUFFICES ASSUME NEW s \in Live(new), NEW u \in Live(new),
                        Channel(new, s) = Channel(new, u), new[s].batch # {}
                 PROVE  new[u].batch = new[s].batch \/ (new[u].batch = {} /\ s < u)
    BY DEF OneBatch
  <2>2. s \in Live(old)
    BY <1>2, <2>1
  <2>3. CASE u = n
    BY <1>1, <2>2, <2>3 DEF Live
  <2>4. CASE u \in Live(old)
    <3>1. new[s] = old[s] /\ new[u] = old[u]
      BY <2>2, <2>4 DEF Live
    <3>2. Channel(old, s) = Channel(old, u) /\ old[s].batch # {}
      BY <2>1, <3>1 DEF Channel
    <3>3. old[u].batch = old[s].batch \/ (old[u].batch = {} /\ s < u)
      BY <2>2, <2>4, <3>2, OneBatchFacts
    <3>4. QED
      BY <3>1, <3>3
  <2>5. QED
    BY <1>2, <2>3, <2>4
<1>7. OneChannel(new)
  BY <1>1, <1>2 DEF Sound, OneChannel, Channel, Live
<1>8. QED
  BY <1>3, <1>4, <1>5, <1>6, <1>7 DEF Sound

\* What a ripe channel hands out is the beginning of what waits there.
LEMMA CandidatesFacts ==
  ASSUME NEW table, Typed(table), Sound(table), \A S \in SUBSET DOMAIN table : IsFiniteSet(S),
         NEW c \in RipeChannels(table)
  PROVE  /\ Candidates(table, c) # {} /\ Candidates(table, c) \subseteq Waiting(table, c)
         /\ \A s \in Candidates(table, c), u \in Waiting(table, c) \ Candidates(table, c) : s < u
<1> USE QueueAssumption
<1> DEFINE m == Min(Waiting(table, c))
<1>1. /\ Waiting(table, c) # {} /\ Waiting(table, c) \subseteq Live(table)
      /\ Live(table) \subseteq DOMAIN table /\ DOMAIN table \subseteq Nat
  BY DEF RipeChannels, Waiting, Live, Typed
<1>2. m \in Waiting(table, c) /\ \A u \in Waiting(table, c) : m <= u
  BY <1>1, MinFacts
<1>3. \A s \in DOMAIN table : table[s].enqueuedAt \in Nat
  BY DEF Typed, Row
<1>4. m \in Window(table, c)
  BY <1>1, <1>2, <1>3 DEF Window, Deadline
<1>5. {u \in Window(table, c) : u < m} = {}
  BY <1>1, <1>2 DEF Window
<1>6. Cardinality({u \in Window(table, c) : u < m}) < CandidateLimit
  BY <1>5, FS_EmptySet
<1>7. m \in Candidates(table, c)
  BY <1>4, <1>6 DEF Candidates
<1>8. Candidates(table, c) \subseteq Window(table, c) /\ Window(table, c) \subseteq Waiting(table, c)
  BY DEF Candidates, Window
<1>9. ASSUME NEW s \in Candidates(table, c), NEW u \in Waiting(table, c), u <= s
      PROVE  u \in Candidates(table, c)
  <2> DEFINE Below(x) == {v \in Window(table, c) : v < x}
  <2>1. s \in Window(table, c) /\ Cardinality(Below(s)) < CandidateLimit
    BY DEF Candidates
  <2>2. table[u].enqueuedAt <= table[s].enqueuedAt
    BY <1>1, <1>8, <1>9 DEF Sound, Timely
  <2>3. table[s].enqueuedAt <= Deadline(table, c) /\ Deadline(table, c) \in Nat
    BY <2>1, <1>1, <1>2, <1>3 DEF Window, Deadline
  <2>4. u \in Window(table, c)
    BY <1>1, <1>3, <1>8, <2>2, <2>3 DEF Window
  <2>5. Below(u) \subseteq Below(s)
    <3>1. u \in Nat /\ s \in Nat /\ Window(table, c) \subseteq Nat
      BY <1>1, <1>8
    <3>2. QED
      BY <3>1, <1>9
  <2>6. Below(s) \subseteq DOMAIN table
    BY <1>1, <1>8
  <2> HIDE DEF Below
  <2>7. IsFiniteSet(Below(s)) /\ IsFiniteSet(Below(u)) /\ Cardinality(Below(u)) <= Cardinality(Below(s))
    BY <2>5, <2>6, FS_Subset
  <2>8. Cardinality(Below(u)) \in Nat /\ Cardinality(Below(s)) \in Nat
    BY <2>7, FS_CardinalityType
  <2>9. Cardinality(Below(u)) < CandidateLimit
    BY <2>1, <2>7, <2>8
  <2>10. QED
    BY <2>4, <2>9 DEF Candidates, Below
<1>10. \A s, u \in Nat : u <= s \/ s < u
  OBVIOUS
<1>11. QED
  BY <1>1, <1>7, <1>8, <1>9, <1>10

\* What a claim takes: a batch that waits, or the beginning of a ripe channel.
LEMMA SelectedShape ==
  ASSUME NEW table, Typed(table), Sound(table), \A S \in SUBSET DOMAIN table : IsFiniteSet(S)
  PROVE  \/ \E b \in RetryBatches(table) : Selected(table) = Members(table, b)
         \/ /\ RetryBatches(table) = {}
            /\ \E c \in RipeChannels(table) : Selected(table) = Candidates(table, c)
         \/ RetryBatches(table) = {} /\ RipeChannels(table) = {} /\ Selected(table) = {}
<1>1. CASE RetryBatches(table) # {}
  <2> DEFINE sets == {Members(table, b) : b \in RetryBatches(table)}
  <2>1. sets # {} /\ \A x \in sets : x \subseteq Nat /\ x # {}
    <3>1. \A b \in RetryBatches(table) : Members(table, b) \subseteq Nat /\ Members(table, b) # {}
      BY DEF RetryBatches, Batches, Members, Live, Typed
    <3>2. QED
      BY <1>1, <3>1
  <2>2. Earliest(sets) \in sets
    <3> HIDE DEF sets
    <3>1. QED
      BY <2>1, EarliestFacts
  <2>3. Selected(table) = Earliest(sets)
    BY <1>1 DEF Selected
  <2>4. QED
    BY <2>2, <2>3
<1>2. CASE RetryBatches(table) = {} /\ RipeChannels(table) # {}
  <2> DEFINE sets == {Candidates(table, c) : c \in RipeChannels(table)}
  <2>1. sets # {} /\ \A x \in sets : x \subseteq Nat /\ x # {}
    BY <1>2, CandidatesFacts DEF Waiting, Live, Typed
  <2>2. Earliest(sets) \in sets
    <3> HIDE DEF sets
    <3>1. QED
      BY <2>1, EarliestFacts
  <2>3. Selected(table) = Earliest(sets)
    BY <1>2 DEF Selected
  <2>4. QED
    BY <1>2, <2>2, <2>3
<1>3. QED
  BY <1>1, <1>2 DEF Selected

\* The table after a claim of some rows.
Marked(table, chosen, batch, n, until) ==
    [s \in DOMAIN table |->
        IF s \in chosen
        THEN [table[s] EXCEPT !.batch = batch, !.token = n, !.leaseUntil = until]
        ELSE table[s]]

\* The rows of a batch that waits for its retry are taken together.
LEMMA RetakenSound ==
  ASSUME NEW table, Typed(table), Sound(table), NEW b \in RetryBatches(table),
         NEW n \in Nat, NEW until \in Nat, NEW new,
         new = Marked(table, Members(table, b), b, n, until)
  PROVE  Sound(new)
<1>0. new = [s \in DOMAIN table |->
              IF s \in Members(table, b)
              THEN [table[s] EXCEPT !.batch = b, !.token = n, !.leaseUntil = until]
              ELSE table[s]]
  BY DEF Marked
<1> DEFINE m == Members(table, b)
<1>1. b # {} /\ \A s \in m : table[s].batch = b /\ table[s].status = "live" /\ table[s].notBefore <= now
  BY DEF RetryBatches, Batches, Members, Live
<1>2. DOMAIN new = DOMAIN table /\ \A s \in DOMAIN table : table[s] \in Row
  BY <1>0 DEF Typed
<1>3. ASSUME NEW s \in DOMAIN table, s \in m
      PROVE  /\ new[s].event = table[s].event /\ new[s].batch = b
             /\ new[s].enqueuedAt = table[s].enqueuedAt /\ new[s].notBefore = table[s].notBefore
             /\ new[s].status = table[s].status /\ new[s].endedAt = table[s].endedAt
             /\ new[s].failures = table[s].failures /\ new[s].deferrals = table[s].deferrals
             /\ new[s].token = n /\ new[s].leaseUntil = until
  BY <1>0, <1>2, <1>3 DEF Row
<1>4. ASSUME NEW s \in DOMAIN table, s \notin m
      PROVE  new[s] = table[s]
  BY <1>0, <1>4
<1>5. ASSUME NEW s \in DOMAIN new
      PROVE  /\ new[s].event = table[s].event /\ new[s].batch = table[s].batch
             /\ new[s].enqueuedAt = table[s].enqueuedAt
             /\ new[s].status = "live" => table[s].status = "live"
             /\ table[s].batch = {} => new[s] = table[s]
             /\ new[s].token # 0 => new[s].notBefore <= now
  <2>1. CASE s \in m
    BY <1>1, <1>2, <1>3, <2>1
  <2>2. CASE s \notin m
    BY <1>2, <1>4, <2>2 DEF Sound, Timely
  <2>3. QED
    BY <2>1, <2>2
<1>6. ASSUME NEW s \in DOMAIN new, NEW u \in DOMAIN new, Alike(table[u], table[s])
      PROVE  Alike(new[u], new[s])
  <2>1. s \in m <=> u \in m
    BY <1>2, <1>6 DEF Alike, Members, Live
  <2>2. CASE s \in m
    BY <1>2, <1>3, <1>6, <2>1, <2>2 DEF Alike
  <2>3. CASE s \notin m
    BY <1>2, <1>4, <1>6, <2>1, <2>3
  <2>4. QED
    BY <2>2, <2>3
<1>7. QED
  BY <1>2, <1>5, <1>6, SoundGroups

\* A channel without a batch gets one of the first rows that wait in it.
LEMMA FormedSound ==
  ASSUME NEW table, Typed(table), Sound(table), \A S \in SUBSET DOMAIN table : IsFiniteSet(S),
         NEW c \in RipeChannels(table), NEW chosen, chosen = Candidates(table, c),
         NEW n \in Nat, NEW until \in Nat, NEW new,
         new = Marked(table, chosen, chosen, n, until)
  PROVE  Sound(new)
<1>0. new = [s \in DOMAIN table |->
              IF s \in chosen
              THEN [table[s] EXCEPT !.batch = chosen, !.token = n, !.leaseUntil = until]
              ELSE table[s]]
  BY DEF Marked
<1>1. /\ chosen # {} /\ chosen \subseteq Waiting(table, c)
      /\ \A s \in chosen, u \in Waiting(table, c) \ chosen : s < u
      /\ c \notin Blocked(table)
  BY CandidatesFacts DEF RipeChannels
<1>2. DOMAIN new = DOMAIN table /\ \A s \in DOMAIN table : table[s] \in Row
  BY <1>0 DEF Typed
<1>3. ASSUME NEW s \in chosen
      PROVE  /\ s \in DOMAIN table /\ s \in Live(table)
             /\ table[s].batch = {} /\ Channel(table, s) = c
             /\ table[s].endedAt = 0 /\ table[s].failures = 0 /\ table[s].deferrals = 0
             /\ table[s].status = "live" /\ table[s].notBefore <= now
  BY <1>1 DEF Waiting, Live, Sound, Unmarked, Timely
<1>4. ASSUME NEW s \in chosen
      PROVE  /\ new[s].event = table[s].event /\ new[s].batch = chosen
             /\ new[s].enqueuedAt = table[s].enqueuedAt /\ new[s].notBefore = table[s].notBefore
             /\ new[s].status = table[s].status /\ new[s].endedAt = table[s].endedAt
             /\ new[s].failures = table[s].failures /\ new[s].deferrals = table[s].deferrals
             /\ new[s].token = n /\ new[s].leaseUntil = until
  <2>1. s \in DOMAIN table
    BY <1>3
  <2>2. table[s] \in Row
    BY <1>2, <2>1
  <2>3. new[s] = [table[s] EXCEPT !.batch = chosen, !.token = n, !.leaseUntil = until]
    BY <1>0, <1>4, <2>1
  <2>4. QED
    BY <2>2, <2>3 DEF Row
<1>5. ASSUME NEW s \in DOMAIN table, s \notin chosen
      PROVE  new[s] = table[s]
  BY <1>0, <1>5
<1>6. \A s \in DOMAIN table : /\ new[s].event = table[s].event
                              /\ new[s].enqueuedAt = table[s].enqueuedAt
                              /\ new[s].notBefore = table[s].notBefore
                              /\ new[s].status = table[s].status
  BY <1>4, <1>5
<1> HIDE DEF Sound
<1>7. Live(new) = Live(table) /\ \A s \in Live(table) : Channel(new, s) = Channel(table, s)
  BY <1>2, <1>6 DEF Live, Channel
<1>8. ASSUME NEW s \in DOMAIN table, NEW u \in DOMAIN table, table[s].batch # {},
             u \in table[s].batch
      PROVE  Alike(table[u], table[s])
  BY <1>8 DEF Sound, Units
<1>9. Unmarked(new)
  BY <1>1, <1>2, <1>4, <1>5 DEF Sound, Unmarked
<1>10. Units(new)
  <2>1. SUFFICES ASSUME NEW s \in DOMAIN table, new[s].batch # {}
                 PROVE  /\ s \in new[s].batch
                        /\ \A u \in new[s].batch \intersect DOMAIN table : Alike(new[u], new[s])
    BY <1>2 DEF Units
  <2>2. CASE s \in chosen
    <3>1. new[s].batch = chosen
      BY <1>4, <2>2
    <3>2. ASSUME NEW u \in chosen
          PROVE  Alike(new[u], new[s])
      <4>1. /\ new[u].batch = chosen /\ new[u].token = n /\ new[u].leaseUntil = until
            /\ new[u].status = "live" /\ new[u].endedAt = 0
            /\ new[u].failures = 0 /\ new[u].deferrals = 0
        BY <1>3, <1>4, <3>2
      <4>2. /\ new[s].batch = chosen /\ new[s].token = n /\ new[s].leaseUntil = until
            /\ new[s].status = "live" /\ new[s].endedAt = 0
            /\ new[s].failures = 0 /\ new[s].deferrals = 0
        BY <1>3, <1>4, <2>2
      <4>3. QED
        BY <4>1, <4>2 DEF Alike
    <3>3. QED
      BY <2>2, <3>1, <3>2
  <2>3. CASE s \notin chosen
    <3>1. new[s] = table[s] /\ s \in table[s].batch
      BY <1>5, <2>1, <2>3 DEF Sound, Units
    <3>2. ASSUME NEW u \in table[s].batch \intersect DOMAIN table
          PROVE  Alike(new[u], new[s])
      <4>1. Alike(table[u], table[s])
        BY <1>8, <2>1, <3>1, <3>2
      <4>2. u \notin chosen
        BY <1>3, <2>1, <3>1, <4>1 DEF Alike
      <4>3. QED
        BY <1>5, <3>1, <4>1, <4>2
    <3>3. QED
      BY <3>1, <3>2
  <2>4. QED
    BY <2>2, <2>3
<1>11. Timely(new)
  <2>1. ASSUME NEW s \in DOMAIN table
        PROVE  /\ new[s].enqueuedAt <= now
               /\ new[s].token # 0 \/ new[s].batch = {} => new[s].notBefore <= now
    <3>1. table[s].enqueuedAt <= now
      BY DEF Sound, Timely
    <3>2. table[s].token # 0 \/ table[s].batch = {} => table[s].notBefore <= now
      BY DEF Sound, Timely
    <3>3. QED
      BY <1>3, <1>5, <1>6, <3>1, <3>2
  <2>2. \A s, u \in DOMAIN table : s <= u => table[s].enqueuedAt <= table[u].enqueuedAt
    BY DEF Sound, Timely
  <2>3. \A s, u \in DOMAIN table : s <= u => new[s].enqueuedAt <= new[u].enqueuedAt
    BY <1>6, <2>2
  <2>4. QED
    BY <1>2, <2>1, <2>3 DEF Timely
<1>12. OneBatch(new)
  <2>1. SUFFICES ASSUME NEW s \in Live(table), NEW u \in Live(table),
                        Channel(table, s) = Channel(table, u), new[s].batch # {}
                 PROVE  new[u].batch = new[s].batch \/ (new[u].batch = {} /\ s < u)
    BY <1>7 DEF OneBatch
  <2>2. s \in DOMAIN table /\ u \in DOMAIN table
    BY DEF Live
  <2>3. CASE s \in chosen /\ u \in chosen
    BY <1>4, <2>3
  <2>4. CASE s \in chosen /\ u \notin chosen
    <3>1. Channel(table, u) = c
      BY <1>3, <2>1, <2>4
    <3>2. table[u].batch = {}
      BY <1>1, <3>1 DEF Blocked
    <3>3. table[u].token = 0
      BY <2>2, <3>2 DEF Sound, Unmarked
    <3>4. u \in Waiting(table, c)
      BY <3>1, <3>2, <3>3 DEF Waiting
    <3>5. s < u
      BY <1>1, <2>4, <3>4
    <3>6. QED
      BY <1>5, <2>2, <2>4, <3>2, <3>5
  <2>5. CASE s \notin chosen
    <3>1. new[s] = table[s]
      BY <1>5, <2>2, <2>5
    <3>2. Channel(table, s) # c
      BY <1>1, <2>1, <3>1 DEF Blocked
    <3>3. new[u] = table[u]
      BY <1>3, <1>5, <2>1, <2>2, <3>2
    <3>4. QED
      BY <2>1, <3>1, <3>3, OneBatchFacts
  <2>6. QED
    BY <2>3, <2>4, <2>5
<1>13. OneChannel(new)
  <2>1. SUFFICES ASSUME NEW s \in Live(new), NEW u \in Live(new),
                        new[s].batch # {}, new[u].batch = new[s].batch
                 PROVE  Channel(new, s) = Channel(new, u)
    BY DEF OneChannel
  <2>2. s \in DOMAIN table /\ u \in DOMAIN table
    BY <1>7, <2>1 DEF Live
  <2>3. \A v \in DOMAIN table : table[v].batch = chosen => v \in chosen
    <3>1. \A v \in DOMAIN table : table[v].batch # {} => v \in table[v].batch
      BY DEF Sound, Units
    <3>2. QED
      BY <1>1, <3>1
  <2>4. CASE s \in chosen
    <3>1. new[u].batch = chosen
      BY <1>4, <2>1, <2>4
    <3>2. u \in chosen
      BY <1>5, <2>2, <2>3, <3>1
    <3>3. Channel(table, s) = Channel(table, u)
      BY <1>3, <2>4, <3>2
    <3>4. QED
      BY <1>7, <2>1, <3>3
  <2>5. CASE s \notin chosen
    <3>1. new[s] = table[s]
      BY <1>5, <2>2, <2>5
    <3>2. u \notin chosen
      BY <1>4, <2>1, <2>2, <2>3, <2>5, <3>1
    <3>3. new[u] = table[u]
      BY <1>5, <2>2, <3>2
    <3>4. OneChannel(table) /\ table[s].batch # {} /\ table[u].batch = table[s].batch
      BY <2>1, <3>1, <3>3 DEF Sound
    <3>5. Channel(table, s) = Channel(table, u)
      BY <1>7, <2>1, <3>4 DEF OneChannel
    <3>6. QED
      BY <1>7, <2>1, <3>5
  <2>6. QED
    BY <2>4, <2>5
<1>14. QED
  BY <1>9, <1>10, <1>11, <1>12, <1>13 DEF Sound

LEMMA SoundPrimed ==
  ASSUME Sound(rows'), UNCHANGED now
  PROVE  Sound(rows)'
BY DEF Sound, Unmarked, Units, Timely, OneBatch, OneChannel, Channel, Live

LEMMA BInvTyped ==
  ASSUME BInv
  PROVE  /\ IInv /\ Typed(rows) /\ Sound(rows) /\ ClaimsOK /\ Numbered
         /\ \A S \in SUBSET DOMAIN rows : IsFiniteSet(S)
         /\ now \in Nat /\ sequence \in Nat /\ DOMAIN rows \subseteq 1 .. sequence
         /\ claims \in Seq(Claim)
BY TypedRows, TableFinite DEF BInv, IInv, TypeOK

LEMMA EnqueueSound ==
  ASSUME BInv, NEW e \in Events, Enqueue(e)
  PROVE  Sound(rows)' /\ ClaimsOK' /\ Numbered'
<1> DEFINE kept == Retained(rows)
           n == sequence + 1
<1>1. Typed(rows) /\ Sound(rows) /\ now \in Nat /\ n \in Nat
  BY BInvTyped
<1>2. Typed(kept) /\ Sound(kept) /\ Shrunk(rows, kept)
  BY <1>1, RetainedFacts, RetainedSound
<1>3. \A s \in DOMAIN kept : s \in DOMAIN rows /\ kept[s] = rows[s]
  BY DEF Retained
<1>4. \A s \in DOMAIN kept : /\ s < n /\ s # n /\ n \notin kept[s].batch
                             /\ kept[s].batch \subseteq 1 .. sequence
  BY <1>3, BInvTyped DEF Numbered
<1>5. rows' = [s \in DOMAIN kept \union {n} |-> IF s \in DOMAIN kept THEN kept[s] ELSE NewRow(e)]
  BY DEF Enqueue
<1> HIDE DEF kept
<1>6. /\ DOMAIN rows' = DOMAIN kept \union {n}
      /\ \A s \in DOMAIN kept : rows'[s] = kept[s]
      /\ rows'[n] = NewRow(e)
  BY <1>4, <1>5
<1>7. /\ rows'[n].batch = {} /\ rows'[n].status = "live" /\ rows'[n].token = 0
      /\ rows'[n].leaseUntil = 0 /\ rows'[n].endedAt = 0
      /\ rows'[n].failures = 0 /\ rows'[n].deferrals = 0
      /\ rows'[n].enqueuedAt = now /\ rows'[n].notBefore = now
  BY <1>6 DEF NewRow
<1>8. Sound(rows')
  <2>1. \A new :
          /\ DOMAIN new = DOMAIN kept \union {n}
          /\ \A s \in DOMAIN kept : new[s] = kept[s]
          /\ new[n].batch = {} /\ new[n].status = "live" /\ new[n].token = 0
          /\ new[n].leaseUntil = 0 /\ new[n].endedAt = 0
          /\ new[n].failures = 0 /\ new[n].deferrals = 0
          /\ new[n].enqueuedAt = now /\ new[n].notBefore = now
          => Sound(new)
    <3> HIDE DEF n
    <3>1. QED
      BY <1>1, <1>2, <1>4, SoundAdded
  <2>2. QED
    BY <1>6, <1>7, <2>1
<1>9. Numbered'
  <2>1. sequence' = n /\ 1 .. sequence \subseteq 1 .. n
    BY BInvTyped DEF Enqueue
  <2>2. \A s \in DOMAIN rows' : rows'[s].batch \subseteq 1 .. n
    BY <1>4, <1>6, <1>7, <2>1
  <2>3. QED
    BY <2>1, <2>2 DEF Numbered
<1>10. QED
  BY <1>8, <1>9, SoundPrimed, BInvTyped DEF Enqueue, ClaimsOK

\* Steps that keep the table's rows, but for what they write in them.
LEMMA NumberedKept ==
  ASSUME BInv, UNCHANGED sequence, DOMAIN rows' \subseteq DOMAIN rows,
         \A s \in DOMAIN rows' : rows'[s].batch = rows[s].batch
  PROVE  Numbered'
BY BInvTyped DEF Numbered

LEMMA InitializeSound ==
  ASSUME BInv, Initialize
  PROVE  Sound(rows)' /\ ClaimsOK' /\ Numbered'
<1>1. rows' = Retained(rows) /\ UNCHANGED <<now, sequence, claims>>
  BY DEF Initialize
<1>2. Sound(rows')
  BY <1>1, BInvTyped, RetainedSound
<1>3. DOMAIN rows' \subseteq DOMAIN rows /\ \A s \in DOMAIN rows' : rows'[s] = rows[s]
  BY <1>1 DEF Retained
<1>4. QED
  BY <1>1, <1>2, <1>3, BInvTyped, SoundPrimed, NumberedKept DEF ClaimsOK

LEMMA NoBatchSound ==
  ASSUME BInv, NoBatch
  PROVE  Sound(rows)' /\ ClaimsOK' /\ Numbered'
<1>1. rows' = Unclaimed(rows) /\ UNCHANGED <<now, sequence, claims>>
  BY DEF NoBatch
<1>2. Sound(rows')
  BY <1>1, BInvTyped, UnclaimedSound
<1>3. DOMAIN rows' = DOMAIN rows /\ \A s \in DOMAIN rows' : rows'[s].batch = rows[s].batch
  BY <1>1, BInvTyped, UnclaimedRows, UnclaimedFields
<1>4. QED
  BY <1>1, <1>2, <1>3, BInvTyped, SoundPrimed, NumberedKept DEF ClaimsOK

LEMMA TickSound ==
  ASSUME BInv, Tick
  PROVE  Sound(rows)' /\ ClaimsOK' /\ Numbered'
<1>1. UNCHANGED <<sequence, rows, claims>> /\ now' = now + 1 /\ now \in Nat
  BY BInvTyped DEF Tick
<1>2. Timely(rows)'
  <2>1. \A s \in DOMAIN rows : rows[s].enqueuedAt \in Nat /\ rows[s].notBefore \in Nat
    BY BInvTyped DEF Typed, Row
  <2>2. Timely(rows)
    BY DEF BInv, Sound
  <2>3. \A k \in Nat : k <= now => k <= now'
    BY <1>1
  <2>4. QED
    BY <1>1, <2>1, <2>2, <2>3 DEF Timely
<1>3. QED
  BY <1>1, <1>2 DEF BInv, Sound, Unmarked, Units, OneBatch, OneChannel, Channel, Live,
                    ClaimsOK, Numbered

LEMMA RenewLeaseSound ==
  ASSUME BInv, NEW t \in DOMAIN claims, RenewLease(t)
  PROVE  Sound(rows)' /\ ClaimsOK' /\ Numbered'
<1> USE QueueAssumption
<1> DEFINE m == claims[t].members
           Changed(row) == [row EXCEPT !.leaseUntil = now + Lease]
<1>1. /\ BatchOwned(t) /\ UNCHANGED <<now, sequence, claims>>
      /\ rows' = [s \in DOMAIN rows |-> IF s \in m THEN Changed(rows[s]) ELSE rows[s]]
  BY DEF RenewLease, Settle, Updated
<1>2. m \subseteq DOMAIN rows /\ \A s, u \in m : Alike(rows[u], rows[s])
  BY <1>1, OwnedFacts
<1>3. now \in Nat /\ \A s \in DOMAIN rows : rows[s] \in Row
  BY BInvTyped DEF Typed
<1>4. ASSUME NEW row \in Row
      PROVE  /\ Changed(row).event = row.event /\ Changed(row).batch = row.batch
             /\ Changed(row).enqueuedAt = row.enqueuedAt
             /\ Changed(row).token = row.token /\ Changed(row).notBefore = row.notBefore
             /\ Changed(row).leaseUntil = now + Lease
             /\ Changed(row).failures = row.failures /\ Changed(row).deferrals = row.deferrals
             /\ Changed(row).status = row.status /\ Changed(row).endedAt = row.endedAt
  BY DEF Row
<1> HIDE DEF Changed
<1>5. DOMAIN rows' = DOMAIN rows /\ \A s \in DOMAIN rows \ m : rows'[s] = rows[s]
  BY <1>1
<1>6. ASSUME NEW s \in m
      PROVE  rows'[s] = Changed(rows[s]) /\ rows[s] \in Row
  BY <1>1, <1>2, <1>3
<1>7. ASSUME NEW s \in m, NEW u \in m
      PROVE  Alike(rows'[u], rows'[s])
  <2>1. Alike(rows[u], rows[s])
    BY <1>2
  <2>2. QED
    BY <1>4, <1>6, <2>1 DEF Alike
<1>8. ASSUME NEW s \in m
      PROVE  /\ rows'[s].event = rows[s].event /\ rows'[s].batch = rows[s].batch
             /\ rows'[s].enqueuedAt = rows[s].enqueuedAt
             /\ rows'[s].token # 0 =>
                   rows'[s].token = rows[s].token /\ rows'[s].notBefore = rows[s].notBefore
  BY <1>4, <1>6
<1>9. Sound(rows)'
  BY <1>1, <1>5, <1>7, <1>8, SettledSound
<1>10. \A s \in DOMAIN rows' : rows'[s].batch = rows[s].batch
  BY <1>2, <1>5, <1>8
<1>11. QED
  BY <1>1, <1>5, <1>9, <1>10, BInvTyped, NumberedKept DEF ClaimsOK

LEMMA MarkProcessedSound ==
  ASSUME BInv, NEW t \in DOMAIN claims, MarkProcessed(t)
  PROVE  Sound(rows)' /\ ClaimsOK' /\ Numbered'
<1> USE QueueAssumption
<1> DEFINE m == claims[t].members
           Changed(row) == [WithoutClaim(row) EXCEPT !.status = "processed", !.endedAt = now]
<1>1. /\ BatchOwned(t) /\ UNCHANGED <<now, sequence, claims>>
      /\ rows' = [s \in DOMAIN rows |-> IF s \in m THEN Changed(rows[s]) ELSE rows[s]]
  BY DEF MarkProcessed, Settle, Updated
<1>2. m \subseteq DOMAIN rows /\ \A s, u \in m : Alike(rows[u], rows[s])
  <2>1. BatchOwned(t)
    BY <1>1
  <2>2. QED
    BY <2>1, OwnedFacts
<1>3. now \in Nat /\ \A s \in DOMAIN rows : rows[s] \in Row
  BY BInvTyped DEF Typed
<1>4. ASSUME NEW row \in Row
      PROVE  /\ Changed(row).event = row.event /\ Changed(row).batch = row.batch
             /\ Changed(row).enqueuedAt = row.enqueuedAt
             /\ Changed(row).token = 0 /\ Changed(row).leaseUntil = 0
             /\ Changed(row).failures = row.failures /\ Changed(row).deferrals = row.deferrals
             /\ Changed(row).status = "processed" /\ Changed(row).endedAt = now
  <2>1. PICK w : w = WithoutClaim(row)
    OBVIOUS
  <2>2. /\ w \in Row /\ w.event = row.event /\ w.batch = row.batch
        /\ w.enqueuedAt = row.enqueuedAt /\ w.notBefore = row.notBefore
        /\ w.token = 0 /\ w.leaseUntil = 0
        /\ w.failures = row.failures /\ w.deferrals = row.deferrals
        /\ w.status = row.status /\ w.endedAt = row.endedAt
    BY <2>1, WithoutClaimFacts
  <2>3. Changed(row) = [w EXCEPT !.status = "processed", !.endedAt = now]
    BY <2>1
  <2> HIDE DEF Changed
  <2>4. QED
    BY <2>2, <2>3 DEF Row
<1> HIDE DEF Changed
<1>5. DOMAIN rows' = DOMAIN rows /\ \A s \in DOMAIN rows \ m : rows'[s] = rows[s]
  BY <1>1
<1>6. ASSUME NEW s \in m
      PROVE  rows'[s] = Changed(rows[s]) /\ rows[s] \in Row
  BY <1>1, <1>2, <1>3
<1>7. ASSUME NEW s \in m, NEW u \in m
      PROVE  Alike(rows'[u], rows'[s])
  <2>1. Alike(rows[u], rows[s])
    BY <1>2
  <2>2. QED
    BY <1>4, <1>6, <2>1 DEF Alike
<1>8. ASSUME NEW s \in m
      PROVE  /\ rows'[s].event = rows[s].event /\ rows'[s].batch = rows[s].batch
             /\ rows'[s].enqueuedAt = rows[s].enqueuedAt
             /\ rows'[s].token # 0 =>
                   rows'[s].token = rows[s].token /\ rows'[s].notBefore = rows[s].notBefore
  BY <1>4, <1>6
<1>9. Sound(rows)'
  BY <1>1, <1>5, <1>7, <1>8, SettledSound
<1>10. \A s \in DOMAIN rows' : rows'[s].batch = rows[s].batch
  BY <1>2, <1>5, <1>8
<1>11. QED
  BY <1>1, <1>5, <1>9, <1>10, BInvTyped, NumberedKept DEF ClaimsOK

LEMMA RescheduleSound ==
  ASSUME BInv, NEW t \in DOMAIN claims, NEW delay \in Delays, NEW failed \in BOOLEAN, 
         Reschedule(t, delay, failed)
  PROVE  Sound(rows)' /\ ClaimsOK' /\ Numbered'
<1> USE QueueAssumption
<1> DEFINE m == claims[t].members
           Changed(row) ==
             [WithoutClaim(row) EXCEPT
                 !.notBefore = now + delay,
                 !.failures  = IF failed THEN @ + 1 ELSE @,
                 !.deferrals = IF failed THEN @ ELSE @ + 1]
<1>1. /\ BatchOwned(t) /\ UNCHANGED <<now, sequence, claims>>
      /\ rows' = [s \in DOMAIN rows |-> IF s \in m THEN Changed(rows[s]) ELSE rows[s]]
  BY DEF Reschedule, Settle, Updated
<1>2. m \subseteq DOMAIN rows /\ \A s, u \in m : Alike(rows[u], rows[s])
  <2>1. BatchOwned(t)
    BY <1>1
  <2>2. QED
    BY <2>1, OwnedFacts
<1>3. now \in Nat /\ \A s \in DOMAIN rows : rows[s] \in Row
  BY BInvTyped DEF Typed
<1>4. ASSUME NEW row \in Row
      PROVE  /\ Changed(row).event = row.event /\ Changed(row).batch = row.batch
             /\ Changed(row).enqueuedAt = row.enqueuedAt
             /\ Changed(row).token = 0 /\ Changed(row).leaseUntil = 0
             /\ Changed(row).failures = IF failed THEN row.failures + 1 ELSE row.failures
             /\ Changed(row).deferrals = IF failed THEN row.deferrals ELSE row.deferrals + 1
             /\ Changed(row).status = row.status /\ Changed(row).endedAt = row.endedAt
  <2>1. PICK w : w = WithoutClaim(row)
    OBVIOUS
  <2>2. /\ w \in Row /\ w.event = row.event /\ w.batch = row.batch
        /\ w.enqueuedAt = row.enqueuedAt /\ w.notBefore = row.notBefore
        /\ w.token = 0 /\ w.leaseUntil = 0
        /\ w.failures = row.failures /\ w.deferrals = row.deferrals
        /\ w.status = row.status /\ w.endedAt = row.endedAt
    BY <2>1, WithoutClaimFacts
  <2>3. Changed(row) = [w EXCEPT !.notBefore = now + delay,
                                 !.failures  = IF failed THEN w.failures + 1 ELSE w.failures,
                                 !.deferrals = IF failed THEN w.deferrals ELSE w.deferrals + 1]
    BY <2>1
  <2> HIDE DEF Changed
  <2>4. QED
    BY <2>2, <2>3 DEF Row
<1> HIDE DEF Changed
<1>5. DOMAIN rows' = DOMAIN rows /\ \A s \in DOMAIN rows \ m : rows'[s] = rows[s]
  BY <1>1
<1>6. ASSUME NEW s \in m
      PROVE  rows'[s] = Changed(rows[s]) /\ rows[s] \in Row
  BY <1>1, <1>2, <1>3
<1>7. ASSUME NEW s \in m, NEW u \in m
      PROVE  Alike(rows'[u], rows'[s])
  <2>1. Alike(rows[u], rows[s])
    BY <1>2
  <2>2. QED
    BY <1>4, <1>6, <2>1 DEF Alike
<1>8. ASSUME NEW s \in m
      PROVE  /\ rows'[s].event = rows[s].event /\ rows'[s].batch = rows[s].batch
             /\ rows'[s].enqueuedAt = rows[s].enqueuedAt
             /\ rows'[s].token # 0 =>
                   rows'[s].token = rows[s].token /\ rows'[s].notBefore = rows[s].notBefore
  BY <1>4, <1>6
<1>9. Sound(rows)'
  BY <1>1, <1>5, <1>7, <1>8, SettledSound
<1>10. \A s \in DOMAIN rows' : rows'[s].batch = rows[s].batch
  BY <1>2, <1>5, <1>8
<1>11. QED
  BY <1>1, <1>5, <1>9, <1>10, BInvTyped, NumberedKept DEF ClaimsOK

LEMMA DeadLetterSound ==
  ASSUME BInv, NEW t \in DOMAIN claims, DeadLetter(t)
  PROVE  Sound(rows)' /\ ClaimsOK' /\ Numbered'
<1> USE QueueAssumption
<1> DEFINE m == claims[t].members
           Changed(row) ==
             [WithoutClaim(row) EXCEPT
                 !.status = "dead_lettered", !.endedAt = now, !.failures = @ + 1]
<1>1. /\ BatchOwned(t) /\ UNCHANGED <<now, sequence, claims>>
      /\ rows' = [s \in DOMAIN rows |-> IF s \in m THEN Changed(rows[s]) ELSE rows[s]]
  BY DEF DeadLetter, Settle, Updated
<1>2. m \subseteq DOMAIN rows /\ \A s, u \in m : Alike(rows[u], rows[s])
  <2>1. BatchOwned(t)
    BY <1>1
  <2>2. QED
    BY <2>1, OwnedFacts
<1>3. now \in Nat /\ \A s \in DOMAIN rows : rows[s] \in Row
  BY BInvTyped DEF Typed
<1>4. ASSUME NEW row \in Row
      PROVE  /\ Changed(row).event = row.event /\ Changed(row).batch = row.batch
             /\ Changed(row).enqueuedAt = row.enqueuedAt
             /\ Changed(row).token = 0 /\ Changed(row).leaseUntil = 0
             /\ Changed(row).failures = row.failures + 1 /\ Changed(row).deferrals = row.deferrals
             /\ Changed(row).status = "dead_lettered" /\ Changed(row).endedAt = now
  <2>1. PICK w : w = WithoutClaim(row)
    OBVIOUS
  <2>2. /\ w \in Row /\ w.event = row.event /\ w.batch = row.batch
        /\ w.enqueuedAt = row.enqueuedAt /\ w.notBefore = row.notBefore
        /\ w.token = 0 /\ w.leaseUntil = 0
        /\ w.failures = row.failures /\ w.deferrals = row.deferrals
        /\ w.status = row.status /\ w.endedAt = row.endedAt
    BY <2>1, WithoutClaimFacts
  <2>3. Changed(row) = [w EXCEPT !.status = "dead_lettered", !.endedAt = now,
                                 !.failures = w.failures + 1]
    BY <2>1
  <2> HIDE DEF Changed
  <2>4. QED
    BY <2>2, <2>3 DEF Row
<1> HIDE DEF Changed
<1>5. DOMAIN rows' = DOMAIN rows /\ \A s \in DOMAIN rows \ m : rows'[s] = rows[s]
  BY <1>1
<1>6. ASSUME NEW s \in m
      PROVE  rows'[s] = Changed(rows[s]) /\ rows[s] \in Row
  BY <1>1, <1>2, <1>3
<1>7. ASSUME NEW s \in m, NEW u \in m
      PROVE  Alike(rows'[u], rows'[s])
  <2>1. Alike(rows[u], rows[s])
    BY <1>2
  <2>2. QED
    BY <1>4, <1>6, <2>1 DEF Alike
<1>8. ASSUME NEW s \in m
      PROVE  /\ rows'[s].event = rows[s].event /\ rows'[s].batch = rows[s].batch
             /\ rows'[s].enqueuedAt = rows[s].enqueuedAt
             /\ rows'[s].token # 0 =>
                   rows'[s].token = rows[s].token /\ rows'[s].notBefore = rows[s].notBefore
  BY <1>4, <1>6
<1>9. Sound(rows)'
  BY <1>1, <1>5, <1>7, <1>8, SettledSound
<1>10. \A s \in DOMAIN rows' : rows'[s].batch = rows[s].batch
  BY <1>2, <1>5, <1>8
<1>11. QED
  BY <1>1, <1>5, <1>9, <1>10, BInvTyped, NumberedKept DEF ClaimsOK

\* What the claim after the lapsed ones were taken off works on.
LEMMA UnclaimedTable ==
  ASSUME BInv, NEW table, table = Unclaimed(rows)
  PROVE  /\ Typed(table) /\ Sound(table) /\ DOMAIN table = DOMAIN rows
         /\ \A S \in SUBSET DOMAIN table : IsFiniteSet(S)
         /\ DOMAIN table \subseteq Nat /\ Live(table) \subseteq DOMAIN table
         /\ \A s \in DOMAIN table : table[s].batch = rows[s].batch
BY BInvTyped, UnclaimedFacts, UnclaimedSound, UnclaimedFields DEF Live, Typed

LEMMA NextBatchSound ==
  ASSUME BInv, NextBatch
  PROVE  Sound(rows)' /\ ClaimsOK' /\ Numbered'
<1> USE QueueAssumption
<1>1. PICK table : table = Unclaimed(rows)
  OBVIOUS
<1>2. /\ Typed(table) /\ Sound(table) /\ DOMAIN table = DOMAIN rows
      /\ \A S \in SUBSET DOMAIN table : IsFiniteSet(S)
      /\ DOMAIN table \subseteq Nat /\ Live(table) \subseteq DOMAIN table
      /\ \A s \in DOMAIN table : table[s].batch = rows[s].batch
  BY <1>1, UnclaimedTable
<1>3. PICK chosen : chosen = Selected(table)
  OBVIOUS
<1>4. PICK n : n = Len(claims) + 1
  OBVIOUS
<1>5. PICK batch : batch = BatchId(table, chosen)
  OBVIOUS
<1>6. PICK until : until = now + Lease
  OBVIOUS
<1>7. /\ chosen # {}
      /\ rows' = [s \in DOMAIN table |->
                    IF s \in chosen
                    THEN [table[s] EXCEPT !.batch = batch, !.token = n, !.leaseUntil = until]
                    ELSE table[s]]
      /\ claims' = Append(claims, [batch |-> batch, members |-> chosen])
      /\ UNCHANGED <<now, sequence>>
  BY <1>1, <1>3, <1>4, <1>5, <1>6 DEF NextBatch, Updated
<1>8. n \in Nat /\ until \in Nat /\ claims \in Seq(Claim)
  BY <1>4, <1>6, BInvTyped
<1>9. chosen \subseteq Live(table) /\ chosen \subseteq DOMAIN table /\ Min(chosen) \in chosen
  BY <1>2, <1>3, <1>7, SelectedFacts, MinFacts
<1>10. \A s \in DOMAIN table : table[s].batch \subseteq 1 .. sequence
  BY <1>2, BInvTyped DEF Numbered
<1>11. Sound(rows') /\ batch # {} /\ batch \subseteq 1 .. sequence
  <2>1. CASE \E b \in RetryBatches(table) : chosen = Members(table, b)
    <3>1. PICK b \in RetryBatches(table) : chosen = Members(table, b)
      BY <2>1
    <3>2. table[Min(chosen)].batch = b /\ b # {}
      BY <1>9, <3>1 DEF Members, RetryBatches, Batches
    <3>3. batch = b
      BY <1>5, <3>2 DEF BatchId
    <3>4. PICK new : new = Marked(table, Members(table, b), b, n, until)
      OBVIOUS
    <3>5. Sound(new)
      BY <1>2, <1>8, <3>1, <3>4, RetakenSound
    <3>6. rows' = new
      BY <1>7, <3>1, <3>3, <3>4 DEF Marked
    <3>7. QED
      BY <1>9, <1>10, <3>2, <3>3, <3>5, <3>6
  <2>2. CASE \E c \in RipeChannels(table) : chosen = Candidates(table, c)
    <3>1. PICK c \in RipeChannels(table) : chosen = Candidates(table, c)
      BY <2>2
    <3>2. table[Min(chosen)].batch = {}
      BY <1>2, <1>9, <3>1, CandidatesFacts DEF Waiting
    <3>3. batch = chosen
      BY <1>5, <3>2 DEF BatchId
    <3>4. PICK new : new = Marked(table, chosen, chosen, n, until)
      OBVIOUS
    <3>5. Sound(new)
      BY <1>2, <1>8, <3>1, <3>4, FormedSound
    <3>6. rows' = new
      BY <1>7, <3>1, <3>3, <3>4 DEF Marked
    <3>7. QED
      BY <1>2, <1>7, <1>9, <3>3, <3>5, <3>6, BInvTyped
  <2>3. QED
    BY <1>2, <1>3, <1>7, <2>1, <2>2, SelectedShape
<1>12. Numbered'
  <2>1. \A s \in DOMAIN table : table[s] \in Row
    BY <1>2 DEF Typed
  <2>2. ASSUME NEW s \in DOMAIN table
        PROVE  rows'[s].batch = batch \/ rows'[s].batch = table[s].batch
    BY <1>7, <2>1 DEF Row
  <2>3. DOMAIN rows' = DOMAIN table
    BY <1>7
  <2>4. QED
    BY <1>7, <1>10, <1>11, <2>2, <2>3 DEF Numbered
<1>13. ClaimsOK'
  <2>1. PICK claim : claim = [batch |-> batch, members |-> chosen]
    OBVIOUS
  <2>2. claim.batch = batch /\ claim.members = chosen
    BY <2>1
  <2>3. batch \subseteq Nat /\ chosen \subseteq Nat
    BY <1>2, <1>9, <1>11, BInvTyped
  <2>4. claim \in Claim /\ claims' = Append(claims, claim)
    BY <1>7, <2>1, <2>3 DEF Claim
  <2>5. \A t \in DOMAIN claims' :
          claims'[t] = claim \/ (t \in DOMAIN claims /\ claims'[t] = claims[t])
    BY <1>8, <2>4
  <2>6. QED
    BY <1>7, <1>11, <2>2, <2>5, BInvTyped DEF ClaimsOK
<1>14. QED
  BY <1>7, <1>11, <1>12, <1>13, SoundPrimed

LEMMA BInitFact ==
  ASSUME Init
  PROVE  BInv
<1>1. DOMAIN rows = {} /\ claims = <<>>
  BY DEF Init
<1>2. Sound(rows)
  BY <1>1 DEF Sound, Unmarked, Units, Timely, OneBatch, OneChannel, Live
<1>3. ClaimsOK /\ Numbered
  BY <1>1 DEF ClaimsOK, Numbered
<1>4. QED
  BY <1>2, <1>3, InitFact DEF BInv

LEMMA BStepFact ==
  ASSUME BInv, [Next]_vars
  PROVE  BInv'
<1>1. IInv'
  BY StepFact DEF BInv
<1>2. CASE \E e \in Events : Enqueue(e)
  BY <1>1, <1>2, EnqueueSound DEF BInv
<1>3. CASE Initialize
  BY <1>1, <1>3, InitializeSound DEF BInv
<1>4. CASE NoBatch
  BY <1>1, <1>4, NoBatchSound DEF BInv
<1>5. CASE NextBatch
  BY <1>1, <1>5, NextBatchSound DEF BInv
<1>6. CASE \E t \in DOMAIN claims : RenewLease(t)
  BY <1>1, <1>6, RenewLeaseSound DEF BInv
<1>7. CASE \E t \in DOMAIN claims : MarkProcessed(t)
  BY <1>1, <1>7, MarkProcessedSound DEF BInv
<1>8. CASE \E t \in DOMAIN claims, delay \in Delays, failed \in BOOLEAN :
              Reschedule(t, delay, failed)
  BY <1>1, <1>8, RescheduleSound DEF BInv
<1>9. CASE \E t \in DOMAIN claims : DeadLetter(t)
  BY <1>1, <1>9, DeadLetterSound DEF BInv
<1>10. CASE Tick
  BY <1>1, <1>10, TickSound DEF BInv
<1>11. CASE UNCHANGED vars
  BY <1>1, <1>11 DEF vars, BInv, Sound, Unmarked, Units, Timely, OneBatch, OneChannel,
                     Channel, Live, ClaimsOK, Numbered
<1>12. QED
  BY <1>2, <1>3, <1>4, <1>5, <1>6, <1>7, <1>8, <1>9, <1>10, <1>11 DEF Next

\* The batches stay units, whatever is claimed, settled, deferred or deleted:
\* each lists its rows, they are marked and counted alike, they are the first
\* of their channel's backlog and no other batch of the channel is open.
THEOREM BatchesHold == Spec => []BInv
BY BInitFact, BStepFact, PTL DEF Spec

LEMMA SameRow ==
  ASSUME NEW x \in Row, NEW y \in Row,
         x.event = y.event, x.enqueuedAt = y.enqueuedAt, x.notBefore = y.notBefore,
         x.failures = y.failures, x.deferrals = y.deferrals, x.batch = y.batch,
         x.token = y.token, x.leaseUntil = y.leaseUntil, x.status = y.status,
         x.endedAt = y.endedAt
  PROVE  x = y
<1> DEFINE Rebuilt(r) ==
      [event |-> r.event, enqueuedAt |-> r.enqueuedAt, notBefore |-> r.notBefore,
       failures |-> r.failures, deferrals |-> r.deferrals, batch |-> r.batch,
       token |-> r.token, leaseUntil |-> r.leaseUntil, status |-> r.status,
       endedAt |-> r.endedAt]
<1>1. x = Rebuilt(x) /\ y = Rebuilt(y)
  BY DEF Row
<1>2. Rebuilt(x) = Rebuilt(y)
  OBVIOUS
<1> HIDE DEF Rebuilt
<1>3. QED
  BY <1>1, <1>2

\* The rows of a batch have one fate: the batch has the members it was formed
\* with and they are claimed, retried and settled together.
THEOREM BatchIsUnitHolds == Spec => []BatchIsUnit
<1>1. BInv => BatchIsUnit
  <2>1. SUFFICES ASSUME BInv, NEW s \in DOMAIN rows, rows[s].batch # {}
                 PROVE  /\ s \in rows[s].batch
                        /\ \A u \in rows[s].batch \intersect DOMAIN rows :
                              [rows[u] EXCEPT !.event = rows[s].event,
                                              !.enqueuedAt = rows[s].enqueuedAt,
                                              !.notBefore = rows[s].notBefore] = rows[s]
    BY DEF BatchIsUnit
  <2>2. s \in rows[s].batch
    BY <2>1 DEF BInv, Sound, Units
  <2>3. ASSUME NEW u \in rows[s].batch \intersect DOMAIN rows
        PROVE  [rows[u] EXCEPT !.event = rows[s].event,
                               !.enqueuedAt = rows[s].enqueuedAt,
                               !.notBefore = rows[s].notBefore] = rows[s]
    <3>1. Alike(rows[u], rows[s])
      BY <2>1, <2>3 DEF BInv, Sound, Units
    <3>2. rows[u] \in Row /\ rows[s] \in Row
      BY <2>1, <2>3, BInvTyped DEF Typed
    <3>3. PICK q, r \in Row : q = rows[u] /\ r = rows[s]
      BY <3>2
    <3>4. /\ q.batch = r.batch /\ q.token = r.token /\ q.leaseUntil = r.leaseUntil
          /\ q.failures = r.failures /\ q.deferrals = r.deferrals
          /\ q.status = r.status /\ q.endedAt = r.endedAt
      BY <3>1, <3>3 DEF Alike
    <3>5. PICK x : x = [q EXCEPT !.event = r.event, !.enqueuedAt = r.enqueuedAt,
                                 !.notBefore = r.notBefore]
      OBVIOUS
    <3>6. /\ x \in Row
          /\ x.event = r.event /\ x.enqueuedAt = r.enqueuedAt /\ x.notBefore = r.notBefore
          /\ x.batch = q.batch /\ x.token = q.token /\ x.leaseUntil = q.leaseUntil
          /\ x.failures = q.failures /\ x.deferrals = q.deferrals
          /\ x.status = q.status /\ x.endedAt = q.endedAt
      BY <3>5 DEF Row
    <3>7. x = r
      BY <3>4, <3>6, SameRow
    <3>8. QED
      BY <3>3, <3>5, <3>7
  <2>4. QED
    BY <2>2, <2>3
<1>2. QED
  BY <1>1, BatchesHold, PTL

-------------------------------------------------------------------------------
(* The queue implements the backlog                                        *)

\* Rows that stay live in their channel leave the backlog as it is.
LEMMA SameBacklog ==
  ASSUME UNCHANGED sequence, Live(rows') = Live(rows),
         \A s \in Live(rows) : rows'[s].event = rows[s].event
  PROVE  UNCHANGED <<sequence, Unsettled>>
<1>1. ASSUME NEW c \in Channels
      PROVE  OfChannel(rows', c) = OfChannel(rows, c)
  BY DEF OfChannel, Channel
<1>2. Unsettled' = [c \in Channels |-> OfChannel(rows', c)]
  BY DEF Unsettled, OfChannel, Channel, Live
<1>3. QED
  BY <1>1, <1>2 DEF Unsettled

\* The rows of a good claim are a beginning of their channel's backlog.
LEMMA SettledBacklog ==
  ASSUME BInv, NEW t \in DOMAIN claims, BatchOwned(t), UNCHANGED sequence,
         DOMAIN rows' = DOMAIN rows,
         \A s \in DOMAIN rows \ claims[t].members : rows'[s] = rows[s],
         \A s \in claims[t].members : rows'[s].status # "live"
  PROVE  [Backlog!Next]_<<sequence, Unsettled>>
<1> USE QueueAssumption
<1> DEFINE m == claims[t].members
           b == claims[t].batch
<1>1. /\ b # {} /\ m # {} /\ m \subseteq Live(rows)
      /\ m = {u \in DOMAIN rows : rows[u].batch = b}
  BY OwnedFacts DEF Live
<1>2. PICK first \in m : TRUE
  BY <1>1
<1>3. PICK c \in Channels : c = Channel(rows, first)
  <2>1. rows[first].event \in Events
    BY <1>1, <1>2, BInvTyped DEF Typed, Row
  <2>2. QED
    BY <2>1 DEF Channel
<1>4. Sound(rows) /\ \A s \in m : s \in Live(rows) /\ rows[s].batch = b
  BY <1>1, BInvTyped
<1>5. ASSUME NEW s \in m
      PROVE  Channel(rows, s) = c
  <2>1. OneChannel(rows)
    BY <1>4 DEF Sound
  <2>2. QED
    BY <1>1, <1>3, <1>4, <2>1 DEF OneChannel
<1>6. m \subseteq OfChannel(rows, c)
  BY <1>4, <1>5 DEF OfChannel
<1>7. ASSUME NEW s \in m, NEW u \in OfChannel(rows, c) \ m
      PROVE  s < u
  <2>1. u \in Live(rows) /\ u \in DOMAIN rows /\ Channel(rows, s) = Channel(rows, u)
    BY <1>5, <1>7 DEF OfChannel, Live
  <2>2. rows[u].batch # b
    BY <1>1, <1>7, <2>1
  <2>3. s \in Live(rows) /\ rows[s].batch = b
    BY <1>4
  <2>4. QED
    BY <1>1, <1>4, <2>1, <2>2, <2>3, OneBatchFacts
<1>8. Backlog!Beginning(m, Unsettled[c])
  BY <1>1, <1>6, <1>7 DEF Unsettled, Backlog!Beginning
<1>9. Unsettled' = [Unsettled EXCEPT ![c] = @ \ m]
  <2>1. Live(rows') = Live(rows) \ m /\ \A s \in Live(rows') : rows'[s] = rows[s]
    BY <1>1 DEF Live
  <2>2. ASSUME NEW d \in Channels
        PROVE  OfChannel(rows', d) = OfChannel(rows, d) \ m
    BY <2>1 DEF OfChannel, Channel
  <2>3. ASSUME NEW d \in Channels, d # c
        PROVE  OfChannel(rows, d) \ m = OfChannel(rows, d)
    BY <1>5, <2>3 DEF OfChannel
  <2>4. Unsettled' = [d \in Channels |-> OfChannel(rows', d)]
    BY DEF Unsettled, OfChannel, Channel, Live
  <2>5. QED
    BY <2>2, <2>3, <2>4 DEF Unsettled
<1>10. Backlog!Settle(c, m)
  BY <1>8, <1>9 DEF Backlog!Settle
<1>11. m \in SUBSET Unsettled[c]
  BY <1>6 DEF Unsettled
<1>12. QED
  BY <1>10, <1>11 DEF Backlog!Next

LEMMA EnqueueBacklog ==
  ASSUME BInv, NEW e \in Events, Enqueue(e)
  PROVE  [Backlog!Next]_<<sequence, Unsettled>>
<1> USE QueueAssumption
<1> DEFINE kept == Retained(rows)
           n == sequence + 1
<1>1. /\ sequence' = n
      /\ rows' = [s \in DOMAIN kept \union {n} |-> IF s \in DOMAIN kept THEN kept[s] ELSE NewRow(e)]
  BY DEF Enqueue
<1>2. Live(kept) = Live(rows) /\ \A s \in Live(rows) : kept[s] = rows[s]
  BY DEF Retained, Live
<1>3. n \notin DOMAIN kept /\ n \notin DOMAIN rows
  BY BInvTyped DEF Retained
<1> HIDE DEF kept
<1>4. /\ DOMAIN rows' = DOMAIN kept \union {n}
      /\ \A s \in DOMAIN kept : rows'[s] = kept[s]
      /\ rows'[n].event = e /\ rows'[n].status = "live"
  BY <1>1, <1>3 DEF NewRow
<1>5. PICK c \in Channels : c = ChannelOf[e]
  OBVIOUS
<1> HIDE DEF n
<1>6. Live(rows') = Live(rows) \union {n} /\ n \notin Live(rows)
  BY <1>2, <1>3, <1>4 DEF Live
<1>7. Channel(rows', n) = c /\ \A s \in Live(rows) : Channel(rows', s) = Channel(rows, s)
  BY <1>2, <1>4, <1>5 DEF Channel, Live
<1>8. ASSUME NEW d \in Channels
      PROVE  OfChannel(rows', d) = IF d = c THEN OfChannel(rows, d) \union {n}
                                            ELSE OfChannel(rows, d)
  BY <1>6, <1>7 DEF OfChannel
<1>9. Unsettled' = [d \in Channels |-> OfChannel(rows', d)]
  BY DEF Unsettled, OfChannel, Channel, Live
<1>10. Unsettled' = [Unsettled EXCEPT ![c] = @ \union {n}]
  BY <1>8, <1>9 DEF Unsettled
<1>11. Backlog!Accept(c)
  BY <1>1, <1>10 DEF Backlog!Accept, n
<1>12. QED
  BY <1>11 DEF Backlog!Next

LEMMA MarkProcessedRows ==
  ASSUME BInv, NEW t \in DOMAIN claims, MarkProcessed(t)
  PROVE  /\ BatchOwned(t) /\ UNCHANGED <<now, sequence, claims>>
         /\ DOMAIN rows' = DOMAIN rows
         /\ \A s \in DOMAIN rows \ claims[t].members : rows'[s] = rows[s]
         /\ \A s \in claims[t].members :
               /\ rows'[s].status = "processed" /\ rows'[s].batch = rows[s].batch
               /\ rows'[s].token = 0
<1> DEFINE Changed(row) ==
             [WithoutClaim(row) EXCEPT !.status = "processed", !.endedAt = now]
<1>1. BatchOwned(t) /\ UNCHANGED <<now, sequence, claims>>
  BY DEF MarkProcessed, Settle
<1>2. rows' = [s \in DOMAIN rows |->
                 IF s \in claims[t].members THEN Changed(rows[s]) ELSE rows[s]]
  BY DEF MarkProcessed, Settle, Updated
<1>3. ASSUME NEW row \in Row
      PROVE  /\ Changed(row).status = "processed" /\ Changed(row).batch = row.batch
             /\ Changed(row).token = 0
  <2>1. PICK w \in Row : w = WithoutClaim(row)
    BY WithoutClaimFacts
  <2>2. w.batch = row.batch /\ w.token = 0
    BY <2>1, WithoutClaimFacts
  <2>3. Changed(row) = [w EXCEPT !.status = "processed", !.endedAt = now]
    BY <2>1
  <2> HIDE DEF Changed
  <2>4. QED
    BY <2>1, <2>2, <2>3 DEF Row
<1> HIDE DEF Changed
<1>4. claims[t].members \subseteq DOMAIN rows /\ \A s \in DOMAIN rows : rows[s] \in Row
  BY <1>1, OwnedFacts, BInvTyped DEF Typed
<1>5. QED
  BY <1>1, <1>2, <1>3, <1>4

LEMMA MarkProcessedBacklog ==
  ASSUME BInv, NEW t \in DOMAIN claims, MarkProcessed(t)
  PROVE  [Backlog!Next]_<<sequence, Unsettled>>
<1>1. \A s \in claims[t].members : rows'[s].status # "live"
  BY MarkProcessedRows
<1>2. QED
  BY <1>1, MarkProcessedRows, SettledBacklog

LEMMA DeadLetterRows ==
  ASSUME BInv, NEW t \in DOMAIN claims, DeadLetter(t)
  PROVE  /\ BatchOwned(t) /\ UNCHANGED <<now, sequence, claims>>
         /\ DOMAIN rows' = DOMAIN rows
         /\ \A s \in DOMAIN rows \ claims[t].members : rows'[s] = rows[s]
         /\ \A s \in claims[t].members :
               /\ rows'[s].status = "dead_lettered" /\ rows'[s].batch = rows[s].batch
               /\ rows'[s].token = 0
<1> DEFINE Changed(row) ==
             [WithoutClaim(row) EXCEPT
                 !.status = "dead_lettered", !.endedAt = now, !.failures = @ + 1]
<1>1. BatchOwned(t) /\ UNCHANGED <<now, sequence, claims>>
  BY DEF DeadLetter, Settle
<1>2. rows' = [s \in DOMAIN rows |->
                 IF s \in claims[t].members THEN Changed(rows[s]) ELSE rows[s]]
  BY DEF DeadLetter, Settle, Updated
<1>3. ASSUME NEW row \in Row
      PROVE  /\ Changed(row).status = "dead_lettered" /\ Changed(row).batch = row.batch
             /\ Changed(row).token = 0
  <2>1. PICK w \in Row : w = WithoutClaim(row)
    BY WithoutClaimFacts
  <2>2. w.batch = row.batch /\ w.token = 0
    BY <2>1, WithoutClaimFacts
  <2>3. Changed(row) = [w EXCEPT !.status = "dead_lettered", !.endedAt = now,
                                 !.failures = w.failures + 1]
    BY <2>1
  <2> HIDE DEF Changed
  <2>4. QED
    BY <2>1, <2>2, <2>3 DEF Row
<1> HIDE DEF Changed
<1>4. claims[t].members \subseteq DOMAIN rows /\ \A s \in DOMAIN rows : rows[s] \in Row
  BY <1>1, OwnedFacts, BInvTyped DEF Typed
<1>5. QED
  BY <1>1, <1>2, <1>3, <1>4

LEMMA DeadLetterBacklog ==
  ASSUME BInv, NEW t \in DOMAIN claims, DeadLetter(t)
  PROVE  [Backlog!Next]_<<sequence, Unsettled>>
<1>1. \A s \in claims[t].members : rows'[s].status # "live"
  BY DeadLetterRows
<1>2. QED
  BY <1>1, DeadLetterRows, SettledBacklog

\* The rows keep their events and states.
LEMMA KeptBacklog ==
  ASSUME BInv, UNCHANGED sequence, DOMAIN rows' = DOMAIN rows,
         \A s \in DOMAIN rows : rows'[s].event = rows[s].event /\ rows'[s].status = rows[s].status
  PROVE  UNCHANGED <<sequence, Unsettled>>
<1>1. Live(rows') = Live(rows)
  BY DEF Live
<1>2. \A s \in Live(rows) : rows'[s].event = rows[s].event
  BY DEF Live
<1>3. QED
  BY <1>1, <1>2, SameBacklog

LEMMA InitializeBacklog ==
  ASSUME BInv, Initialize
  PROVE  UNCHANGED <<sequence, Unsettled>>
<1>1. rows' = Retained(rows) /\ UNCHANGED sequence
  BY DEF Initialize
<1>2. Live(rows') = Live(rows) /\ \A s \in Live(rows) : rows'[s] = rows[s]
  BY <1>1 DEF Retained, Live
<1>3. QED
  BY <1>1, <1>2, SameBacklog

LEMMA NoBatchBacklog ==
  ASSUME BInv, NoBatch
  PROVE  UNCHANGED <<sequence, Unsettled>>
<1>1. rows' = Unclaimed(rows) /\ UNCHANGED sequence
  BY DEF NoBatch
<1>2. /\ DOMAIN rows' = DOMAIN rows
      /\ \A s \in DOMAIN rows : rows'[s].event = rows[s].event /\ rows'[s].status = rows[s].status
  BY <1>1, BInvTyped, UnclaimedRows, UnclaimedFields
<1>3. QED
  BY <1>1, <1>2, KeptBacklog

\* What a claim writes.
LEMMA NextBatchRows ==
  ASSUME BInv, NextBatch
  PROVE  \E table, chosen, batch, n :
            /\ table = Unclaimed(rows) /\ chosen = Selected(table) /\ chosen # {}
            /\ batch = BatchId(table, chosen)
            /\ chosen \subseteq {s \in Live(table) : table[s].token = 0}
            /\ DOMAIN rows' = DOMAIN rows
            /\ \A s \in DOMAIN rows \ chosen : rows'[s] = table[s]
            /\ \A s \in DOMAIN rows \intersect chosen :
                  /\ rows'[s].event = table[s].event /\ rows'[s].status = table[s].status
                  /\ rows'[s].batch = batch /\ rows'[s].token = n
            /\ \A t \in DOMAIN claims : t \in DOMAIN claims' /\ claims'[t] = claims[t]
            /\ UNCHANGED <<now, sequence>>
<1>1. PICK table : table = Unclaimed(rows)
  OBVIOUS
<1>2. Typed(table) /\ DOMAIN table = DOMAIN rows
  BY <1>1, UnclaimedTable
<1>3. PICK chosen : chosen = Selected(table)
  OBVIOUS
<1>4. PICK n, batch, until :
         n = Len(claims) + 1 /\ batch = BatchId(table, chosen) /\ until = now + Lease
  OBVIOUS
<1>5. /\ chosen # {}
      /\ rows' = [s \in DOMAIN table |->
                    IF s \in chosen
                    THEN [table[s] EXCEPT !.batch = batch, !.token = n, !.leaseUntil = until]
                    ELSE table[s]]
      /\ claims' = Append(claims, [batch |-> batch, members |-> chosen])
      /\ UNCHANGED <<now, sequence>>
  BY <1>1, <1>3, <1>4 DEF NextBatch, Updated
<1>6. chosen \subseteq {s \in Live(table) : table[s].token = 0}
  BY <1>2, <1>3, SelectedFacts
<1>7. \A row \in Row :
        LET new == [row EXCEPT !.batch = batch, !.token = n, !.leaseUntil = until]
        IN  /\ new.event = row.event /\ new.status = row.status
            /\ new.batch = batch /\ new.token = n
  BY DEF Row
<1>8. DOMAIN rows' = DOMAIN rows /\ \A s \in DOMAIN rows \ chosen : rows'[s] = table[s]
  BY <1>2, <1>5
<1>9. ASSUME NEW s \in DOMAIN rows \intersect chosen
      PROVE  /\ rows'[s].event = table[s].event /\ rows'[s].status = table[s].status
             /\ rows'[s].batch = batch /\ rows'[s].token = n
  <2>1. table[s] \in Row
    BY <1>2 DEF Typed
  <2>2. rows'[s] = [table[s] EXCEPT !.batch = batch, !.token = n, !.leaseUntil = until]
    BY <1>2, <1>5
  <2>3. QED
    BY <1>7, <2>1, <2>2
<1>10. \A t \in DOMAIN claims : t \in DOMAIN claims' /\ claims'[t] = claims[t]
  <2>1. claims \in Seq(Claim)
    BY BInvTyped
  <2>2. PICK claim : claims' = Append(claims, claim)
    BY <1>5
  <2>3. QED
    BY <2>1, <2>2
<1>11. chosen # {} /\ batch = BatchId(table, chosen) /\ UNCHANGED <<now, sequence>>
  BY <1>4, <1>5
<1>12. QED
  BY <1>1, <1>3, <1>6, <1>8, <1>9, <1>10, <1>11

LEMMA NextBatchBacklog ==
  ASSUME BInv, NextBatch
  PROVE  UNCHANGED <<sequence, Unsettled>>
<1>1. PICK table, chosen, batch, n :
         /\ table = Unclaimed(rows)
         /\ DOMAIN rows' = DOMAIN rows
         /\ \A s \in DOMAIN rows \ chosen : rows'[s] = table[s]
         /\ \A s \in DOMAIN rows \intersect chosen :
               rows'[s].event = table[s].event /\ rows'[s].status = table[s].status
         /\ UNCHANGED sequence
  BY NextBatchRows
<1>2. \A s \in DOMAIN rows : table[s].event = rows[s].event /\ table[s].status = rows[s].status
  BY <1>1, BInvTyped, UnclaimedFields
<1>3. \A s \in DOMAIN rows : rows'[s].event = rows[s].event /\ rows'[s].status = rows[s].status
  BY <1>1, <1>2
<1>4. QED
  BY <1>1, <1>3, KeptBacklog

\* What a worker writes that keeps its batch live.
LEMMA RenewLeaseRows ==
  ASSUME BInv, NEW t \in DOMAIN claims, RenewLease(t)
  PROVE  /\ BatchOwned(t) /\ UNCHANGED <<now, sequence, claims>>
         /\ DOMAIN rows' = DOMAIN rows
         /\ \A s \in DOMAIN rows \ claims[t].members : rows'[s] = rows[s]
         /\ \A s \in claims[t].members :
               /\ rows'[s].event = rows[s].event /\ rows'[s].status = rows[s].status
               /\ rows'[s].batch = rows[s].batch /\ rows'[s].token = rows[s].token
               /\ rows'[s].leaseUntil = now + Lease
<1>1. /\ BatchOwned(t) /\ UNCHANGED <<now, sequence, claims>>
      /\ rows' = [s \in DOMAIN rows |->
                    IF s \in claims[t].members
                    THEN [rows[s] EXCEPT !.leaseUntil = now + Lease] ELSE rows[s]]
  BY DEF RenewLease, Settle, Updated
<1>2. claims[t].members \subseteq DOMAIN rows /\ \A s \in DOMAIN rows : rows[s] \in Row
  BY <1>1, OwnedFacts, BInvTyped DEF Typed
<1>3. QED
  BY <1>1, <1>2 DEF Row

LEMMA RescheduleRows ==
  ASSUME BInv, NEW t \in DOMAIN claims, NEW delay \in Delays, NEW failed \in BOOLEAN,
         Reschedule(t, delay, failed)
  PROVE  /\ BatchOwned(t) /\ UNCHANGED <<now, sequence, claims>>
         /\ DOMAIN rows' = DOMAIN rows
         /\ \A s \in DOMAIN rows \ claims[t].members : rows'[s] = rows[s]
         /\ \A s \in claims[t].members :
               /\ rows'[s].event = rows[s].event /\ rows'[s].status = rows[s].status
               /\ rows'[s].batch = rows[s].batch /\ rows'[s].token = 0
<1> DEFINE Changed(row) ==
             [WithoutClaim(row) EXCEPT
                 !.notBefore = now + delay,
                 !.failures  = IF failed THEN @ + 1 ELSE @,
                 !.deferrals = IF failed THEN @ ELSE @ + 1]
<1>1. BatchOwned(t) /\ UNCHANGED <<now, sequence, claims>>
  BY DEF Reschedule, Settle
<1>2. rows' = [s \in DOMAIN rows |->
                 IF s \in claims[t].members THEN Changed(rows[s]) ELSE rows[s]]
  BY DEF Reschedule, Settle, Updated
<1>3. ASSUME NEW row \in Row
      PROVE  /\ Changed(row).event = row.event /\ Changed(row).status = row.status
             /\ Changed(row).batch = row.batch /\ Changed(row).token = 0
  <2>1. PICK w \in Row : w = WithoutClaim(row)
    BY WithoutClaimFacts
  <2>2. w.event = row.event /\ w.status = row.status /\ w.batch = row.batch /\ w.token = 0
    BY <2>1, WithoutClaimFacts
  <2>3. Changed(row) = [w EXCEPT !.notBefore = now + delay,
                                 !.failures  = IF failed THEN w.failures + 1 ELSE w.failures,
                                 !.deferrals = IF failed THEN w.deferrals ELSE w.deferrals + 1]
    BY <2>1
  <2> HIDE DEF Changed
  <2>4. QED
    BY <2>2, <2>3 DEF Row
<1> HIDE DEF Changed
<1>4. claims[t].members \subseteq DOMAIN rows /\ \A s \in DOMAIN rows : rows[s] \in Row
  BY <1>1, OwnedFacts, BInvTyped DEF Typed
<1>5. QED
  BY <1>1, <1>2, <1>3, <1>4

LEMMA RenewLeaseBacklog ==
  ASSUME BInv, NEW t \in DOMAIN claims, RenewLease(t)
  PROVE  UNCHANGED <<sequence, Unsettled>>
<1>1. \A s \in DOMAIN rows : rows'[s].event = rows[s].event /\ rows'[s].status = rows[s].status
  BY RenewLeaseRows
<1>2. QED
  BY <1>1, RenewLeaseRows, KeptBacklog

LEMMA RescheduleBacklog ==
  ASSUME BInv, NEW t \in DOMAIN claims, NEW delay \in Delays, NEW failed \in BOOLEAN,
         Reschedule(t, delay, failed)
  PROVE  UNCHANGED <<sequence, Unsettled>>
<1>1. \A s \in DOMAIN rows : rows'[s].event = rows[s].event /\ rows'[s].status = rows[s].status
  BY RescheduleRows
<1>2. QED
  BY <1>1, RescheduleRows, KeptBacklog

\* The queue implements the backlog: every accepted event joins the end of its
\* channel's backlog, only a good claim takes events out, and those are the
\* first; whatever else happens to claims, leases and retries changes nothing.
THEOREM ImplementsBacklogHolds == Spec => ImplementsBacklog
<1>1. Init => Backlog!Init
  BY DEF Init, Unsettled, OfChannel, Live, Backlog!Init
<1>2. BInv /\ [Next]_vars => [Backlog!Next]_<<sequence, Unsettled>>
  <2>1. SUFFICES ASSUME BInv, [Next]_vars
                 PROVE  [Backlog!Next]_<<sequence, Unsettled>>
    OBVIOUS
  <2>2. CASE \E e \in Events : Enqueue(e)
    BY <2>1, <2>2, EnqueueBacklog
  <2>3. CASE Initialize
    BY <2>1, <2>3, InitializeBacklog
  <2>4. CASE NoBatch
    BY <2>1, <2>4, NoBatchBacklog
  <2>5. CASE NextBatch
    BY <2>1, <2>5, NextBatchBacklog
  <2>6. CASE \E t \in DOMAIN claims : RenewLease(t)
    BY <2>1, <2>6, RenewLeaseBacklog
  <2>7. CASE \E t \in DOMAIN claims : MarkProcessed(t)
    BY <2>1, <2>7, MarkProcessedBacklog
  <2>8. CASE \E t \in DOMAIN claims, delay \in Delays, failed \in BOOLEAN :
                Reschedule(t, delay, failed)
    BY <2>1, <2>8, RescheduleBacklog
  <2>9. CASE \E t \in DOMAIN claims : DeadLetter(t)
    BY <2>1, <2>9, DeadLetterBacklog
  <2>10. CASE UNCHANGED <<sequence, rows>>
    BY <2>1, <2>10, KeptBacklog
  <2>11. QED
    BY <2>1, <2>2, <2>3, <2>4, <2>5, <2>6, <2>7, <2>8, <2>9, <2>10 DEF Next, Tick, vars
<1>3. QED
  BY <1>1, <1>2, BatchesHold, PTL DEF Spec, ImplementsBacklog, Backlog!Spec

-------------------------------------------------------------------------------
(* A lease is respected                                                    *)

\* A good claim stays good when its rows keep its token and no row joins them.
LEMMA OwnedKept ==
  ASSUME BInv, NEW t \in DOMAIN claims, BatchOwned(t), UNCHANGED now, claims'[t] = claims[t],
         \A s \in claims[t].members :
             /\ s \in DOMAIN rows'
             /\ rows'[s].batch = rows[s].batch /\ rows'[s].status = rows[s].status
             /\ rows'[s].token = rows[s].token /\ rows'[s].leaseUntil > now,
         \A s \in DOMAIN rows' \ claims[t].members : rows'[s].batch # claims[t].batch
  PROVE  BatchOwned(t)'
<1>1. /\ claims[t].members = {u \in DOMAIN rows : rows[u].batch = claims[t].batch}
      /\ \A s \in claims[t].members : rows[s].status = "live" /\ rows[s].token = t
  BY OwnedFacts
<1>2. Members(rows', claims'[t].batch) = claims'[t].members
  BY <1>1 DEF Members, Live
<1>3. /\ Cardinality(Members(rows', claims'[t].batch)) = Cardinality(claims'[t].members)
      /\ \A s \in claims'[t].members : /\ s \in Members(rows', claims'[t].batch)
                                       /\ rows'[s].token = t
                                       /\ rows'[s].leaseUntil > now'
  BY <1>1, <1>2
<1>4. QED
  BY <1>3 DEF BatchOwned, Members, Live

\* What another claim does to its own batch leaves a good one alone.
LEMMA OwnedApart ==
  ASSUME BInv, NEW t \in DOMAIN claims, NEW u \in DOMAIN claims, t # u,
         BatchOwned(t), BatchOwned(u), UNCHANGED <<now, claims>>,
         DOMAIN rows' = DOMAIN rows,
         \A s \in DOMAIN rows \ claims[u].members : rows'[s] = rows[s],
         \A s \in claims[u].members : rows'[s].batch = rows[s].batch
  PROVE  BatchOwned(t)'
<1>1. /\ claims[t].members = {s \in DOMAIN rows : rows[s].batch = claims[t].batch}
      /\ \A s \in claims[t].members : rows[s].token = t /\ rows[s].leaseUntil > now
  BY OwnedFacts
<1>2. claims[u].members \subseteq DOMAIN rows /\ \A s \in claims[u].members : rows[s].token = u
  BY OwnedFacts
<1>3. \A s \in claims[t].members : s \notin claims[u].members /\ rows'[s] = rows[s]
  BY <1>1, <1>2
<1>4. \A s \in DOMAIN rows : rows'[s].batch = rows[s].batch
  BY <1>2
<1>5. QED
  BY <1>1, <1>3, <1>4, OwnedKept

LEMMA NextBatchRespects ==
  ASSUME BInv, NEW t \in DOMAIN claims, BatchOwned(t), NextBatch
  PROVE  BatchOwned(t)'
<1> DEFINE m == claims[t].members
           b == claims[t].batch
<1>1. PICK table, chosen, batch, n :
         /\ table = Unclaimed(rows) /\ chosen = Selected(table) /\ chosen # {}
         /\ batch = BatchId(table, chosen)
         /\ chosen \subseteq {s \in Live(table) : table[s].token = 0}
         /\ DOMAIN rows' = DOMAIN rows
         /\ \A s \in DOMAIN rows \ chosen : rows'[s] = table[s]
         /\ \A s \in DOMAIN rows \intersect chosen : rows'[s].batch = batch
         /\ \A u \in DOMAIN claims : u \in DOMAIN claims' /\ claims'[u] = claims[u]
         /\ UNCHANGED now
  BY NextBatchRows
<1>2. /\ m = {u \in DOMAIN rows : rows[u].batch = b} /\ m # {}
      /\ m = b \intersect DOMAIN rows
      /\ \A s \in m : rows[s].token = t /\ rows[s].leaseUntil > now
  BY OwnedFacts
<1>3. t # 0 /\ now \in Nat /\ \A s \in DOMAIN rows : rows[s].leaseUntil \in Nat
  BY BInvTyped DEF Typed, Row
<1>4. /\ DOMAIN table = DOMAIN rows /\ DOMAIN table \subseteq Nat
      /\ chosen \subseteq DOMAIN rows
      /\ \A s \in DOMAIN rows : table[s].batch = rows[s].batch
  BY <1>1, UnclaimedTable
<1>5. ASSUME NEW s \in m
      PROVE  s \notin chosen /\ rows'[s] = rows[s]
  <2>1. ~Lapsed(rows[s])
    BY <1>2, <1>3 DEF Lapsed
  <2>2. table[s] = rows[s]
    BY <1>1, <1>2, <2>1, BInvTyped, UnclaimedRows
  <2>3. s \notin chosen
    BY <1>1, <1>2, <1>3, <2>2
  <2>4. QED
    BY <1>1, <1>2, <2>2, <2>3
<1>6. batch # b
  <2>1. Min(chosen) \in chosen
    BY <1>1, <1>4, MinFacts
  <2>2. table[Min(chosen)].batch # b
    BY <1>2, <1>4, <1>5, <2>1
  <2>3. chosen # b
    BY <1>2, <1>5
  <2>4. QED
    BY <1>1, <2>2, <2>3 DEF BatchId
<1>7. \A s \in DOMAIN rows' \ m : rows'[s].batch # b
  BY <1>1, <1>2, <1>4, <1>6
<1>8. QED
  BY <1>1, <1>2, <1>5, <1>7, OwnedKept

\* Nobody takes a batch from a worker whose lease runs: a claim that is good
\* stays good until its own worker settles or gives up the batch, or time passes.
THEOREM LeaseRespectedHolds == Spec => LeaseRespected
<1>1. BInv /\ [Next]_vars =>
        [\A t \in DOMAIN claims :
            BatchOwned(t) /\ now' = now /\ ~BatchOwned(t)'
                => \A s \in claims[t].members : rows'[s].token = 0]_vars
  <2>1. SUFFICES ASSUME BInv, [Next]_vars, NEW t \in DOMAIN claims,
                        BatchOwned(t), now' = now, ~BatchOwned(t)'
                 PROVE  \A s \in claims[t].members : rows'[s].token = 0
    OBVIOUS
  <2> DEFINE m == claims[t].members
  <2>2. /\ m = {s \in DOMAIN rows : rows[s].batch = claims[t].batch}
        /\ claims[t].batch # {}
        /\ \A s \in m : rows[s].status = "live" /\ rows[s].token = t /\ rows[s].leaseUntil > now
    BY <2>1, OwnedFacts
  <2>3. ASSUME NEW e \in Events, Enqueue(e)
        PROVE  FALSE
    <3> DEFINE kept == Retained(rows)
               k == sequence + 1
    <3>1. /\ rows' = [s \in DOMAIN kept \union {k} |->
                        IF s \in DOMAIN kept THEN kept[s] ELSE NewRow(e)]
          /\ UNCHANGED claims
      BY <2>3 DEF Enqueue
    <3>2. /\ DOMAIN kept \subseteq DOMAIN rows /\ k \notin DOMAIN rows
          /\ \A s \in DOMAIN kept : kept[s] = rows[s]
          /\ \A s \in m : s \in DOMAIN kept
      BY <2>1, <2>2, BInvTyped DEF Retained
    <3>3. NewRow(e).batch = {}
      BY DEF NewRow
    <3> HIDE DEF kept, k
    <3>4. /\ \A s \in m : s \in DOMAIN rows' /\ rows'[s] = rows[s]
          /\ \A s \in DOMAIN rows' \ m : rows'[s].batch # claims[t].batch
      BY <2>2, <3>1, <3>2, <3>3
    <3>5. QED
      BY <2>1, <2>2, <3>1, <3>4, OwnedKept
  <2>4. ASSUME Initialize
        PROVE  FALSE
    <3>1. rows' = Retained(rows) /\ UNCHANGED claims
      BY <2>4 DEF Initialize
    <3>2. /\ \A s \in m : s \in DOMAIN rows' /\ rows'[s] = rows[s]
          /\ \A s \in DOMAIN rows' \ m : rows'[s].batch # claims[t].batch
      BY <2>2, <3>1 DEF Retained
    <3>3. QED
      BY <2>1, <2>2, <3>1, <3>2, OwnedKept
  <2>5. ASSUME NoBatch
        PROVE  FALSE
    <3>1. rows' = Unclaimed(rows) /\ UNCHANGED claims
      BY <2>5 DEF NoBatch
    <3>2. now \in Nat /\ \A s \in DOMAIN rows : rows[s].leaseUntil \in Nat
      BY <2>1, BInvTyped DEF Typed, Row
    <3>3. \A s \in m : s \in DOMAIN rows' /\ rows'[s] = rows[s]
      BY <2>1, <2>2, <3>1, <3>2, BInvTyped, UnclaimedRows DEF Lapsed
    <3>4. \A s \in DOMAIN rows' \ m : rows'[s].batch # claims[t].batch
      BY <2>1, <2>2, <3>1, BInvTyped, UnclaimedRows, UnclaimedFields
    <3>5. QED
      BY <2>1, <2>2, <3>1, <3>3, <3>4, OwnedKept
  <2>6. ASSUME NEW u \in DOMAIN claims, RenewLease(u)
        PROVE  FALSE
    <3>1. /\ BatchOwned(u) /\ UNCHANGED <<now, claims>> /\ DOMAIN rows' = DOMAIN rows
          /\ \A s \in DOMAIN rows \ claims[u].members : rows'[s] = rows[s]
          /\ \A s \in claims[u].members :
                /\ rows'[s].batch = rows[s].batch /\ rows'[s].status = rows[s].status
                /\ rows'[s].token = rows[s].token /\ rows'[s].leaseUntil = now + Lease
      BY <2>1, <2>6, RenewLeaseRows
    <3>2. t = u
      BY <2>1, <3>1, OwnedApart
    <3>3. now + Lease > now
      BY <2>1, QueueAssumption, BInvTyped
    <3>4. /\ \A s \in m : /\ s \in DOMAIN rows'
                          /\ rows'[s].batch = rows[s].batch /\ rows'[s].status = rows[s].status
                          /\ rows'[s].token = rows[s].token /\ rows'[s].leaseUntil > now
          /\ \A s \in DOMAIN rows' \ m : rows'[s].batch # claims[t].batch
      BY <2>2, <3>1, <3>2, <3>3
    <3>5. QED
      BY <2>1, <3>1, <3>4, OwnedKept
  <2>7. ASSUME NEW u \in DOMAIN claims, MarkProcessed(u)
        PROVE  \A s \in m : rows'[s].token = 0
    BY <2>1, <2>7, MarkProcessedRows, OwnedApart
  <2>8. ASSUME NEW u \in DOMAIN claims, NEW delay \in Delays, NEW failed \in BOOLEAN,
               Reschedule(u, delay, failed)
        PROVE  \A s \in m : rows'[s].token = 0
    BY <2>1, <2>8, RescheduleRows, OwnedApart
  <2>9. ASSUME NEW u \in DOMAIN claims, DeadLetter(u)
        PROVE  \A s \in m : rows'[s].token = 0
    BY <2>1, <2>9, DeadLetterRows, OwnedApart
  <2>10. ~NextBatch
    BY <2>1, NextBatchRespects
  <2>11. ~Tick
    BY <2>1, BInvTyped DEF Tick
  <2>12. CASE UNCHANGED vars
    BY <2>1, <2>12 DEF vars, BatchOwned, Members, Live
  <2>13. QED
    BY <2>1, <2>3, <2>4, <2>5, <2>6, <2>7, <2>8, <2>9, <2>10, <2>11, <2>12 DEF Next
<1>2. QED
  BY <1>1, BatchesHold, PTL DEF Spec, LeaseRespected

-------------------------------------------------------------------------------
(* The timer and the claim agree                                           *)

LEMMA GreatestOf ==
  ASSUME NEW M, IsFiniteSet(M), M # {}, NEW f \in [M -> Nat]
  PROVE  \E s \in M : \A u \in M : f[u] <= f[s]
<1> DEFINE Top(X) == \E s \in X : \A u \in X : f[u] <= f[s]
           Bad == {k \in Nat : \E X \in SUBSET M : X # {} /\ Cardinality(X) = k /\ ~Top(X)}
<1>1. SUFFICES ASSUME ~Top(M) PROVE FALSE
  OBVIOUS
<1>2. Bad \subseteq Nat /\ Cardinality(M) \in Bad
  BY <1>1, FS_CardinalityType
<1>3. PICK k \in Bad : \A j \in Bad : k <= j
  <2> HIDE DEF Bad
  <2>1. QED
    BY <1>2, LeastNatural
<1>4. PICK X \in SUBSET M : X # {} /\ Cardinality(X) = k /\ ~Top(X)
  OBVIOUS
<1>5. PICK x \in X : TRUE
  BY <1>4
<1>6. IsFiniteSet(X)
  BY <1>4, FS_Subset
<1>7. IsFiniteSet(X \ {x}) /\ Cardinality(X \ {x}) = k - 1
  BY <1>4, <1>5, <1>6, FS_RemoveElement
<1>8. Cardinality(X \ {x}) \in Nat /\ k \in Nat
  BY <1>2, <1>7, FS_CardinalityType
<1>9. X \ {x} = {} \/ Top(X \ {x})
  <2>1. ~(k <= k - 1)
    BY <1>8
  <2>2. Cardinality(X \ {x}) \notin Bad
    BY <1>3, <1>7, <2>1
  <2>3. QED
    BY <1>8, <2>2
<1>10. CASE X \ {x} = {}
  <2>1. \A u \in X : u = x
    BY <1>10
  <2>2. f[x] <= f[x]
    BY <1>5
  <2>3. QED
    BY <1>4, <1>5, <2>1, <2>2
<1>11. CASE Top(X \ {x})
  <2>1. PICK s \in X \ {x} : \A u \in X \ {x} : f[u] <= f[s]
    BY <1>11
  <2>2. \A u \in X : f[u] \in Nat
    OBVIOUS
  <2>3. CASE f[x] <= f[s]
    <3>1. \A u \in X : f[u] <= f[s]
      BY <2>1, <2>3
    <3>2. QED
      BY <1>4, <2>1, <3>1
  <2>4. CASE ~(f[x] <= f[s])
    <3>1. \A u \in X : f[u] <= f[x]
      BY <1>5, <2>1, <2>2, <2>4
    <3>2. QED
      BY <1>4, <1>5, <3>1
  <2>5. QED
    BY <2>3, <2>4
<1>12. QED
  BY <1>9, <1>10, <1>11

\* A greatest number is within a limit when all are.
LEMMA MaxWithin ==
  ASSUME NEW M, IsFiniteSet(M), M # {}, NEW f \in [M -> Nat], NEW limit \in Nat
  PROVE  Max({f[s] : s \in M}) <= limit <=> \A s \in M : f[s] <= limit
<1> DEFINE S == {f[s] : s \in M}
<1>1. PICK s \in M : \A u \in M : f[u] <= f[s]
  BY GreatestOf
<1>2. f[s] \in S /\ \A y \in S : f[s] >= y
  BY <1>1
<1>3. Max(S) \in S /\ \A y \in S : Max(S) >= y
  BY <1>2 DEF Max
<1>4. PICK top \in M : Max(S) = f[top]
  BY <1>3
<1>5. \A u \in M : f[u] <= f[top]
  BY <1>3, <1>4
<1>6. QED
  BY <1>4, <1>5

\* The rows that lapsed claims leave behind are where they were.
LEMMA UnclaimedSame ==
  ASSUME BInv, NEW table, table = Unclaimed(rows)
  PROVE  /\ Live(table) = Live(rows) /\ Batches(table) = Batches(rows)
         /\ Blocked(table) = Blocked(rows)
         /\ \A b : Members(table, b) = Members(rows, b)
         /\ \A c : /\ Waiting(table, c) = Waiting(rows, c)
                   /\ \A s \in Waiting(rows, c) : table[s] = rows[s]
<1>1. DOMAIN table = DOMAIN rows
  BY BInvTyped, UnclaimedRows
<1>2. ASSUME NEW s \in DOMAIN rows
      PROVE  /\ table[s].event = rows[s].event /\ table[s].batch = rows[s].batch
             /\ table[s].status = rows[s].status
  BY <1>2, BInvTyped, UnclaimedFields
<1>3. ASSUME NEW s \in DOMAIN rows, rows[s].batch = {}
      PROVE  table[s] = rows[s] /\ rows[s].token = 0
  <2>1. rows[s].token = 0
    BY <1>3 DEF BInv, Sound, Unmarked
  <2>2. QED
    BY <2>1, BInvTyped, UnclaimedRows DEF Lapsed
<1>4. Live(table) = Live(rows) /\ Live(rows) \subseteq DOMAIN rows
  BY <1>1, <1>2 DEF Live
<1>5. \A s \in Live(rows) : Channel(table, s) = Channel(rows, s)
  BY <1>2, <1>4 DEF Channel
<1>6. Batches(table) = Batches(rows)
  BY <1>2, <1>4 DEF Batches
<1>7. Blocked(table) = Blocked(rows)
  BY <1>2, <1>4, <1>5 DEF Blocked
<1>8. ASSUME NEW b PROVE Members(table, b) = Members(rows, b)
  BY <1>2, <1>4 DEF Members
<1>9. ASSUME NEW c
      PROVE  /\ Waiting(table, c) = Waiting(rows, c)
             /\ \A s \in Waiting(rows, c) : table[s] = rows[s]
  BY <1>2, <1>3, <1>4, <1>5 DEF Waiting
<1>10. QED
  BY <1>4, <1>6, <1>7, <1>8, <1>9

\* When a batch has something to hand out: its leases end, or its retry comes.
BatchTime(table, b, s) ==
    IF \E u \in Members(table, b) : table[u].token # 0
    THEN table[s].leaseUntil ELSE table[s].notBefore

LEMMA BatchTimeFacts ==
  ASSUME BInv, NEW b \in Batches(rows)
  PROVE  Max({BatchTime(rows, b, s) : s \in Members(rows, b)}) <= now
           <=> b \in RetryBatches(Unclaimed(rows))
<1> DEFINE M == Members(rows, b)
           table == Unclaimed(rows)
<1>1. PICK first \in Live(rows) : rows[first].batch = b /\ b # {}
  BY DEF Batches
<1>2. /\ M # {} /\ M \subseteq DOMAIN rows /\ IsFiniteSet(M)
      /\ \A s \in M : rows[s] \in Row /\ rows[s].status = "live"
      /\ \A s \in M : Alike(rows[s], rows[first])
  BY <1>1, BInvTyped, MembersFacts DEF Members, Live, Typed
<1>3. \A s \in M : rows[s].token = rows[first].token /\ rows[s].leaseUntil = rows[first].leaseUntil
  BY <1>2 DEF Alike
<1>4. PICK f : f = [s \in M |-> BatchTime(rows, b, s)]
  OBVIOUS
<1>5. f \in [M -> Nat]
  BY <1>2, <1>4 DEF Row, BatchTime
<1>6. /\ {BatchTime(rows, b, s) : s \in M} = {f[s] : s \in M}
      /\ \A s \in M : f[s] = BatchTime(rows, b, s)
  BY <1>4
<1>7. now \in Nat
  BY BInvTyped
<1>8. Max({f[s] : s \in M}) <= now <=> \A s \in M : f[s] <= now
  BY <1>2, <1>5, <1>7, MaxWithin
<1>9. b \in RetryBatches(table) <=>
        \A s \in M : table[s].token = 0 /\ table[s].notBefore <= now
  BY UnclaimedSame DEF RetryBatches
<1>10. ASSUME NEW s \in M
       PROVE  /\ table[s].notBefore = rows[s].notBefore
              /\ table[s].token = 0 <=> (rows[s].token = 0 \/ rows[s].leaseUntil <= now)
              /\ rows[s].token # 0 => rows[s].notBefore <= now
  <2>1. s \in DOMAIN rows /\ rows[s].status = "live"
    BY <1>2
  <2>2. Typed(rows) /\ Timely(rows)
    BY BInvTyped DEF BInv, Sound
  <2>3. QED
    BY <2>1, <2>2, UnclaimedFields DEF Lapsed, Timely
<1> HIDE DEF M, table
<1>11. (\A s \in M : f[s] <= now) <=> \A s \in M : table[s].token = 0 /\ table[s].notBefore <= now
  <2>1. CASE rows[first].token # 0
    <3>1. \A s \in M : f[s] = rows[s].leaseUntil
      BY <1>2, <1>3, <1>6, <2>1 DEF BatchTime, M
    <3>2. QED
      BY <1>3, <1>10, <2>1, <3>1
  <2>2. CASE rows[first].token = 0
    <3>1. \A s \in M : f[s] = rows[s].notBefore
      BY <1>3, <1>6, <2>2 DEF BatchTime, M
    <3>2. QED
      BY <1>3, <1>10, <2>2, <3>1
  <2>3. QED
    BY <2>1, <2>2
<1>12. QED
  BY <1>6, <1>8, <1>9, <1>11 DEF M, table

\* The timer of the consumer is due exactly when a claim would hand something
\* out: no ready event is slept over and the consumer does not spin.
THEOREM TimerAgreesWithClaimHolds == Spec => []TimerAgreesWithClaim
<1>1. BInv => TimerAgreesWithClaim
  <2>1. SUFFICES ASSUME BInv
                 PROVE  Selected(Unclaimed(rows)) # {} <=> \E r \in ReadyTimes(rows) : r <= now
    BY DEF TimerAgreesWithClaim
  <2>2. PICK table : table = Unclaimed(rows)
    OBVIOUS
  <2>3. /\ Typed(table) /\ Sound(table)
        /\ \A S \in SUBSET DOMAIN table : IsFiniteSet(S)
    BY <2>1, <2>2, UnclaimedTable
  <2>4. Selected(table) # {} <=> RetryBatches(table) # {} \/ RipeChannels(table) # {}
    <3>1. \A b \in RetryBatches(table) : Members(table, b) # {}
      BY DEF RetryBatches, Batches, Members
    <3>2. \A c \in RipeChannels(table) : Candidates(table, c) # {}
      BY <2>3, CandidatesFacts
    <3>3. QED
      BY <2>3, <3>1, <3>2, SelectedShape
  <2>5. RetryBatches(table) # {} <=>
          \E b \in Batches(rows) :
              Max({BatchTime(rows, b, s) : s \in Members(rows, b)}) <= now
    <3>1. RetryBatches(table) \subseteq Batches(rows)
      BY <2>1, <2>2, UnclaimedSame DEF RetryBatches
    <3>2. QED
      BY <2>1, <2>2, <3>1, BatchTimeFacts
  <2>6. RipeChannels(table) # {} <=>
          \E c \in {d \in Channels \ Blocked(rows) : Waiting(rows, d) # {}} :
              rows[Min(Waiting(rows, c))].enqueuedAt + Debounce <= now
    <3>1. /\ Blocked(table) = Blocked(rows)
          /\ \A c \in Channels : /\ Waiting(table, c) = Waiting(rows, c)
                                 /\ \A s \in Waiting(rows, c) : table[s] = rows[s]
      BY <2>1, <2>2, UnclaimedSame
    <3>2. ASSUME NEW c \in Channels, Waiting(rows, c) # {}
          PROVE  Deadline(table, c) = rows[Min(Waiting(rows, c))].enqueuedAt + Debounce
      <4>1. Waiting(rows, c) \subseteq Nat
        BY <2>1, BInvTyped DEF Waiting, Live
      <4>2. Min(Waiting(rows, c)) \in Waiting(rows, c)
        BY <3>2, <4>1, MinFacts
      <4>3. QED
        BY <3>1, <4>2 DEF Deadline
    <3>3. QED
      BY <3>1, <3>2 DEF RipeChannels
  <2>7. ReadyTimes(rows) =
          {Max({BatchTime(rows, b, s) : s \in Members(rows, b)}) : b \in Batches(rows)}
          \union
          {rows[Min(Waiting(rows, c))].enqueuedAt + Debounce :
              c \in {d \in Channels \ Blocked(rows) : Waiting(rows, d) # {}}}
    BY DEF ReadyTimes, BatchTime
  <2>8. QED
    BY <2>2, <2>4, <2>5, <2>6, <2>7
<1>2. QED
  BY <1>1, BatchesHold, PTL

===============================================================================
