----------------------------- MODULE AgentProofs -----------------------------
(***************************************************************************)
(* Proofs about AgentAdmission, for any finite set of turns and any        *)
(* limits: the inductive invariant behind the exact counters, the capacity *)
(* limits, one turn per workspace and the notifications.                   *)
(*                                                                         *)
(* Proofs about AgentTurn, for any mentions, events, attempts and lives:   *)
(* the ledger of external effects tells the truth, the calls implement     *)
(* WriteBarrier, and neither a retry nor a recovery repeats a write its    *)
(* attempt had counted.                                                    *)
(***************************************************************************)
EXTENDS AgentAdmission, AgentTurn, FiniteSetTheorems, TLAPS

Typed ==
    /\ phase \in [Turns -> Phases]
    /\ held \in [Turns -> SUBSET Reservations]
    /\ slotOf \in [Turns -> Slots \union {None}]
    /\ lockQueue \in Seq(Turns)
    /\ registry \in [Workspaces -> Slots \union {None}]
    /\ references \in [Workspaces -> Int]
    /\ value \in [Slots -> Int]
    /\ line \in [Slots -> Seq(Turns)]
    /\ waiters \in [Workspaces -> Int]
    /\ pending \in Int
    /\ pendingBy \in [Actors -> Int]
    /\ ready \in Int
    /\ active \in Int
    /\ activeSlots \in Int

\* What a turn has reserved follows from where it is.
Running == {"reference", "slot", "active"}
Waiting == {"reference", "pending", "waiter"}
Seated == {"reference", "pending", "waiter", "slot"}
Dozing == {"reference", "pending", "slot", "ready"}

Fits(p, reserved) ==
    /\ p \in {"new", "asked", "over"} => reserved = {}
    /\ p \in {"starting", "active", "releasing"} => reserved = Running
    /\ p \in {"queueing", "queued", "blocked", "granted"} => reserved = Waiting
    /\ p = "ready" => reserved = Seated
    /\ p \in {"asleep", "notified", "woken"} => reserved = Dozing
    /\ p = "failing" => reserved \in {{}, Running, Waiting, Seated, Dozing}

HeldByPhase == \A t \in Turns : Fits(phase[t], held[t])

\* The line of a semaphore lists turns that wait for it, each once.
LineExact ==
    \A s \in Slots :
        /\ \A i \in DOMAIN line[s] :
            phase[line[s][i]] = "blocked" /\ slotOf[line[s][i]] = s
        /\ \A i, j \in DOMAIN line[s] : line[s][i] = line[s][j] => i = j

\* A turn with a reference has the semaphore of its workspace, and no two
\* workspaces share one.
Registered ==
    /\ \A t \in Turns :
        IF "reference" \in held[t]
        THEN slotOf[t] \in Slots /\ registry[WorkspaceOf[t]] = slotOf[t]
        ELSE slotOf[t] = None
    /\ \A v, w \in Workspaces : registry[v] = registry[w] /\ registry[v] # None => v = w
    /\ \A w \in Workspaces : registry[w] # None => references[w] > 0

\* A semaphore that somebody took, or was handed, is taken by one turn and has
\* counter 0.
Owns(t) == "slot" \in held[t] \/ phase[t] = "granted"

Owned ==
    /\ \A s \in Slots : value[s] \in {0, 1}
    /\ \A t \in Turns : Owns(t) => value[slotOf[t]] = 0
    /\ \A t, u \in Turns : Owns(t) /\ Owns(u) /\ slotOf[t] = slotOf[u] => t = u

\* The counters count reservations.
Count(P, r) == Cardinality({u \in P : r \in held[u]})

OfActor(a) == {u \in Turns : ActorOf[u] = a}

OfWorkspace(w) == {u \in Turns : WorkspaceOf[u] = w}

Counted ==
    /\ active = Count(Turns, "active")
    /\ pending = Count(Turns, "pending")
    /\ ready = Count(Turns, "ready")
    /\ \A a \in Actors : pendingBy[a] = Count(OfActor(a), "pending")
    /\ \A w \in Workspaces : waiters[w] = Count(OfWorkspace(w), "waiter")
    /\ \A w \in Workspaces : references[w] = Count(OfWorkspace(w), "reference")

\* What the guards of admission keep up.
Limited ==
    /\ activeSlots = MaxActive - active
    /\ active <= MaxActive
    /\ pending <= MaxPending
    /\ \A a \in Actors : pendingBy[a] <= MaxPendingPerUser
    /\ Count(Autonomous, "active") <= MaxActive - Reserved(MaxActive)
    /\ Count(Autonomous, "pending") <= MaxPending - Reserved(MaxPending)

IInv ==
    /\ Typed /\ HeldByPhase /\ LineExact /\ Registered /\ Owned
    /\ Counted /\ Limited /\ NoLostNotification

-------------------------------------------------------------------------------
(* Queues                                                                  *)

\* Taking a turn out of a queue leaves a queue of the others, each as often as
\* before.
LEMMA WithoutFacts ==
  ASSUME NEW q \in Seq(Turns), NEW t \in Turns
  PROVE  /\ Without(q, t) \in Seq(Turns)
         /\ (\A i, j \in DOMAIN q : q[i] = q[j] => i = j) =>
              /\ \A i \in DOMAIN Without(q, t) :
                    Without(q, t)[i] # t /\ \E j \in DOMAIN q : q[j] = Without(q, t)[i]
              /\ \A i, j \in DOMAIN Without(q, t) :
                    Without(q, t)[i] = Without(q, t)[j] => i = j
<1>1. CASE \E i \in DOMAIN q : q[i] = t
  <2> DEFINE at == CHOOSE i \in DOMAIN q : q[i] = t
             r == [j \in 1 .. Len(q) - 1 |-> q[IF j < at THEN j ELSE j + 1]]
  <2>1. at \in 1 .. Len(q) /\ q[at] = t
    BY <1>1
  <2>2. Without(q, t) = r
    BY <1>1 DEF Without
  <2> HIDE DEF at
  <2>3. r \in Seq(Turns) /\ Len(r) = Len(q) - 1 /\ DOMAIN r = 1 .. Len(q) - 1
    BY <2>1
  <2>4. ASSUME \A i, j \in DOMAIN q : q[i] = q[j] => i = j
        PROVE  /\ \A i \in DOMAIN r : r[i] # t /\ \E j \in DOMAIN q : q[j] = r[i]
               /\ \A i, j \in DOMAIN r : r[i] = r[j] => i = j
    BY <2>1, <2>3, <2>4
  <2> HIDE DEF r
  <2>5. QED
    BY <2>2, <2>3, <2>4
<1>2. CASE ~\E i \in DOMAIN q : q[i] = t
  <2>1. Without(q, t) = q
    BY <1>2 DEF Without
  <2>2. QED
    BY <1>2, <2>1
<1>3. QED
  BY <1>1, <1>2

LEMMA RequeuedType ==
  ASSUME Typed, NEW t \in Turns
  PROVE  Requeued(t) \in Seq(Turns)
BY WithoutFacts DEF Typed, Requeued

\* Handing a semaphore on: the first of its line, who was blocked, leaves it.
LEMMA HandOver ==
  ASSUME IInv, NEW s \in Slots
  PROVE  /\ LineReleased(s) \in [Slots -> Seq(Turns)]
         /\ \A z \in Slots :
              /\ \A i \in DOMAIN LineReleased(s)[z] :
                   \E j \in DOMAIN line[z] :
                     LineReleased(s)[z][i] = line[z][j] /\ ~NextInLine(s, line[z][j])
              /\ \A i, j \in DOMAIN LineReleased(s)[z] :
                   LineReleased(s)[z][i] = LineReleased(s)[z][j] => i = j
         /\ \A u \in Turns : NextInLine(s, u) => phase[u] = "blocked" /\ slotOf[u] = s
<1> USE DEF IInv
<1>1. line[s] \in Seq(Turns)
  BY DEF Typed
<1>2. CASE line[s] = <<>>
  <2>1. LineReleased(s) = line
    BY <1>2 DEF LineReleased, Typed
  <2>2. QED
    BY <1>2, <2>1 DEF NextInLine, Typed, LineExact
<1>3. CASE line[s] # <<>>
  <2>1. LineReleased(s) = [line EXCEPT ![s] = Tail(line[s])]
    BY <1>3 DEF LineReleased, Typed
  <2>2. /\ Tail(line[s]) \in Seq(Turns)
        /\ DOMAIN Tail(line[s]) = 1 .. Len(line[s]) - 1
        /\ \A i \in 1 .. Len(line[s]) - 1 : Tail(line[s])[i] = line[s][i + 1]
        /\ Head(line[s]) = line[s][1] /\ 1 \in DOMAIN line[s]
    BY <1>1, <1>3
  <2>3. LineReleased(s) \in [Slots -> Seq(Turns)]
    BY <2>1, <2>2 DEF Typed
  <2>4. \A u \in Turns : NextInLine(s, u) <=> u = line[s][1]
    BY <1>3, <2>2 DEF NextInLine
  <2>5. \A u \in Turns : NextInLine(s, u) => phase[u] = "blocked" /\ slotOf[u] = s
    BY <2>2, <2>4 DEF LineExact
  <2>6. ASSUME NEW z \in Slots
        PROVE  /\ \A i \in DOMAIN LineReleased(s)[z] :
                    \E j \in DOMAIN line[z] :
                      LineReleased(s)[z][i] = line[z][j] /\ ~NextInLine(s, line[z][j])
               /\ \A i, j \in DOMAIN LineReleased(s)[z] :
                    LineReleased(s)[z][i] = LineReleased(s)[z][j] => i = j
    <3>1. CASE z = s
      <4>1. LineReleased(s)[z] = Tail(line[s])
        BY <2>1, <3>1 DEF Typed
      <4>2. \A i, j \in DOMAIN line[s] : line[s][i] = line[s][j] => i = j
        BY DEF LineExact
      <4>3. \A i \in DOMAIN line[s] : line[s][i] \in Turns
        BY <1>1
      <4>4. ASSUME NEW i \in 1 .. Len(line[s]) - 1
            PROVE  /\ i + 1 \in DOMAIN line[s]
                   /\ Tail(line[s])[i] = line[s][i + 1]
                   /\ ~NextInLine(s, line[s][i + 1])
        BY <1>1, <2>2, <2>4, <4>2, <4>3
      <4>5. ASSUME NEW i \in 1 .. Len(line[s]) - 1, NEW j \in 1 .. Len(line[s]) - 1,
                   Tail(line[s])[i] = Tail(line[s])[j]
            PROVE  i = j
        <5>1. /\ i + 1 \in DOMAIN line[s] /\ Tail(line[s])[i] = line[s][i + 1]
              /\ j + 1 \in DOMAIN line[s] /\ Tail(line[s])[j] = line[s][j + 1]
          BY <4>4
        <5>2. i + 1 = j + 1
          BY ONLY <5>1, <4>2, <4>5
        <5>3. QED
          BY <5>2
      <4>6. DOMAIN LineReleased(s)[z] = 1 .. Len(line[s]) - 1
        BY <2>2, <4>1
      <4>7. ASSUME NEW i \in DOMAIN LineReleased(s)[z]
            PROVE  \E j \in DOMAIN line[z] :
                     LineReleased(s)[z][i] = line[z][j] /\ ~NextInLine(s, line[z][j])
        <5>1. i \in 1 .. Len(line[s]) - 1
          BY <4>6
        <5>2. i + 1 \in DOMAIN line[z] /\ LineReleased(s)[z][i] = line[z][i + 1]
              /\ ~NextInLine(s, line[z][i + 1])
          BY <3>1, <4>1, <4>4, <5>1
        <5>3. QED
          BY <5>2
      <4>8. \A i, j \in DOMAIN LineReleased(s)[z] :
              LineReleased(s)[z][i] = LineReleased(s)[z][j] => i = j
        BY <4>1, <4>5, <4>6
      <4>9. QED
        BY <4>7, <4>8
    <3>2. CASE z # s
      <4>1. LineReleased(s)[z] = line[z]
        BY <2>1, <3>2 DEF Typed
      <4>2. \A i \in DOMAIN line[z] : line[z][i] \in Turns /\ slotOf[line[z][i]] = z
        BY DEF LineExact, Typed
      <4>3. \A i \in DOMAIN line[z] : ~NextInLine(s, line[z][i])
        BY <2>5, <3>2, <4>2
      <4>4. QED
        BY <4>1, <4>3 DEF LineExact
    <3>3. QED
      BY <3>1, <3>2
  <2>7. QED
    BY <2>3, <2>5, <2>6
<1>4. QED
  BY <1>2, <1>3

-------------------------------------------------------------------------------
(* Counting                                                                *)

LEMMA CountType ==
  ASSUME NEW P \in SUBSET Turns, NEW r
  PROVE  Count(P, r) \in Nat
<1>1. IsFiniteSet({u \in P : r \in held[u]})
  BY FS_Subset, TurnsAssumption
<1>2. QED
  BY <1>1, FS_CardinalityType DEF Count

\* When only t's reservations change, a count moves by what t gained or lost.
LEMMA CountDelta ==
  ASSUME Typed, Typed', NEW t \in Turns,
         \A u \in Turns \ {t} : held'[u] = held[u],
         NEW P \in SUBSET Turns, NEW r
  PROVE  /\ Count(P, r) \in Nat
         /\ Count(P, r)' =
              IF t \notin P THEN Count(P, r)
              ELSE Count(P, r) + Has(t, r)' - Has(t, r)
<1> DEFINE S == {u \in P : r \in held[u]}
           T == {u \in P : r \in held'[u]}
<1>1. IsFiniteSet(S) /\ IsFiniteSet(T)
  BY FS_Subset, TurnsAssumption
<1>2. Cardinality(S) \in Nat /\ Cardinality(T) \in Nat
  BY <1>1, FS_CardinalityType
<1>3. Count(P, r) = Cardinality(S) /\ Count(P, r)' = Cardinality(T)
  BY DEF Count
<1>4. CASE t \notin P
  <2>1. T = S
    BY <1>4
  <2>2. QED
    BY <1>2, <1>3, <1>4, <2>1
<1>5. CASE t \in P
  <2>1. CASE r \in held[t] /\ r \in held'[t]
    <3>1. T = S
      BY <2>1
    <3>2. Has(t, r) = 1 /\ Has(t, r)' = 1
      BY <2>1 DEF Has
    <3>3. Cardinality(T) = Cardinality(S) /\ Cardinality(S) \in Nat
      BY <1>2, <3>1
    <3> HIDE DEF S, T
    <3>4. QED
      BY <1>3, <1>5, <3>2, <3>3
  <2>2. CASE r \notin held[t] /\ r \notin held'[t]
    <3>1. T = S
      BY <2>2
    <3>2. Has(t, r) = 0 /\ Has(t, r)' = 0
      BY <2>2 DEF Has
    <3>3. Cardinality(T) = Cardinality(S) /\ Cardinality(S) \in Nat
      BY <1>2, <3>1
    <3> HIDE DEF S, T
    <3>4. QED
      BY <1>3, <1>5, <3>2, <3>3
  <2>3. CASE r \notin held[t] /\ r \in held'[t]
    <3>1. T = S \union {t} /\ t \notin S
      BY <1>5, <2>3
    <3>2. Cardinality(T) = Cardinality(S) + 1
      BY <1>1, <3>1, FS_AddElement
    <3>3. QED
      BY <1>2, <1>3, <1>5, <2>3, <3>2 DEF Has
  <2>4. CASE r \in held[t] /\ r \notin held'[t]
    <3>1. T = S \ {t} /\ t \in S
      BY <1>5, <2>4
    <3>2. Cardinality(T) = Cardinality(S) - 1
      BY <1>1, <3>1, FS_RemoveElement
    <3>3. QED
      BY <1>2, <1>3, <1>5, <2>4, <3>2 DEF Has
  <2>5. QED
    BY <2>1, <2>2, <2>3, <2>4
<1>6. QED
  BY <1>2, <1>3, <1>4, <1>5

\* Every counter moves by what t gained or lost.
Gain(t, r) == Has(t, r)' - Has(t, r)

Accounted(t) ==
    /\ \A u \in Turns \ {t} : held'[u] = held[u]
    /\ active' = active + Gain(t, "active")
    /\ pending' = pending + Gain(t, "pending")
    /\ ready' = ready + Gain(t, "ready")
    /\ pendingBy' = [pendingBy EXCEPT ![ActorOf[t]] = @ + Gain(t, "pending")]
    /\ waiters' = [waiters EXCEPT ![WorkspaceOf[t]] = @ + Gain(t, "waiter")]
    /\ references' = [references EXCEPT ![WorkspaceOf[t]] = @ + Gain(t, "reference")]

LEMMA CountedStep ==
  ASSUME Typed, Typed', Counted, NEW t \in Turns, Accounted(t)
  PROVE  Counted'
<1>1. \A u \in Turns \ {t} : held'[u] = held[u]
  BY DEF Accounted
<1>2. /\ active' = Count(Turns, "active")'
      /\ pending' = Count(Turns, "pending")'
      /\ ready' = Count(Turns, "ready")'
  <2>1. ASSUME NEW r PROVE Count(Turns, r)' = Count(Turns, r) + Gain(t, r)
    <3>1. Count(Turns, r) \in Nat /\ Count(Turns, r)' = Count(Turns, r) + Has(t, r)' - Has(t, r)
      BY <1>1, CountDelta
    <3>2. QED
      BY <3>1 DEF Gain, Has
  <2>2. QED
    BY <2>1 DEF Counted, Accounted
<1>3. ASSUME NEW a \in Actors PROVE pendingBy'[a] = Count(OfActor(a), "pending")'
  <2>1. OfActor(a) \in SUBSET Turns /\ (t \in OfActor(a) <=> ActorOf[t] = a)
    BY DEF OfActor
  <2>2. /\ Count(OfActor(a), "pending") \in Nat
        /\ Count(OfActor(a), "pending")' =
              IF t \notin OfActor(a) THEN Count(OfActor(a), "pending")
              ELSE Count(OfActor(a), "pending") + Has(t, "pending")' - Has(t, "pending")
    BY <1>1, <2>1, CountDelta
  <2>3. pendingBy[a] = Count(OfActor(a), "pending")
    BY DEF Counted
  <2>4. pendingBy'[a] = IF ActorOf[t] = a THEN pendingBy[a] + Gain(t, "pending") ELSE pendingBy[a]
    BY DEF Accounted, Typed
  <2>5. Has(t, "pending") \in Int /\ Has(t, "pending")' \in Int
    BY DEF Has
  <2> HIDE DEF Count
  <2>6. QED
    BY <2>1, <2>2, <2>3, <2>4, <2>5 DEF Gain
<1>4. ASSUME NEW w \in Workspaces, NEW r \in {"waiter", "reference"}
      PROVE  LET before == IF r = "waiter" THEN waiters[w] ELSE references[w]
                 after == IF r = "waiter" THEN waiters'[w] ELSE references'[w]
             IN  before = Count(OfWorkspace(w), r) => after = Count(OfWorkspace(w), r)'
  <2>1. OfWorkspace(w) \in SUBSET Turns /\ (t \in OfWorkspace(w) <=> WorkspaceOf[t] = w)
    BY DEF OfWorkspace
  <2>2. /\ Count(OfWorkspace(w), r) \in Nat
        /\ Count(OfWorkspace(w), r)' =
              IF t \notin OfWorkspace(w) THEN Count(OfWorkspace(w), r)
              ELSE Count(OfWorkspace(w), r) + Has(t, r)' - Has(t, r)
    BY <1>1, <2>1, CountDelta
  <2>3. /\ waiters'[w] =
             IF WorkspaceOf[t] = w THEN waiters[w] + Gain(t, "waiter") ELSE waiters[w]
        /\ references'[w] =
             IF WorkspaceOf[t] = w THEN references[w] + Gain(t, "reference") ELSE references[w]
    BY DEF Accounted, Typed
  <2>4. Has(t, r) \in Int /\ Has(t, r)' \in Int
    BY DEF Has
  <2>5. QED
    BY <1>4, <2>1, <2>2, <2>3, <2>4 DEF Gain
<1>5. QED
  BY <1>2, <1>3, <1>4 DEF Counted

-------------------------------------------------------------------------------
(* Limits                                                                  *)

LEMMA ReservedFacts ==
  ASSUME NEW total \in Nat \ {0}
  PROVE  Reserved(total) \in Nat /\ Reserved(total) <= total
<1> DEFINE m == total * ReservePercent
<1>1. m \in Nat
  BY LimitsAssumption
<1>2. m <= total * 90
  BY LimitsAssumption
<1> HIDE DEF m
<1>3. (m + 99) \div 100 \in Nat /\ (m + 99) \div 100 <= total
  BY <1>1, <1>2
<1>4. QED
  BY <1>3 DEF Reserved, m

LEMMA CapacityFacts ==
  ASSUME NEW t \in Turns, NEW total \in Nat \ {0}
  PROVE  /\ Capacity(t, total) \in Nat
         /\ Capacity(t, total) <= total
         /\ t \in Autonomous => Capacity(t, total) = total - Reserved(total)
BY ReservedFacts DEF Capacity

\* A step that lets a turn in only below its limits keeps the limits.
LEMMA LimitedStep ==
  ASSUME Typed, Typed', Counted, Counted', Limited, NEW t \in Turns, Accounted(t),
         activeSlots' = activeSlots - Gain(t, "active"),
         Gain(t, "active") = 1 => active < Limit(t),
         Gain(t, "pending") = 1 =>
            /\ pending < Capacity(t, MaxPending)
            /\ pendingBy[ActorOf[t]] < MaxPendingPerUser
  PROVE  Limited'
<1>1. \A r : Gain(t, r) \in {-1, 0, 1}
  BY DEF Gain, Has
<1>2. /\ Limit(t) \in Nat /\ Limit(t) <= MaxActive
      /\ Capacity(t, MaxPending) \in Nat /\ Capacity(t, MaxPending) <= MaxPending
      /\ t \in Autonomous =>
           /\ Limit(t) = MaxActive - Reserved(MaxActive)
           /\ Capacity(t, MaxPending) = MaxPending - Reserved(MaxPending)
  BY CapacityFacts, LimitsAssumption DEF Limit
<1>3. /\ active \in Int /\ activeSlots \in Int /\ pending \in Int
      /\ MaxActive \in Nat /\ MaxPending \in Nat /\ MaxPendingPerUser \in Nat
  BY LimitsAssumption DEF Typed
<1>4. active' = active + Gain(t, "active") /\ pending' = pending + Gain(t, "pending")
  BY DEF Accounted
<1>5. /\ activeSlots' = MaxActive - active'
      /\ active' <= MaxActive
      /\ pending' <= MaxPending
  BY <1>1, <1>2, <1>3, <1>4 DEF Limited
<1>6. ASSUME NEW a \in Actors PROVE pendingBy'[a] <= MaxPendingPerUser
  <2>1. pendingBy[a] \in Int /\ pendingBy[a] <= MaxPendingPerUser
    BY DEF Typed, Limited
  <2>2. pendingBy'[a] =
          IF ActorOf[t] = a THEN pendingBy[a] + Gain(t, "pending") ELSE pendingBy[a]
    BY DEF Accounted, Typed
  <2>3. QED
    BY <1>1, <1>3, <2>1, <2>2
<1>7. ASSUME NEW r \in {"active", "pending"}
      PROVE  /\ Count(Autonomous, r) \in Nat
             /\ Count(Autonomous, r) <= Count(Turns, r)
             /\ Count(Autonomous, r)' =
                  IF t \in Autonomous THEN Count(Autonomous, r) + Gain(t, r)
                  ELSE Count(Autonomous, r)
  <2>1. /\ Count(Autonomous, r) \in Nat
        /\ Count(Autonomous, r)' =
             IF t \notin Autonomous THEN Count(Autonomous, r)
             ELSE Count(Autonomous, r) + Has(t, r)' - Has(t, r)
    BY CountDelta, TurnsAssumption DEF Accounted
  <2>2. Has(t, r) \in Int /\ Has(t, r)' \in Int
    BY DEF Has
  <2>3. /\ IsFiniteSet({u \in Turns : r \in held[u]})
        /\ {u \in Autonomous : r \in held[u]} \subseteq {u \in Turns : r \in held[u]}
    BY FS_Subset, TurnsAssumption
  <2>4. Count(Autonomous, r) <= Count(Turns, r)
    BY <2>3, FS_Subset DEF Count
  <2> HIDE DEF Count
  <2>5. QED
    BY <2>1, <2>2, <2>4 DEF Gain
<1>8. Count(Autonomous, "active")' <= MaxActive - Reserved(MaxActive)
  <2>1. Reserved(MaxActive) \in Nat
    BY ReservedFacts, LimitsAssumption
  <2>2. Count(Autonomous, "active") <= active
    BY <1>7 DEF Counted
  <2>3. Count(Autonomous, "active") <= MaxActive - Reserved(MaxActive)
    BY DEF Limited
  <2> HIDE DEF Count
  <2>4. QED
    BY <1>1, <1>2, <1>3, <1>7, <2>1, <2>2, <2>3
<1>9. Count(Autonomous, "pending")' <= MaxPending - Reserved(MaxPending)
  <2>1. Reserved(MaxPending) \in Nat
    BY ReservedFacts, LimitsAssumption
  <2>2. Count(Autonomous, "pending") <= pending
    BY <1>7 DEF Counted
  <2>3. Count(Autonomous, "pending") <= MaxPending - Reserved(MaxPending)
    BY DEF Limited
  <2> HIDE DEF Count
  <2>4. QED
    BY <1>1, <1>2, <1>3, <1>7, <2>1, <2>2, <2>3
<1>10. QED
  <2>1. /\ (MaxActive - Reserved(MaxActive))' = MaxActive - Reserved(MaxActive)
        /\ (MaxPending - Reserved(MaxPending))' = MaxPending - Reserved(MaxPending)
    BY DEF Reserved
  <2>2. QED
    BY <1>5, <1>6, <1>8, <1>9, <2>1 DEF Limited

-------------------------------------------------------------------------------
(* One lemma per kind of step: it preserves the invariant.                 *)

\* A turn moves on without changing what it or anybody else has.
LEMMA MoveStep ==
  ASSUME IInv, NEW t \in Turns, NEW p \in Phases,
         phase' = [phase EXCEPT ![t] = p], lockQueue' \in Seq(Turns),
         UNCHANGED <<held, slotOf, slotVars, queueVars, activeVars>>,
         phase[t] \notin {"blocked", "granted"},
         p \notin {"blocked", "granted", "asleep"},
         Fits(p, held[t])
  PROVE  IInv'
<1> USE DEF IInv
<1>1. Typed'
  BY DEF Typed, slotVars, queueVars, activeVars
<1>2. phase'[t] = p /\ \A u \in Turns \ {t} : phase'[u] = phase[u]
  BY DEF Typed
<1>3. HeldByPhase'
  BY <1>2 DEF HeldByPhase, Fits
<1>4. LineExact'
  <2>1. line' = line /\ slotOf' = slotOf
    BY DEF slotVars
  <2>2. \A s \in Slots : \A i \in DOMAIN line[s] : line[s][i] \in Turns
    BY DEF Typed
  <2>3. QED
    BY <1>2, <2>1, <2>2 DEF LineExact
<1>5. Registered'
  BY DEF Registered, slotVars
<1>6. Owned'
  BY <1>2 DEF Owned, Owns, slotVars
<1>7. Counted' /\ Limited'
  BY DEF Counted, Limited, Count, OfActor, OfWorkspace, Reserved, slotVars, queueVars, activeVars
<1>8. NoLostNotification'
  BY <1>2 DEF NoLostNotification, Limit, Capacity, Reserved, activeVars
<1>9. QED
  BY <1>1, <1>3, <1>4, <1>5, <1>6, <1>7, <1>8

LEMMA ReferenceType ==
  ASSUME Typed, NEW t \in Turns, NEW s \in Slots, Reference(t, s)
  PROVE  /\ slotOf' \in [Turns -> Slots \union {None}]
         /\ registry' \in [Workspaces -> Slots \union {None}]
         /\ references' \in [Workspaces -> Int]
<1>1. WorkspaceOf[t] \in Workspaces
  BY TurnsAssumption
<1>2. references[WorkspaceOf[t]] + 1 \in Int
  BY <1>1 DEF Typed
<1>3. references' \in [Workspaces -> Int]
  BY <1>1, <1>2 DEF Typed, Reference
<1>4. QED
  BY <1>3 DEF Typed, Reference

\* The new or found semaphore of a workspace, and whose it is.
LEMMA ReferenceStep ==
  ASSUME IInv, NEW t \in Turns, NEW s \in Slots, phase[t] = "asked",
         SlotFor(WorkspaceOf[t], s), Reference(t, s),
         held' \in [Turns -> SUBSET Reservations], "reference" \in held'[t],
         \A u \in Turns \ {t} : held'[u] = held[u]
  PROVE  /\ Registered'
         /\ \A u \in Turns \ {t} : slotOf'[u] = slotOf[u]
         /\ slotOf'[t] = s
         /\ registry[WorkspaceOf[t]] = None =>
              /\ \A u \in Turns : slotOf[u] # s
              /\ line[s] = <<>>
<1> USE DEF IInv
<1> DEFINE w == WorkspaceOf[t]
<1>1. w \in Workspaces
  BY TurnsAssumption
<1>2. /\ slotOf' = [slotOf EXCEPT ![t] = s]
      /\ registry' = [registry EXCEPT ![w] = s]
      /\ references' = [references EXCEPT ![w] = @ + 1]
  BY DEF Reference
<1>3. held[t] = {}
  BY DEF HeldByPhase, Fits
<1>4. registry[w] = s \/
      (registry[w] = None /\ (\A u \in Turns : slotOf[u] # s)
         /\ (\A v \in Workspaces : registry[v] # s))
  BY DEF SlotFor
<1>5. s # None
  BY TurnsAssumption
<1>6. references[w] >= 0
  <2>1. OfWorkspace(w) \in SUBSET Turns
    BY DEF OfWorkspace
  <2>2. Count(OfWorkspace(w), "reference") \in Nat
    BY <2>1, CountType
  <2>3. QED
    BY <1>1, <2>2 DEF Counted
<1> HIDE DEF w
<1>7. /\ \A u \in Turns \ {t} : slotOf'[u] = slotOf[u]
      /\ slotOf'[t] = s
  BY <1>2 DEF Typed
<1>8. ASSUME NEW u \in Turns, "reference" \in held'[u]
      PROVE  slotOf'[u] \in Slots /\ registry'[WorkspaceOf[u]] = slotOf'[u]
  <2>1. CASE u = t
    BY <1>1, <1>2, <1>7, <2>1 DEF Typed, w
  <2>2. CASE u # t
    <3>1. "reference" \in held[u]
      BY <1>8, <2>2
    <3>2. slotOf[u] \in Slots /\ registry[WorkspaceOf[u]] = slotOf[u]
      BY <3>1 DEF Registered
    <3>3. WorkspaceOf[u] \in Workspaces
      BY TurnsAssumption
    <3>4. registry'[WorkspaceOf[u]] = registry[WorkspaceOf[u]]
      BY <1>1, <1>2, <1>4, <1>5, <3>2, <3>3, TurnsAssumption DEF Typed
    <3>5. QED
      BY <1>7, <2>2, <3>2, <3>4
  <2>3. QED
    BY <2>1, <2>2
<1>9. ASSUME NEW u \in Turns, "reference" \notin held'[u] PROVE slotOf'[u] = None
  BY <1>7, <1>9 DEF Registered
<1>10. \A v, x \in Workspaces :
          registry'[v] = registry'[x] /\ registry'[v] # None => v = x
  BY <1>1, <1>2, <1>4 DEF Registered, Typed
<1>11. \A v \in Workspaces : registry'[v] # None => references'[v] > 0
  <2>1. references[w] \in Int
    BY <1>1 DEF Typed
  <2>2. QED
    BY <1>1, <1>2, <1>6, <2>1 DEF Registered, Typed
<1>12. ASSUME registry[w] = None
       PROVE  (\A u \in Turns : slotOf[u] # s) /\ line[s] = <<>>
  <2>1. \A u \in Turns : slotOf[u] # s
    BY <1>4, <1>5, <1>12
  <2>2. line[s] \in Seq(Turns)
    BY DEF Typed
  <2>3. \A i \in DOMAIN line[s] : slotOf[line[s][i]] = s /\ line[s][i] \in Turns
    BY <2>2 DEF LineExact
  <2>4. QED
    BY <2>1, <2>2, <2>3
<1>13. QED
  BY <1>7, <1>8, <1>9, <1>10, <1>11, <1>12 DEF Registered, w

LEMMA ActivateAtOnceStep ==
  ASSUME IInv, NEW t \in Turns, ActivateAtOnce(t)
  PROVE  IInv'
<1> USE DEF IInv
<1>1. PICK s \in Slots :
        /\ SlotFor(WorkspaceOf[t], s)
        /\ AdmitsAtOnce(t, s)
        /\ Reference(t, s)
        /\ value' = [value EXCEPT
             ![s] = IF registry[WorkspaceOf[t]] = None THEN 0 ELSE @ - 1]
  BY DEF ActivateAtOnce
<1>2. /\ phase[t] = "asked"
      /\ held' = [held EXCEPT ![t] = Running]
      /\ active' = active + 1
      /\ activeSlots' = activeSlots - 1
      /\ phase' = [phase EXCEPT ![t] = "starting"]
      /\ UNCHANGED <<lockQueue, line, waiters, pending, pendingBy, ready>>
  BY DEF ActivateAtOnce, HoldsLock, Running, queueVars
<1>3. held[t] = {}
  BY <1>2 DEF HeldByPhase, Fits
<1>4. Typed'
  <2>1. /\ phase' \in [Turns -> Phases]
        /\ held' \in [Turns -> SUBSET Reservations]
    BY <1>2 DEF Typed, Phases, Running, Reservations
  <2>2. /\ slotOf' \in [Turns -> Slots \union {None}]
        /\ registry' \in [Workspaces -> Slots \union {None}]
        /\ references' \in [Workspaces -> Int]
    BY <1>1, ReferenceType
  <2>3. value' \in [Slots -> Int]
    BY <1>1 DEF Typed
  <2>4. QED
    BY <1>2, <2>1, <2>2, <2>3 DEF Typed
<1>5. /\ phase'[t] = "starting" /\ held'[t] = Running
      /\ \A u \in Turns \ {t} : phase'[u] = phase[u] /\ held'[u] = held[u]
  BY <1>2 DEF Typed
<1>6. /\ Registered'
      /\ \A u \in Turns \ {t} : slotOf'[u] = slotOf[u]
      /\ slotOf'[t] = s
      /\ registry[WorkspaceOf[t]] = None => \A u \in Turns : slotOf[u] # s
  BY <1>1, <1>2, <1>4, <1>5, ReferenceStep DEF Typed, Running
<1>7. HeldByPhase'
  BY <1>5 DEF HeldByPhase, Fits
<1>8. LineExact'
  <2>1. \A z \in Slots : \A i \in DOMAIN line[z] : line[z][i] \in Turns \ {t}
    BY <1>2 DEF Typed, LineExact
  <2>2. QED
    BY <1>2, <1>5, <1>6, <2>1 DEF LineExact
<1>9. Owned'
  <2>1. \A u \in Turns \ {t} : Owns(u)' => Owns(u)
    BY <1>5 DEF Owns
  <2>2. value'[s] = 0 /\ \A u \in Turns : Owns(u) => slotOf[u] # s
    <3>1. CASE registry[WorkspaceOf[t]] = None
      BY <1>1, <1>6, <3>1 DEF Typed
    <3>2. CASE registry[WorkspaceOf[t]] # None
      <4>1. value[s] # 0 /\ value[s] \in {0, 1}
        BY <1>1, <3>2 DEF AdmitsAtOnce, Locked, Owned
      <4>2. QED
        BY <1>1, <3>2, <4>1 DEF Typed, Owned
    <3>3. QED
      BY <3>1, <3>2
  <2>3. \A z \in Slots \ {s} : value'[z] = value[z]
    BY <1>1 DEF Typed
  <2>4. \A z \in Slots : value'[z] \in {0, 1}
    BY <2>2, <2>3 DEF Owned
  <2>5. \A u \in Turns : Owns(u) => slotOf[u] \in Slots
    BY DEF Owns, HeldByPhase, Fits, Registered, Running, Waiting, Seated, Dozing, Typed, Phases
  <2>6. QED
    BY <1>6, <2>1, <2>2, <2>3, <2>4, <2>5 DEF Owned
<1>10. Accounted(t) /\ Gain(t, "active") = 1 /\ Gain(t, "pending") = 0
  <2>1. /\ Gain(t, "active") = 1 /\ Gain(t, "reference") = 1 /\ Gain(t, "pending") = 0
        /\ Gain(t, "ready") = 0 /\ Gain(t, "waiter") = 0
    BY <1>3, <1>5 DEF Gain, Has, Running
  <2>2. /\ references' = [references EXCEPT ![WorkspaceOf[t]] = @ + 1]
        /\ waiters = [waiters EXCEPT ![WorkspaceOf[t]] = @ + 0]
        /\ pendingBy = [pendingBy EXCEPT ![ActorOf[t]] = @ + 0]
        /\ pending = pending + 0 /\ ready = ready + 0
    BY <1>1, TurnsAssumption DEF Reference, Typed
  <2>3. QED
    BY <1>2, <1>5, <2>1, <2>2 DEF Accounted
<1>11. Counted'
  BY <1>4, <1>10, CountedStep
<1>12. Limited'
  <2>1. active < Limit(t)
    <3>1. ready \in Nat
      BY CountType DEF Counted
    <3>2. Limit(t) \in Nat /\ active \in Int
      BY CapacityFacts, LimitsAssumption DEF Limit, Typed
    <3>3. QED
      BY <1>1, <3>1, <3>2 DEF AdmitsAtOnce
  <2>2. QED
    BY <1>2, <1>4, <1>10, <1>11, <2>1, LimitedStep
<1>13. NoLostNotification'
  <2>1. active \in Int /\ \A u \in Turns : Limit(u) \in Nat /\ Limit(u)' = Limit(u)
    BY CapacityFacts, LimitsAssumption DEF Typed, Limit, Capacity, Reserved
  <2>2. QED
    BY <1>2, <1>5, <2>1 DEF NoLostNotification
<1>14. QED
  BY <1>4, <1>6, <1>7, <1>8, <1>9, <1>11, <1>12, <1>13

LEMMA LimitType ==
  ASSUME NEW t \in Turns
  PROVE  Limit(t) \in Nat /\ Limit(t)' = Limit(t)
BY CapacityFacts, LimitsAssumption DEF Limit, Capacity, Reserved

\* A turn that owns its semaphore has one.
LEMMA OwnerHasSlot ==
  ASSUME Typed, HeldByPhase, Registered, NEW t \in Turns, Owns(t)
  PROVE  slotOf[t] \in Slots
BY DEF Owns, HeldByPhase, Fits, Registered, Running, Waiting, Seated, Dozing, Typed, Phases

LEMMA EnqueueStep ==
  ASSUME IInv, NEW t \in Turns, Enqueue(t)
  PROVE  IInv'
<1> USE DEF IInv
<1>1. PICK s \in Slots :
        /\ SlotFor(WorkspaceOf[t], s)
        /\ Reference(t, s)
        /\ value' = [value EXCEPT
             ![s] = IF registry[WorkspaceOf[t]] = None THEN 1 ELSE @]
  BY DEF Enqueue
<1>2. /\ phase[t] = "asked"
      /\ QueueHasRoom(t)
      /\ held' = [held EXCEPT ![t] = Waiting]
      /\ pending' = pending + 1
      /\ pendingBy' = [pendingBy EXCEPT ![ActorOf[t]] = @ + 1]
      /\ waiters' = [waiters EXCEPT ![WorkspaceOf[t]] = @ + 1]
      /\ phase' = [phase EXCEPT ![t] = "queueing"]
      /\ UNCHANGED <<lockQueue, line, ready, active, activeSlots>>
  BY DEF Enqueue, HoldsLock, Waiting, activeVars
<1>3. held[t] = {}
  BY <1>2 DEF HeldByPhase, Fits
<1>4. Typed'
  <2>1. /\ phase' \in [Turns -> Phases]
        /\ held' \in [Turns -> SUBSET Reservations]
    BY <1>2 DEF Typed, Phases, Waiting, Reservations
  <2>2. /\ slotOf' \in [Turns -> Slots \union {None}]
        /\ registry' \in [Workspaces -> Slots \union {None}]
        /\ references' \in [Workspaces -> Int]
    BY <1>1, ReferenceType
  <2>3. value' \in [Slots -> Int]
    BY <1>1 DEF Typed
  <2>4. /\ pendingBy' \in [Actors -> Int] /\ waiters' \in [Workspaces -> Int]
        /\ pending' \in Int
    <3>1. WorkspaceOf[t] \in Workspaces /\ ActorOf[t] \in Actors
      BY TurnsAssumption
    <3>2. pendingBy[ActorOf[t]] + 1 \in Int /\ waiters[WorkspaceOf[t]] + 1 \in Int
      BY <3>1 DEF Typed
    <3>3. pendingBy' \in [Actors -> Int]
      BY <1>2, <3>1, <3>2 DEF Typed
    <3>4. waiters' \in [Workspaces -> Int]
      BY <1>2, <3>1, <3>2 DEF Typed
    <3>5. QED
      BY <1>2, <3>3, <3>4 DEF Typed
  <2>5. QED
    BY <1>2, <2>1, <2>2, <2>3, <2>4 DEF Typed
<1>5. /\ phase'[t] = "queueing" /\ held'[t] = Waiting
      /\ \A u \in Turns \ {t} : phase'[u] = phase[u] /\ held'[u] = held[u]
  BY <1>2 DEF Typed
<1>6. /\ Registered'
      /\ \A u \in Turns \ {t} : slotOf'[u] = slotOf[u]
      /\ slotOf'[t] = s
      /\ registry[WorkspaceOf[t]] = None => \A u \in Turns : slotOf[u] # s
  BY <1>1, <1>2, <1>4, <1>5, ReferenceStep DEF Typed, Waiting
<1>7. HeldByPhase'
  BY <1>5 DEF HeldByPhase, Fits
<1>8. LineExact'
  <2>1. \A z \in Slots : \A i \in DOMAIN line[z] : line[z][i] \in Turns \ {t}
    BY <1>2 DEF Typed, LineExact
  <2>2. QED
    BY <1>2, <1>5, <1>6, <2>1 DEF LineExact
<1>9. Owned'
  <2>1. ~Owns(t)' /\ \A u \in Turns \ {t} : Owns(u)' => Owns(u)
    BY <1>5 DEF Owns, Waiting
  <2>2. /\ value'[s] \in {0, 1}
        /\ \A u \in Turns : Owns(u) /\ slotOf[u] = s => value'[s] = 0
    <3>1. CASE registry[WorkspaceOf[t]] = None
      BY <1>1, <1>6, <3>1 DEF Typed
    <3>2. CASE registry[WorkspaceOf[t]] # None
      BY <1>1, <3>2 DEF Typed, Owned
    <3>3. QED
      BY <3>1, <3>2
  <2>3. \A z \in Slots \ {s} : value'[z] = value[z]
    BY <1>1 DEF Typed
  <2>4. \A u \in Turns : Owns(u) => slotOf[u] \in Slots
    BY OwnerHasSlot
  <2>5. QED
    BY <1>6, <2>1, <2>2, <2>3, <2>4 DEF Owned
<1>10. Accounted(t) /\ Gain(t, "active") = 0 /\ Gain(t, "pending") = 1
  <2>1. /\ Gain(t, "active") = 0 /\ Gain(t, "reference") = 1 /\ Gain(t, "pending") = 1
        /\ Gain(t, "ready") = 0 /\ Gain(t, "waiter") = 1
    BY <1>3, <1>5 DEF Gain, Has, Waiting
  <2>2. /\ references' = [references EXCEPT ![WorkspaceOf[t]] = @ + 1]
        /\ active = active + 0 /\ ready = ready + 0
    BY <1>1 DEF Reference, Typed
  <2>3. QED
    BY <1>2, <1>5, <2>1, <2>2 DEF Accounted
<1>11. Counted'
  BY <1>4, <1>10, CountedStep
<1>12. Limited'
  <2>1. activeSlots' = activeSlots - 0
    BY <1>2 DEF Typed
  <2>2. QED
    BY <1>2, <1>4, <1>10, <1>11, <2>1, LimitedStep DEF QueueHasRoom
<1>13. NoLostNotification'
  BY <1>2, <1>5, LimitType DEF NoLostNotification
<1>14. QED
  BY <1>4, <1>6, <1>7, <1>8, <1>9, <1>11, <1>12, <1>13

\* A queued turn takes a free slot, or the one it was handed.
LEMMA SeatStep ==
  ASSUME IInv, NEW t \in Turns, phase[t] \in {"queued", "granted"},
         held' = [held EXCEPT ![t] = @ \union {"slot"}],
         phase' = [phase EXCEPT ![t] = "ready"],
         lockQueue' = Append(lockQueue, t),
         \/ /\ phase[t] = "queued"
            /\ ~Locked(slotOf[t])
            /\ value' = [value EXCEPT ![slotOf[t]] = @ - 1]
         \/ /\ phase[t] = "granted"
            /\ value' = value,
         UNCHANGED <<slotOf, registry, references, line, queueVars, activeVars>>
  PROVE  IInv'
<1> USE DEF IInv
<1>1. /\ UNCHANGED <<slotOf, registry, references, line>>
      /\ UNCHANGED <<waiters, pending, pendingBy, ready, active, activeSlots>>
  BY DEF queueVars, activeVars
<1>2. held[t] = Waiting /\ slotOf[t] \in Slots
  BY DEF HeldByPhase, Fits, Registered, Waiting
<1>3. Typed'
  BY <1>1 DEF Typed, Phases, Reservations
<1>4. /\ phase'[t] = "ready" /\ held'[t] = Seated
      /\ \A u \in Turns \ {t} : phase'[u] = phase[u] /\ held'[u] = held[u]
  <2>1. Waiting \union {"slot"} = Seated
    BY DEF Waiting, Seated
  <2>2. QED
    BY <1>2, <2>1 DEF Typed
<1>5. HeldByPhase'
  BY <1>4 DEF HeldByPhase, Fits
<1>6. LineExact'
  <2>1. \A z \in Slots : \A i \in DOMAIN line[z] : line[z][i] \in Turns \ {t}
    BY DEF Typed, LineExact
  <2>2. QED
    BY <1>1, <1>4, <2>1 DEF LineExact
<1>7. Registered'
  BY <1>1, <1>2, <1>4 DEF Registered, Waiting, Seated
<1>8. Owned'
  <2>1. /\ \A u \in Turns \ {t} : Owns(u)' = Owns(u)
    BY <1>4 DEF Owns
  <2>2. /\ value'[slotOf[t]] = 0
        /\ \A u \in Turns \ {t} : Owns(u) => slotOf[u] # slotOf[t]
    <3>1. CASE phase[t] = "queued"
      <4>1. value[slotOf[t]] \in {0, 1} /\ value[slotOf[t]] # 0
        BY <1>2, <3>1 DEF Owned, Locked
      <4>2. QED
        BY <1>2, <3>1, <4>1 DEF Owned, Typed
    <3>2. CASE phase[t] = "granted"
      BY <1>2, <3>2 DEF Owned, Owns
    <3>3. QED
      BY <3>1, <3>2
  <2>3. \A z \in Slots \ {slotOf[t]} : value'[z] = value[z]
    BY <1>2 DEF Typed
  <2>4. \A u \in Turns : Owns(u) => slotOf[u] \in Slots
    BY OwnerHasSlot
  <2>5. QED
    BY <1>1, <1>2, <2>1, <2>2, <2>3, <2>4 DEF Owned
<1>9. Counted' /\ Limited'
  <2>1. ASSUME NEW r \in {"reference", "pending", "waiter", "ready", "active"},
               NEW P \in SUBSET Turns
        PROVE  Count(P, r)' = Count(P, r)
    <3>1. \A u \in Turns : r \in held'[u] <=> r \in held[u]
      BY <1>2, <1>4 DEF Waiting, Seated
    <3>2. {u \in P : r \in held'[u]} = {u \in P : r \in held[u]}
      BY <3>1
    <3>3. QED
      BY <3>2 DEF Count
  <2>2. /\ \A a \in Actors : OfActor(a) \in SUBSET Turns /\ OfActor(a)' = OfActor(a)
        /\ \A w \in Workspaces : OfWorkspace(w) \in SUBSET Turns
              /\ OfWorkspace(w)' = OfWorkspace(w)
    BY DEF OfActor, OfWorkspace
  <2>3. Counted'
    BY <1>1, <2>1, <2>2 DEF Counted
  <2>4. Autonomous \in SUBSET Turns
    BY TurnsAssumption
  <2>5. Limited'
    BY <1>1, <2>1, <2>4 DEF Limited, Reserved
  <2>6. QED
    BY <2>3, <2>5
<1>10. NoLostNotification'
  BY <1>1, <1>4, LimitType DEF NoLostNotification
<1>11. QED
  BY <1>3, <1>5, <1>6, <1>7, <1>8, <1>9, <1>10

\* A queued turn finds the slot taken and gets in line.
LEMMA LineUpStep ==
  ASSUME IInv, NEW t \in Turns, phase[t] = "queued",
         line' = [line EXCEPT ![slotOf[t]] = Append(@, t)],
         phase' = [phase EXCEPT ![t] = "blocked"],
         UNCHANGED <<value, held, lockQueue, slotOf, registry, references>>,
         UNCHANGED <<queueVars, activeVars>>
  PROVE  IInv'
<1> USE DEF IInv
<1>1. UNCHANGED <<waiters, pending, pendingBy, ready, active, activeSlots>>
  BY DEF queueVars, activeVars
<1>2. held[t] = Waiting /\ slotOf[t] \in Slots
  BY DEF HeldByPhase, Fits, Registered, Waiting
<1>3. Typed'
  BY <1>1, <1>2 DEF Typed, Phases
<1>4. phase'[t] = "blocked" /\ \A u \in Turns \ {t} : phase'[u] = phase[u]
  BY DEF Typed
<1>5. HeldByPhase'
  BY <1>2, <1>4 DEF HeldByPhase, Fits
<1>6. LineExact'
  <2>1. \A z \in Slots : \A i \in DOMAIN line[z] : line[z][i] \in Turns \ {t}
    BY DEF Typed, LineExact
  <2>2. ASSUME NEW z \in Slots
        PROVE  /\ \A i \in DOMAIN line'[z] :
                    phase'[line'[z][i]] = "blocked" /\ slotOf[line'[z][i]] = z
               /\ \A i, j \in DOMAIN line'[z] : line'[z][i] = line'[z][j] => i = j
    <3>1. CASE z = slotOf[t]
      <4>1. line'[z] = Append(line[z], t) /\ line[z] \in Seq(Turns)
        BY <1>2, <3>1 DEF Typed
      <4>2. /\ DOMAIN line'[z] = 1 .. Len(line[z]) + 1
            /\ line'[z][Len(line[z]) + 1] = t
            /\ \A i \in DOMAIN line[z] : line'[z][i] = line[z][i]
            /\ DOMAIN line[z] = 1 .. Len(line[z]) /\ Len(line[z]) \in Nat
        BY <4>1
      <4>3. /\ \A i \in DOMAIN line[z] :
                  phase[line[z][i]] = "blocked" /\ slotOf[line[z][i]] = z
            /\ \A i, j \in DOMAIN line[z] : line[z][i] = line[z][j] => i = j
        BY DEF LineExact
      <4>4. \A i \in DOMAIN line'[z] : i \in DOMAIN line[z] \/ i = Len(line[z]) + 1
        BY <4>2
      <4>5. QED
        BY <1>4, <2>1, <3>1, <4>2, <4>3, <4>4
    <3>2. CASE z # slotOf[t]
      <4>1. line'[z] = line[z]
        BY <3>2 DEF Typed
      <4>2. QED
        BY <1>4, <2>1, <4>1 DEF LineExact
    <3>3. QED
      BY <3>1, <3>2
  <2>3. QED
    BY <2>2 DEF LineExact
<1>7. Registered'
  BY DEF Registered
<1>8. Owned'
  BY <1>2, <1>4 DEF Owned, Owns
<1>9. Counted' /\ Limited'
  BY <1>1 DEF Counted, Limited, Count, OfActor, OfWorkspace, Reserved
<1>10. NoLostNotification'
  BY <1>1, <1>4, LimitType DEF NoLostNotification
<1>11. QED
  BY <1>3, <1>5, <1>6, <1>7, <1>8, <1>9, <1>10

\* The counters of a step that is accounted for keep their types.
LEMMA AccountedType ==
  ASSUME Typed, NEW t \in Turns, Accounted(t)
  PROVE  /\ active' \in Int /\ pending' \in Int /\ ready' \in Int
         /\ pendingBy' \in [Actors -> Int]
         /\ waiters' \in [Workspaces -> Int]
         /\ references' \in [Workspaces -> Int]
<1>1. \A r : Gain(t, r) \in Int
  BY DEF Gain, Has
<1>2. WorkspaceOf[t] \in Workspaces /\ ActorOf[t] \in Actors
  BY TurnsAssumption
<1>3. /\ pendingBy[ActorOf[t]] + Gain(t, "pending") \in Int
      /\ waiters[WorkspaceOf[t]] + Gain(t, "waiter") \in Int
      /\ references[WorkspaceOf[t]] + Gain(t, "reference") \in Int
  BY <1>1, <1>2 DEF Typed
<1>4. pendingBy' \in [Actors -> Int]
  BY <1>2, <1>3 DEF Typed, Accounted
<1>5. waiters' \in [Workspaces -> Int]
  BY <1>2, <1>3 DEF Typed, Accounted
<1>6. references' \in [Workspaces -> Int]
  BY <1>2, <1>3 DEF Typed, Accounted
<1>7. active' \in Int /\ pending' \in Int /\ ready' \in Int
  <2>1. active \in Int /\ pending \in Int /\ ready \in Int
    BY DEF Typed
  <2>2. /\ active' = active + Gain(t, "active")
        /\ pending' = pending + Gain(t, "pending")
        /\ ready' = ready + Gain(t, "ready")
    BY DEF Accounted
  <2>3. QED
    BY <1>1, <2>1, <2>2
<1>8. QED
  BY <1>4, <1>5, <1>6, <1>7

\* A ready turn becomes active, or goes (back) to sleep.
LEMMA LookStep ==
  ASSUME IInv, NEW t \in Turns, NEW n,
         \/ /\ phase[t] = "ready" /\ n = ready + 1
            /\ waiters' = [waiters EXCEPT ![WorkspaceOf[t]] = @ - 1]
         \/ /\ phase[t] = "woken" /\ n = ready
            /\ waiters' = waiters,
         Promote(t, n) \/ Sleep(t, n),
         lockQueue' \in Seq(Turns),
         UNCHANGED <<slotOf, slotVars>>
  PROVE  IInv'
<1> USE DEF IInv
<1> DEFINE first == phase[t] = "ready"
           runs == Promote(t, n)
<1>1. UNCHANGED <<slotOf, registry, references, value, line>>
  BY DEF slotVars
<1>2. /\ held[t] = IF first THEN Seated ELSE Dozing
      /\ slotOf[t] \in Slots /\ Owns(t)
  BY DEF HeldByPhase, Fits, Registered, Seated, Dozing, Owns
<1>3. /\ runs => held' = [held EXCEPT ![t] = Running]
      /\ ~runs => held' = [held EXCEPT ![t] = Dozing]
  <2>1. (held[t] \union {"ready"}) \ {"waiter"} = Dozing
    BY <1>2 DEF Seated, Dozing
  <2>2. QED
    BY <2>1 DEF Promote, Sleep, Running, Typed
<1>4. /\ runs => phase' = [phase EXCEPT ![t] = "active"]
      /\ ~runs => phase' = [phase EXCEPT ![t] = "asleep"] /\ active >= Limit(t)
  BY DEF Promote, Sleep
<1> DEFINE reserved == IF runs THEN Running ELSE Dozing
<1>5. /\ phase'[t] = (IF runs THEN "active" ELSE "asleep") /\ held'[t] = reserved
      /\ phase' \in [Turns -> Phases] /\ held' \in [Turns -> SUBSET Reservations]
      /\ \A u \in Turns \ {t} : phase'[u] = phase[u] /\ held'[u] = held[u]
  <2>1. /\ "active" \in Phases /\ "asleep" \in Phases
        /\ Running \in SUBSET Reservations /\ Dozing \in SUBSET Reservations
        /\ phase \in [Turns -> Phases] /\ held \in [Turns -> SUBSET Reservations]
    BY DEF Typed, Phases, Reservations, Running, Dozing
  <2> HIDE DEF runs
  <2>2. CASE runs
    BY <1>3, <1>4, <2>1, <2>2
  <2>3. CASE ~runs
    BY <1>3, <1>4, <2>1, <2>3
  <2>4. QED
    BY <2>2, <2>3
<1>6. Accounted(t) /\ Gain(t, "pending") # 1
      /\ Gain(t, "active") = (IF runs THEN 1 ELSE 0)
      /\ activeSlots' = activeSlots - Gain(t, "active") /\ activeSlots' \in Int
  <2>1. /\ Gain(t, "active") = (IF runs THEN 1 ELSE 0)
        /\ Gain(t, "reference") = 0
        /\ Gain(t, "pending") = (IF runs THEN -1 ELSE 0)
        /\ Gain(t, "waiter") = (IF first THEN -1 ELSE 0)
        /\ Gain(t, "ready") = (IF first THEN 1 ELSE 0) + (IF runs THEN -1 ELSE 0)
    <3>1. /\ Has(t, "active") = 0 /\ Has(t, "reference") = 1 /\ Has(t, "pending") = 1
          /\ Has(t, "waiter") = (IF first THEN 1 ELSE 0)
          /\ Has(t, "ready") = (IF first THEN 0 ELSE 1)
      BY <1>2 DEF Has, Seated, Dozing
    <3>2. /\ Has(t, "active")' = (IF runs THEN 1 ELSE 0)
          /\ Has(t, "reference")' = 1
          /\ Has(t, "pending")' = (IF runs THEN 0 ELSE 1)
          /\ Has(t, "waiter")' = 0
          /\ Has(t, "ready")' = (IF runs THEN 0 ELSE 1)
      BY <1>5 DEF Has, Running, Dozing
    <3> HIDE DEF first, runs
    <3>3. QED
      BY <3>1, <3>2 DEF Gain
  <2>2. /\ active' = active + Gain(t, "active")
        /\ activeSlots' = activeSlots - Gain(t, "active")
        /\ pending' = pending + Gain(t, "pending")
        /\ active' \in Int /\ activeSlots' \in Int
    <3>1. active \in Int /\ activeSlots \in Int /\ pending \in Int
      BY DEF Typed
    <3>2. CASE runs
      <4>1. active' = active + 1 /\ activeSlots' = activeSlots - 1 /\ pending' = pending - 1
        BY <3>2 DEF Promote
      <4>2. Gain(t, "active") = 1 /\ Gain(t, "pending") = -1
        BY <2>1, <3>2
      <4>3. QED
        BY <3>1, <4>1, <4>2
    <3>3. CASE ~runs
      <4>1. active' = active /\ activeSlots' = activeSlots /\ pending' = pending
        BY <3>3 DEF Sleep, activeVars
      <4>2. Gain(t, "active") = 0 /\ Gain(t, "pending") = 0
        BY <2>1, <3>3
      <4>3. QED
        BY <3>1, <4>1, <4>2
    <3>4. QED
      BY <3>2, <3>3
  <2>3. ready' = ready + Gain(t, "ready")
    BY <2>1 DEF Promote, Sleep, Typed
  <2>4. pendingBy' = [pendingBy EXCEPT ![ActorOf[t]] = @ + Gain(t, "pending")]
    BY <2>1, TurnsAssumption DEF Promote, Sleep, Typed
  <2>5. waiters' = [waiters EXCEPT ![WorkspaceOf[t]] = @ + Gain(t, "waiter")]
    BY <2>1, TurnsAssumption DEF Typed
  <2>6. references' = [references EXCEPT ![WorkspaceOf[t]] = @ + Gain(t, "reference")]
    BY <1>1, <2>1, TurnsAssumption DEF Typed
  <2>7. QED
    BY <1>5, <2>1, <2>2, <2>3, <2>4, <2>5, <2>6 DEF Accounted
<1>7. Typed'
  BY <1>1, <1>5, <1>6, AccountedType DEF Typed
<1>8. HeldByPhase'
  BY <1>5 DEF HeldByPhase, Fits
<1>9. LineExact'
  <2>1. \A z \in Slots : \A i \in DOMAIN line[z] : line[z][i] \in Turns \ {t}
    BY DEF Typed, LineExact
  <2>2. QED
    BY <1>1, <1>5, <2>1 DEF LineExact
<1>10. Registered'
  BY <1>1, <1>2, <1>5 DEF Registered, Running, Dozing, Seated
<1>11. Owned'
  <2>1. \A u \in Turns : Owns(u)' => Owns(u)
    BY <1>1, <1>2, <1>5 DEF Owns
  <2>2. \A u \in Turns : slotOf'[u] = slotOf[u]
    BY <1>1, <1>5
  <2>3. value' = value
    BY <1>1, <1>5
  <2>4. QED
    BY <2>1, <2>2, <2>3 DEF Owned
<1>12. Counted'
  BY <1>6, <1>7, CountedStep
<1>13. Limited'
  BY <1>6, <1>7, <1>12, LimitedStep DEF Promote
<1>14. NoLostNotification'
  <2>1. active' = active \/ active' = active + 1
    BY DEF Promote, Sleep, activeVars
  <2>2. active \in Int /\ \A u \in Turns : Limit(u) \in Nat /\ Limit(u)' = Limit(u)
    BY LimitType DEF Typed
  <2> HIDE DEF runs
  <2>3. QED
    BY <1>4, <1>5, <2>1, <2>2 DEF NoLostNotification
<1>15. QED
  BY <1>7, <1>8, <1>9, <1>10, <1>11, <1>12, <1>13, <1>14

\* A turn in line gives up.
LEMMA LeaveLineStep ==
  ASSUME IInv, NEW t \in Turns, phase[t] = "blocked",
         line' = [line EXCEPT ![slotOf[t]] = Without(@, t)],
         phase' = [phase EXCEPT ![t] = "failing"],
         lockQueue' \in Seq(Turns),
         UNCHANGED <<value, held, slotOf, registry, references, queueVars, activeVars>>
  PROVE  IInv'
<1> USE DEF IInv
<1>1. /\ UNCHANGED <<value, held, slotOf, registry, references>>
      /\ UNCHANGED <<waiters, pending, pendingBy, ready, active, activeSlots>>
  BY DEF queueVars, activeVars
<1>2. held[t] = Waiting /\ slotOf[t] \in Slots
  BY DEF HeldByPhase, Fits, Registered, Waiting
<1> DEFINE q == line[slotOf[t]]
<1>3. /\ q \in Seq(Turns)
      /\ \A i \in DOMAIN q : phase[q[i]] = "blocked" /\ slotOf[q[i]] = slotOf[t]
      /\ \A i, j \in DOMAIN q : q[i] = q[j] => i = j
  BY <1>2 DEF Typed, LineExact
<1>4. /\ Without(q, t) \in Seq(Turns)
      /\ \A i \in DOMAIN Without(q, t) :
            Without(q, t)[i] # t /\ \E j \in DOMAIN q : q[j] = Without(q, t)[i]
      /\ \A i, j \in DOMAIN Without(q, t) : Without(q, t)[i] = Without(q, t)[j] => i = j
  <2> HIDE DEF q
  <2>1. QED
    BY <1>3, WithoutFacts
<1>5. Typed'
  BY <1>1, <1>2, <1>4 DEF Typed, Phases
<1>6. phase'[t] = "failing" /\ \A u \in Turns \ {t} : phase'[u] = phase[u]
  BY DEF Typed
<1>7. HeldByPhase'
  BY <1>1, <1>2, <1>6 DEF HeldByPhase, Fits
<1>8. LineExact'
  <2>1. ASSUME NEW z \in Slots
        PROVE  /\ \A i \in DOMAIN line'[z] :
                    phase'[line'[z][i]] = "blocked" /\ slotOf[line'[z][i]] = z
               /\ \A i, j \in DOMAIN line'[z] : line'[z][i] = line'[z][j] => i = j
    <3>1. CASE z = slotOf[t]
      <4>1. line'[z] = Without(q, t)
        BY <1>2, <3>1 DEF Typed
      <4>2. \A i \in DOMAIN q : q[i] \in Turns
        BY <1>3
      <4> HIDE DEF q
      <4>3. QED
        BY <1>3, <1>4, <1>6, <3>1, <4>1, <4>2
    <3>2. CASE z # slotOf[t]
      <4>1. line'[z] = line[z]
        BY <3>2 DEF Typed
      <4>2. \A i \in DOMAIN line[z] :
              line[z][i] \in Turns /\ phase[line[z][i]] = "blocked" /\ slotOf[line[z][i]] = z
        BY DEF LineExact, Typed
      <4>3. QED
        BY <1>6, <3>2, <4>1, <4>2 DEF LineExact
    <3>3. QED
      BY <3>1, <3>2
  <2>2. QED
    BY <1>1, <2>1 DEF LineExact
<1>9. Registered'
  BY <1>1 DEF Registered
<1>10. Owned'
  BY <1>1, <1>6 DEF Owned, Owns
<1>11. Counted' /\ Limited'
  BY <1>1 DEF Counted, Limited, Count, OfActor, OfWorkspace, Reserved
<1>12. NoLostNotification'
  BY <1>1, <1>6, LimitType DEF NoLostNotification
<1>13. QED
  BY <1>5, <1>7, <1>8, <1>9, <1>10, <1>11, <1>12

\* The owner of a semaphore lets it go: the first in line has it next.
LEMMA PassOn ==
  ASSUME IInv, NEW t \in Turns, Owns(t),
         value' = ValueReleased(slotOf[t]), line' = LineReleased(slotOf[t]),
         phase' \in [Turns -> Phases], held' \in [Turns -> SUBSET Reservations],
         ~Owns(t)',
         \A u \in Turns \ {t} :
            /\ held'[u] = held[u] /\ slotOf'[u] = slotOf[u]
            /\ NextInLine(slotOf[t], u) => phase'[u] = "granted"
            /\ ~NextInLine(slotOf[t], u) =>
                 phase'[u] = phase[u] \/ (phase[u] = "asleep" /\ phase'[u] = "notified")
  PROVE  LineExact' /\ Owned'
<1>1. PICK s \in Slots : s = slotOf[t]
  BY OwnerHasSlot DEF IInv
<1>2. phase[t] # "blocked"
  BY DEF IInv, Owns, HeldByPhase, Fits, Waiting
<1>3. value' = ValueReleased(s) /\ line' = LineReleased(s)
  BY <1>1 DEF ValueReleased, LineReleased
<1>4. \A u \in Turns \ {t} :
        /\ held'[u] = held[u] /\ slotOf'[u] = slotOf[u]
        /\ NextInLine(s, u) => phase'[u] = "granted"
        /\ ~NextInLine(s, u) =>
             phase'[u] = phase[u] \/ (phase[u] = "asleep" /\ phase'[u] = "notified")
  BY <1>1 DEF NextInLine
<1>5. /\ line' \in [Slots -> Seq(Turns)]
      /\ \A z \in Slots :
           /\ \A i \in DOMAIN line'[z] :
                \E j \in DOMAIN line[z] : line'[z][i] = line[z][j] /\ ~NextInLine(s, line[z][j])
           /\ \A i, j \in DOMAIN line'[z] : line'[z][i] = line'[z][j] => i = j
      /\ \A u \in Turns : NextInLine(s, u) => phase[u] = "blocked" /\ slotOf[u] = s
  <2>1. /\ LineReleased(s) \in [Slots -> Seq(Turns)]
        /\ \A z \in Slots :
             /\ \A i \in DOMAIN LineReleased(s)[z] :
                  \E j \in DOMAIN line[z] :
                    LineReleased(s)[z][i] = line[z][j] /\ ~NextInLine(s, line[z][j])
             /\ \A i, j \in DOMAIN LineReleased(s)[z] :
                  LineReleased(s)[z][i] = LineReleased(s)[z][j] => i = j
        /\ \A u \in Turns : NextInLine(s, u) => phase[u] = "blocked" /\ slotOf[u] = s
    BY HandOver, Zenon
  <2>2. line' = LineReleased(s)
    BY <1>3
  <2>3. \A z \in Slots : line'[z] = LineReleased(s)[z]
    BY <2>2
  <2>4. ASSUME NEW z \in Slots
        PROVE  /\ \A i \in DOMAIN line'[z] :
                    \E j \in DOMAIN line[z] :
                      line'[z][i] = line[z][j] /\ ~NextInLine(s, line[z][j])
               /\ \A i, j \in DOMAIN line'[z] : line'[z][i] = line'[z][j] => i = j
    <3>1. PICK new : new = LineReleased(s)[z]
      OBVIOUS
    <3>2. line'[z] = new
      BY <2>3, <3>1
    <3>3. /\ \A i \in DOMAIN new :
               \E j \in DOMAIN line[z] : new[i] = line[z][j] /\ ~NextInLine(s, line[z][j])
          /\ \A i, j \in DOMAIN new : new[i] = new[j] => i = j
      BY <2>1, <3>1, Zenon
    <3>4. QED
      BY <3>2, <3>3, Zenon
  <2>5. QED
    BY <2>1, <2>2, <2>4, Zenon
<1> USE DEF IInv
<1>6. LineExact'
  <2>1. ASSUME NEW z \in Slots, NEW i \in DOMAIN line'[z]
        PROVE  phase'[line'[z][i]] = "blocked" /\ slotOf'[line'[z][i]] = z
    <3>1. PICK j \in DOMAIN line[z] : line'[z][i] = line[z][j] /\ ~NextInLine(s, line[z][j])
      BY <1>5
    <3>2. line[z][j] \in Turns /\ phase[line[z][j]] = "blocked" /\ slotOf[line[z][j]] = z
      BY DEF LineExact, Typed
    <3>3. QED
      BY <1>2, <1>4, <3>1, <3>2
  <2>2. QED
    BY <1>5, <2>1 DEF LineExact
<1>7. /\ \A z \in Slots \ {s} : value'[z] = value[z]
      /\ value[s] = 0
      /\ value'[s] = IF line[s] = <<>> THEN 1 ELSE 0
  BY <1>1, <1>3 DEF ValueReleased, Owned, Typed
<1>8. \A u \in Turns : Owns(u)' =>
        u # t /\ slotOf'[u] = slotOf[u] /\ ((Owns(u) /\ slotOf[u] # s) \/ NextInLine(s, u))
  BY <1>1, <1>5, <1>4 DEF Owns, Owned
<1>9. \A u, v \in Turns : NextInLine(s, u) /\ NextInLine(s, v) => u = v /\ line[s] # <<>>
  BY DEF NextInLine
<1>10. \A u \in Turns : Owns(u) => slotOf[u] \in Slots
  BY OwnerHasSlot
<1>11. Owned'
  <2>1. \A z \in Slots : value'[z] \in {0, 1}
    BY <1>7 DEF Owned
  <2>2. \A u \in Turns : Owns(u)' => value'[slotOf'[u]] = 0
    BY <1>1, <1>5, <1>7, <1>8, <1>9, <1>10 DEF Owned
  <2>3. \A u, v \in Turns : Owns(u)' /\ Owns(v)' /\ slotOf'[u] = slotOf'[v] => u = v
    BY <1>5, <1>8, <1>9 DEF Owned
  <2>4. QED
    BY <2>1, <2>2, <2>3 DEF Owned
<1>12. QED
  BY <1>6, <1>11

\* A turn that was handed the slot is cancelled before it runs.
LEMMA PassUpStep ==
  ASSUME IInv, NEW t \in Turns, phase[t] = "granted",
         value' = ValueReleased(slotOf[t]), line' = LineReleased(slotOf[t]),
         phase' = [u \in Turns |->
            IF u = t THEN "failing"
            ELSE IF NextInLine(slotOf[t], u) THEN "granted" ELSE phase[u]],
         lockQueue' \in Seq(Turns),
         UNCHANGED <<held, slotOf, registry, references, queueVars, activeVars>>
  PROVE  IInv'
<1> USE DEF IInv
<1>1. /\ UNCHANGED <<held, slotOf, registry, references>>
      /\ UNCHANGED <<waiters, pending, pendingBy, ready, active, activeSlots>>
  BY DEF queueVars, activeVars
<1>2. Owns(t) /\ slotOf[t] \in Slots /\ held[t] = Waiting
  BY OwnerHasSlot DEF Owns, HeldByPhase, Fits
<1>3. /\ line' \in [Slots -> Seq(Turns)]
      /\ \A u \in Turns : NextInLine(slotOf[t], u) => phase[u] = "blocked"
  BY <1>2, HandOver
<1>4. Typed'
  <2>1. value' \in [Slots -> Int]
    BY <1>2 DEF ValueReleased, Typed
  <2>2. phase' \in [Turns -> Phases]
    BY DEF Typed, Phases
  <2>3. QED
    BY <1>1, <1>3, <2>1, <2>2 DEF Typed
<1>5. HeldByPhase'
  BY <1>1, <1>2, <1>3 DEF HeldByPhase, Fits
<1>6. LineExact' /\ Owned'
  <2>1. ~Owns(t)'
    BY <1>1, <1>2 DEF Owns, Waiting
  <2>2. QED
    BY <1>1, <1>2, <1>4, <2>1, PassOn DEF Typed
<1>7. Registered'
  BY <1>1 DEF Registered
<1>8. Counted' /\ Limited'
  BY <1>1 DEF Counted, Limited, Count, OfActor, OfWorkspace, Reserved
<1>9. NoLostNotification'
  BY <1>1, LimitType DEF NoLostNotification
<1>10. QED
  BY <1>4, <1>5, <1>6, <1>7, <1>8, <1>9

LEMMA InterruptStep ==
  ASSUME IInv, NEW t \in Turns, Interrupt(t)
  PROVE  IInv'
<1>1. lockQueue' \in Seq(Turns)
  BY RequeuedType DEF Interrupt, IInv
<1>2. CASE phase[t] = "blocked"
  <2>1. QED
    BY <1>1, <1>2, LeaveLineStep DEF Interrupt
<1>3. CASE phase[t] = "granted"
  <2>1. QED
    BY <1>1, <1>3, PassUpStep DEF Interrupt
<1>4. CASE phase[t] \notin {"blocked", "granted"}
  <2>1. /\ phase' = [phase EXCEPT ![t] = "failing"]
        /\ UNCHANGED <<held, slotOf, slotVars, queueVars, activeVars>>
    BY <1>4 DEF Interrupt, slotVars
  <2>2. Fits("failing", held[t]) /\ "failing" \in Phases
    BY <1>4 DEF Interrupt, IInv, HeldByPhase, Fits, Phases
  <2>3. QED
    BY <1>1, <1>4, <2>1, <2>2, MoveStep
<1>5. QED
  BY <1>2, <1>3, <1>4

\* A count is positive when somebody is counted.
LEMMA CountPositive ==
  ASSUME NEW S \in SUBSET Turns, NEW u \in S
  PROVE  Cardinality(S) \in Nat /\ Cardinality(S) > 0
<1>1. IsFiniteSet(S)
  BY FS_Subset, TurnsAssumption
<1>2. Cardinality(S) \in Nat /\ (Cardinality(S) = 0 <=> S = {})
  BY <1>1, FS_CardinalityType, FS_EmptySet
<1>3. QED
  BY <1>2

\* The end of a turn: everything it reserved is returned.
LEMMA GiveBackStep ==
  ASSUME IInv, NEW t \in Turns, phase[t] \in {"releasing", "failing"},
         lockQueue # <<>>, GiveBack(t)
  PROVE  IInv'
<1> DEFINE s == slotOf[t]
           w == WorkspaceOf[t]
           passes == "slot" \in held[t]
<1>1. /\ phase' = [u \in Turns |->
             IF u = t THEN "over"
             ELSE IF passes /\ NextInLine(s, u) THEN "granted"
             ELSE IF Notifies(t, u) THEN "notified"
             ELSE phase[u]]
      /\ held' = [held EXCEPT ![t] = {}]
      /\ slotOf' = [slotOf EXCEPT ![t] = None]
      /\ lockQueue' = Tail(lockQueue)
      /\ Dereference(t)
      /\ IF passes THEN value' = ValueReleased(s) /\ line' = LineReleased(s)
         ELSE UNCHANGED <<value, line>>
  BY DEF GiveBack
<1>2. /\ active' = active - Has(t, "active")
      /\ activeSlots' = activeSlots + Has(t, "active")
      /\ pending' = pending - Has(t, "pending")
      /\ pendingBy' = [pendingBy EXCEPT ![ActorOf[t]] = @ - Has(t, "pending")]
      /\ ready' = ready - Has(t, "ready")
      /\ waiters' = [waiters EXCEPT ![WorkspaceOf[t]] = @ - Has(t, "waiter")]
      /\ references' = [references EXCEPT ![WorkspaceOf[t]] = @ - Has(t, "reference")]
  BY <1>1 DEF GiveBack, ActiveSlotOf, Dereference
<1>3. passes => Owns(t) /\ slotOf[t] \in Slots
  BY OwnerHasSlot DEF IInv, Owns
<1>4. passes => /\ LineReleased(s) \in [Slots -> Seq(Turns)]
                /\ \A u \in Turns : NextInLine(s, u) => phase[u] = "blocked"
  <2>1. PICK z : z = slotOf[t]
    OBVIOUS
  <2>2. CASE passes
    <3>1. z \in Slots
      BY <1>3, <2>1, <2>2
    <3>2. /\ LineReleased(z) \in [Slots -> Seq(Turns)]
          /\ \A u \in Turns : NextInLine(z, u) => phase[u] = "blocked" /\ slotOf[u] = z
      BY <3>1, HandOver, Zenon
    <3>3. LineReleased(s) = LineReleased(z) /\ \A u \in Turns : NextInLine(s, u) = NextInLine(z, u)
      BY <2>1 DEF LineReleased, NextInLine
    <3>4. QED
      BY <3>2, <3>3
  <2>3. QED
    BY <2>2
<1> USE DEF IInv
<1>5. /\ phase' \in [Turns -> Phases] /\ held' \in [Turns -> SUBSET Reservations]
      /\ slotOf' \in [Turns -> Slots \union {None}]
      /\ phase'[t] = "over" /\ held'[t] = {} /\ slotOf'[t] = None
      /\ \A u \in Turns \ {t} : held'[u] = held[u] /\ slotOf'[u] = slotOf[u]
  BY <1>1 DEF Typed, Phases
<1>6. ASSUME NEW u \in Turns \ {t}
      PROVE  /\ passes /\ NextInLine(s, u) => phase[u] = "blocked" /\ phase'[u] = "granted"
             /\ ~(passes /\ NextInLine(s, u)) =>
                  \/ phase'[u] = phase[u] /\ (phase[u] = "asleep" => "active" \notin held[t])
                  \/ phase[u] = "asleep" /\ phase'[u] = "notified"
  BY <1>1, <1>4 DEF Notifies
<1>7. Accounted(t) /\ activeSlots' = activeSlots - Gain(t, "active")
      /\ Gain(t, "active") # 1 /\ Gain(t, "pending") # 1
  <2>1. \A r : Has(t, r)' = 0 /\ Has(t, r) \in {0, 1}
    BY <1>5 DEF Has
  <2>2. \A r : Gain(t, r) = 0 - Has(t, r) /\ Gain(t, r) # 1
    BY <2>1 DEF Gain
  <2>3. \A r : \A i \in Int : i + Gain(t, r) = i - Has(t, r) /\ i - Gain(t, r) = i + Has(t, r)
    BY <2>1, <2>2
  <2>4. /\ pendingBy[ActorOf[t]] \in Int /\ waiters[WorkspaceOf[t]] \in Int
        /\ references[WorkspaceOf[t]] \in Int
        /\ active \in Int /\ pending \in Int /\ ready \in Int /\ activeSlots \in Int
    BY TurnsAssumption DEF Typed
  <2>5. QED
    BY <1>2, <1>5, <2>2, <2>3, <2>4 DEF Accounted
<1>8. Typed'
  <2>1. lockQueue' \in Seq(Turns)
    BY <1>1 DEF Typed
  <2>2. registry' \in [Workspaces -> Slots \union {None}]
    BY <1>1 DEF Typed, Dereference
  <2>3. value' \in [Slots -> Int] /\ line' \in [Slots -> Seq(Turns)]
    BY <1>1, <1>3, <1>4 DEF Typed, ValueReleased
  <2>4. activeSlots' \in Int
    BY <1>2 DEF Typed, Has
  <2>5. QED
    BY <1>5, <1>7, <2>1, <2>2, <2>3, <2>4, AccountedType DEF Typed
<1>9. HeldByPhase'
  <2>1. ASSUME NEW u \in Turns \ {t} PROVE Fits(phase'[u], held'[u])
    BY <1>5, <1>6 DEF HeldByPhase, Fits
  <2>2. Fits(phase'[t], held'[t])
    BY <1>5 DEF Fits
  <2>3. QED
    BY <2>1, <2>2 DEF HeldByPhase
<1>10. LineExact' /\ Owned'
  <2>1. CASE passes
    <3>1. ~Owns(t)'
      BY <1>5 DEF Owns
    <3>2. QED
      BY <1>1, <1>3, <1>5, <1>6, <2>1, <3>1, PassOn
  <2>2. CASE ~passes
    <3>1. \A z \in Slots : \A i \in DOMAIN line[z] :
             line[z][i] \in Turns \ {t} /\ phase[line[z][i]] = "blocked"
      BY DEF Typed, LineExact
    <3>2. LineExact'
      BY <1>1, <1>5, <1>6, <2>2, <3>1 DEF LineExact
    <3>3. \A u \in Turns : Owns(u)' => u # t /\ Owns(u) /\ slotOf'[u] = slotOf[u]
      BY <1>5, <1>6, <2>2 DEF Owns
    <3>4. Owned'
      BY <1>1, <2>2, <3>3 DEF Owned
    <3>5. QED
      BY <3>2, <3>4
  <2>3. QED
    BY <2>1, <2>2
<1>11. Counted'
  BY <1>7, <1>8, CountedStep
<1>12. Limited'
  BY <1>7, <1>8, <1>11, LimitedStep
<1>13. w \in Workspaces /\ references[w] \in Int
       /\ references'[w] = references[w] - Has(t, "reference")
       /\ \A v \in Workspaces \ {w} : references'[v] = references[v]
  BY <1>2, TurnsAssumption DEF Typed
<1>14. registry' = IF LastReference(t) THEN [registry EXCEPT ![w] = None] ELSE registry
  BY <1>1 DEF Dereference
<1>15. Registered'
  <2>1. ASSUME NEW u \in Turns, "reference" \in held'[u]
        PROVE  slotOf'[u] \in Slots /\ registry'[WorkspaceOf[u]] = slotOf'[u]
    <3>1. u # t /\ "reference" \in held[u]
      BY <1>5, <2>1
    <3>2. slotOf[u] \in Slots /\ registry[WorkspaceOf[u]] = slotOf[u] /\ slotOf'[u] = slotOf[u]
      BY <1>5, <3>1 DEF Registered
    <3>3. CASE WorkspaceOf[u] = w /\ LastReference(t)
      <4>1. references'[w] = Count(OfWorkspace(w), "reference")'
        BY <1>11, <1>13 DEF Counted
      <4>2. Cardinality({v \in OfWorkspace(w) : "reference" \in held'[v]}) > 0
        <5>1. u \in {v \in OfWorkspace(w) : "reference" \in held'[v]}
          BY <2>1, <3>3 DEF OfWorkspace
        <5>2. {v \in OfWorkspace(w) : "reference" \in held'[v]} \in SUBSET Turns
          BY DEF OfWorkspace
        <5>3. QED
          BY <5>1, <5>2, CountPositive
      <4>3. references'[w] > 0
        BY <4>1, <4>2 DEF Count, OfWorkspace
      <4>4. references'[w] <= 0
        BY <1>13, <3>3 DEF LastReference, Has
      <4>5. QED
        BY <1>13, <4>3, <4>4 DEF Has
    <3>4. CASE ~(WorkspaceOf[u] = w /\ LastReference(t))
      <4>1. WorkspaceOf[u] \in Workspaces
        BY TurnsAssumption
      <4>2. registry'[WorkspaceOf[u]] = registry[WorkspaceOf[u]]
        BY <1>14, <3>4, <4>1 DEF Typed
      <4>3. QED
        BY <3>2, <4>2
    <3>5. QED
      BY <3>3, <3>4
  <2>2. ASSUME NEW u \in Turns, "reference" \notin held'[u] PROVE slotOf'[u] = None
    BY <1>5, <2>2 DEF Registered
  <2>3. \A v \in Workspaces : registry'[v] # None => registry'[v] = registry[v]
    BY <1>14 DEF Typed
  <2>4. \A v, x \in Workspaces : registry'[v] = registry'[x] /\ registry'[v] # None => v = x
    BY <2>3 DEF Registered
  <2>5. ASSUME NEW v \in Workspaces, registry'[v] # None PROVE references'[v] > 0
    <3>1. registry[v] # None /\ references[v] > 0
      BY <2>3, <2>5 DEF Registered
    <3>2. CASE v # w
      BY <1>13, <3>1, <3>2
    <3>3. CASE v = w /\ "reference" \notin held[t]
      BY <1>13, <3>1, <3>3 DEF Has
    <3>4. CASE v = w /\ "reference" \in held[t]
      <4>1. registry[w] = slotOf[t]
        BY <3>4 DEF Registered
      <4>2. ~LastReference(t)
        BY <1>13, <1>14, <2>5, <3>4 DEF Typed
      <4>3. references[w] > 1
        BY <1>13, <3>4, <4>1, <4>2 DEF LastReference
      <4>4. QED
        BY <1>13, <3>4, <4>3 DEF Has
    <3>5. QED
      BY <3>2, <3>3, <3>4
  <2>6. QED
    BY <2>1, <2>2, <2>4, <2>5 DEF Registered
<1>16. NoLostNotification'
  <2>1. ASSUME NEW u \in Turns, phase'[u] = "asleep" PROVE active' >= Limit(u)
    <3>1. u # t /\ phase[u] = "asleep" /\ "active" \notin held[t]
      BY <1>5, <1>6, <2>1
    <3>2. active' = active
      BY <1>2, <3>1 DEF Has, Typed
    <3>3. QED
      BY <3>1, <3>2 DEF NoLostNotification
  <2>2. QED
    BY <2>1, LimitType DEF NoLostNotification
<1>17. QED
  BY <1>8, <1>9, <1>10, <1>11, <1>12, <1>15, <1>16

LEMMA InitEstablishes == Init => IInv
<1> SUFFICES ASSUME Init PROVE IInv
  OBVIOUS
<1> USE DEF Init
<1>1. Typed
  BY TurnsAssumption, LimitsAssumption DEF Typed, Phases
<1>2. HeldByPhase /\ LineExact /\ Registered /\ Owned /\ NoLostNotification
  BY DEF HeldByPhase, Fits, LineExact, Registered, Owned, Owns, NoLostNotification
<1>3. ASSUME NEW P \in SUBSET Turns, NEW r PROVE Count(P, r) = 0
  <2>1. {u \in P : r \in held[u]} = {}
    OBVIOUS
  <2>2. QED
    BY <2>1, FS_EmptySet DEF Count
<1>4. /\ \A a \in Actors : OfActor(a) \in SUBSET Turns
      /\ \A w \in Workspaces : OfWorkspace(w) \in SUBSET Turns
      /\ Autonomous \in SUBSET Turns
  BY TurnsAssumption DEF OfActor, OfWorkspace
<1>5. Counted
  BY <1>3, <1>4 DEF Counted
<1>6. Limited
  <2>1. /\ Reserved(MaxActive) \in Nat /\ Reserved(MaxActive) <= MaxActive
        /\ Reserved(MaxPending) \in Nat /\ Reserved(MaxPending) <= MaxPending
    BY ReservedFacts, LimitsAssumption
  <2>2. Count(Autonomous, "active") = 0 /\ Count(Autonomous, "pending") = 0
    BY <1>3, <1>4
  <2>3. QED
    BY <2>1, <2>2, LimitsAssumption DEF Limited
<1>7. QED
  BY <1>1, <1>2, <1>5, <1>6 DEF IInv

LEMMA AdmissionStep ==
  ASSUME IInv, NEW t \in Turns,
         Ask(t) \/ Refuse(t) \/ Begin(t) \/ Awake(t) \/ Finish(t)
  PROVE  IInv'
<1> USE DEF IInv
<1>1. /\ Append(lockQueue, t) \in Seq(Turns) /\ Requeued(t) \in Seq(Turns)
      /\ lockQueue # <<>> => Tail(lockQueue) \in Seq(Turns)
  BY RequeuedType DEF Typed
<1>2. {"asked", "failing", "active", "queued", "woken", "releasing"} \subseteq Phases
  BY DEF Phases
<1>3. Fits(phase[t], held[t])
  BY DEF HeldByPhase
<1>4. CASE Ask(t)
  BY <1>1, <1>2, <1>3, <1>4, MoveStep DEF Ask, Fits
<1>5. CASE Refuse(t)
  BY <1>1, <1>2, <1>3, <1>5, MoveStep DEF Refuse, HoldsLock, Fits
<1>6. CASE Begin(t)
  <2>1. CASE phase[t] = "starting"
    BY <1>1, <1>2, <1>3, <1>6, <2>1, MoveStep DEF Begin, HoldsLock, Fits
  <2>2. CASE phase[t] = "queueing"
    BY <1>1, <1>2, <1>3, <1>6, <2>2, MoveStep DEF Begin, HoldsLock, Fits
  <2>3. QED
    BY <1>6, <2>1, <2>2 DEF Begin, HoldsLock
<1>7. CASE Awake(t)
  BY <1>1, <1>2, <1>3, <1>7, MoveStep DEF Awake, Fits
<1>8. CASE Finish(t)
  BY <1>1, <1>2, <1>3, <1>8, MoveStep DEF Finish, Fits
<1>9. QED
  BY <1>4, <1>5, <1>6, <1>7, <1>8

LEMMA QueuedStep ==
  ASSUME IInv, NEW t \in Turns,
         AskSlot(t) \/ TakeSlot(t) \/ Enter(t) \/ LookAgain(t)
  PROVE  IInv'
<1>1. CASE AskSlot(t)
  <2>1. CASE Locked(slotOf[t])
    BY <1>1, <2>1, LineUpStep DEF AskSlot
  <2>2. CASE ~Locked(slotOf[t])
    BY <1>1, <2>2, SeatStep DEF AskSlot
  <2>3. QED
    BY <2>1, <2>2
<1>2. CASE TakeSlot(t)
  BY <1>2, SeatStep DEF TakeSlot, slotVars
<1>3. lockQueue # <<>> => Tail(lockQueue) \in Seq(Turns)
  BY DEF IInv, Typed
<1>4. CASE Enter(t)
  BY <1>3, <1>4, LookStep DEF Enter, HoldsLock
<1>5. CASE LookAgain(t)
  BY <1>3, <1>5, LookStep DEF LookAgain, HoldsLock
<1>6. QED
  BY <1>1, <1>2, <1>4, <1>5

LEMMA NextPreserves == IInv /\ [Next]_vars => IInv'
<1> SUFFICES ASSUME IInv, [Next]_vars PROVE IInv'
  OBVIOUS
<1>1. ASSUME NEW t \in Turns,
             Ask(t) \/ Refuse(t) \/ Begin(t) \/ Awake(t) \/ Finish(t)
      PROVE  IInv'
  BY <1>1, AdmissionStep
<1>2. ASSUME NEW t \in Turns, ActivateAtOnce(t) PROVE IInv'
  BY <1>2, ActivateAtOnceStep
<1>3. ASSUME NEW t \in Turns, Enqueue(t) PROVE IInv'
  BY <1>3, EnqueueStep
<1>4. ASSUME NEW t \in Turns, AskSlot(t) \/ TakeSlot(t) \/ Enter(t) \/ LookAgain(t)
      PROVE  IInv'
  BY <1>4, QueuedStep
<1>5. ASSUME NEW t \in Turns, Interrupt(t) PROVE IInv'
  BY <1>5, InterruptStep
<1>6. ASSUME NEW t \in Turns, Release(t) \/ Cleanup(t) PROVE IInv'
  BY <1>6, GiveBackStep DEF Release, Cleanup, HoldsLock
<1>7. ASSUME UNCHANGED vars PROVE IInv'
  <2>1. /\ UNCHANGED <<phase, held, slotOf, lockQueue, registry, references, value, line>>
        /\ UNCHANGED <<waiters, pending, pendingBy, ready, active, activeSlots>>
    BY <1>7 DEF vars, slotVars, queueVars, activeVars
  <2>2. Typed' /\ HeldByPhase' /\ LineExact' /\ Registered' /\ Owned'
    BY <2>1 DEF IInv, Typed, HeldByPhase, LineExact, Registered, Owned, Owns
  <2>3. Counted' /\ Limited'
    BY <2>1 DEF IInv, Counted, Limited, Count, OfActor, OfWorkspace, Reserved
  <2>4. NoLostNotification'
    BY <2>1, LimitType DEF IInv, NoLostNotification
  <2>5. QED
    BY <2>2, <2>3, <2>4 DEF IInv
<1>8. QED
  BY <1>1, <1>2, <1>3, <1>4, <1>5, <1>6, <1>7 DEF Next, Quiet

-------------------------------------------------------------------------------
(* Theorems                                                                *)

\* The inductive invariant holds in every state of the service.
THEOREM InvariantHolds == Spec => []IInv
BY InitEstablishes, NextPreserves, PTL DEF Spec

\* The counters by which turns are admitted count the reservations made and not
\* yet given back, whichever await a turn is interrupted at.
THEOREM CountersExactHolds == Spec => []CountersExact
<1>1. IInv => CountersExact
  <2> SUFFICES ASSUME IInv PROVE CountersExact
    OBVIOUS
  <2>1. /\ active = Cardinality(Holding("active"))
        /\ pending = Cardinality(Holding("pending"))
        /\ ready = Cardinality(Holding("ready"))
    BY DEF IInv, Counted, Count, Holding
  <2>2. ASSUME NEW a \in Actors
        PROVE  pendingBy[a] = Cardinality({t \in Holding("pending") : ActorOf[t] = a})
    <3>1. {t \in Holding("pending") : ActorOf[t] = a} = {u \in OfActor(a) : "pending" \in held[u]}
      BY DEF Holding, OfActor
    <3>2. QED
      BY <3>1 DEF IInv, Counted, Count
  <2>3. ASSUME NEW w \in Workspaces
        PROVE  waiters[w] = Cardinality({t \in Holding("waiter") : WorkspaceOf[t] = w})
    <3>1. {t \in Holding("waiter") : WorkspaceOf[t] = w}
            = {u \in OfWorkspace(w) : "waiter" \in held[u]}
      BY DEF Holding, OfWorkspace
    <3>2. QED
      BY <3>1 DEF IInv, Counted, Count
  <2>4. QED
    BY <2>1, <2>2, <2>3 DEF CountersExact
<1>2. QED
  BY <1>1, InvariantHolds, PTL

\* Acquiring the active-turn semaphore under the admission lock never suspends.
THEOREM AcquireNeverSuspendsHolds == Spec => []AcquireNeverSuspends
<1>1. IInv => AcquireNeverSuspends
  BY DEF IInv, Limited, AcquireNeverSuspends
<1>2. QED
  BY <1>1, InvariantHolds, PTL

\* Two turns of a workspace never run, or wait for capacity, together.
THEOREM OneTurnPerWorkspaceHolds == Spec => []OneTurnPerWorkspace
<1>1. IInv => OneTurnPerWorkspace
  <2> SUFFICES ASSUME IInv, NEW t \in Holding("slot"), NEW u \in Holding("slot"), t # u,
                      WorkspaceOf[t] = WorkspaceOf[u]
               PROVE  FALSE
    BY DEF OneTurnPerWorkspace
  <2>1. t \in Turns /\ u \in Turns /\ Owns(t) /\ Owns(u)
    BY DEF Holding, Owns
  <2>2. "reference" \in held[t] /\ "reference" \in held[u]
    BY DEF Holding, IInv, HeldByPhase, Fits, Running, Waiting, Seated, Dozing, Typed, Phases
  <2>3. slotOf[t] = slotOf[u]
    BY <2>1, <2>2 DEF IInv, Registered
  <2>4. QED
    BY <2>1, <2>3 DEF IInv, Owned
<1>2. QED
  BY <1>1, InvariantHolds, PTL

\* A workspace is registered exactly while a turn refers to it.
THEOREM RegistryExactHolds == Spec => []RegistryExact
<1>1. IInv => RegistryExact
  <2> SUFFICES ASSUME IInv PROVE RegistryExact
    OBVIOUS
  <2>1. ASSUME NEW w \in Workspaces
        PROVE  references[w] = Cardinality({t \in Holding("reference") : WorkspaceOf[t] = w})
    <3>1. {t \in Holding("reference") : WorkspaceOf[t] = w}
            = {u \in OfWorkspace(w) : "reference" \in held[u]}
      BY DEF Holding, OfWorkspace
    <3>2. QED
      BY <3>1 DEF IInv, Counted, Count
  <2>2. QED
    BY <2>1 DEF IInv, Registered, RegistryExact, Holding
<1>2. QED
  BY <1>1, InvariantHolds, PTL

\* Turns nobody asked for never fill the reserved share.
THEOREM InteractiveReserveHolds == Spec => []InteractiveReserve
<1>1. IInv => InteractiveReserve
  <2>1. ASSUME NEW r PROVE Holding(r) \cap Autonomous = {u \in Autonomous : r \in held[u]}
    BY TurnsAssumption DEF Holding
  <2>2. QED
    BY <2>1 DEF IInv, Limited, InteractiveReserve, Count
<1>2. QED
  BY <1>1, InvariantHolds, PTL

\* Both shares are kept.
THEOREM SharesKeptHolds == Spec => []SharesKept
  BY OneTurnPerWorkspaceHolds, InteractiveReserveHolds, PTL DEF SharesKept

\* The service never runs or queues more than it was configured to.
THEOREM WithinLimitsHolds == Spec => []WithinLimits
<1>1. IInv => WithinLimits
  BY DEF IInv, Limited, WithinLimits
<1>2. QED
  BY <1>1, InvariantHolds, PTL

\* A turn sleeps on the condition only while its kind's share is full.
THEOREM NoLostNotificationHolds == Spec => []NoLostNotification
<1>1. IInv => NoLostNotification
  BY DEF IInv
<1>2. QED
  BY <1>1, InvariantHolds, PTL

\* Every variable has its type; the counters never get negative.
THEOREM TypeCorrect == Spec => []TypeOK
<1>1. IInv => TypeOK
  <2> SUFFICES ASSUME IInv PROVE TypeOK
    OBVIOUS
  <2>1. \A P \in SUBSET Turns : \A r : Count(P, r) \in Nat
    BY CountType
  <2>2. /\ \A a \in Actors : OfActor(a) \in SUBSET Turns
        /\ \A w \in Workspaces : OfWorkspace(w) \in SUBSET Turns
    BY DEF OfActor, OfWorkspace
  <2>3. active \in Nat /\ pending \in Nat /\ ready \in Nat
    BY <2>1 DEF IInv, Counted
  <2>4. activeSlots \in Nat
    <3>1. MaxActive \in Nat
      BY LimitsAssumption
    <3>2. QED
      BY <2>3, <3>1 DEF IInv, Limited
  <2>5. pendingBy \in [Actors -> Nat]
    <3>1. \A a \in Actors : pendingBy[a] \in Nat
      BY <2>1, <2>2 DEF IInv, Counted
    <3>2. QED
      BY <3>1 DEF IInv, Typed
  <2>6. waiters \in [Workspaces -> Nat]
    <3>1. \A w \in Workspaces : waiters[w] \in Nat
      BY <2>1, <2>2 DEF IInv, Counted
    <3>2. QED
      BY <3>1 DEF IInv, Typed
  <2>7. references \in [Workspaces -> Nat]
    <3>1. \A w \in Workspaces : references[w] \in Nat
      BY <2>1, <2>2 DEF IInv, Counted
    <3>2. QED
      BY <3>1 DEF IInv, Typed
  <2>8. value \in [Slots -> Nat]
    <3>1. \A s \in Slots : value[s] \in Nat
      BY DEF IInv, Owned
    <3>2. QED
      BY <3>1 DEF IInv, Typed
  <2>9. QED
    BY <2>3, <2>4, <2>5, <2>6, <2>7, <2>8 DEF IInv, Typed, TypeOK
<1>2. QED
  BY <1>1, InvariantHolds, PTL

-------------------------------------------------------------------------------
(* AgentTurn *)

USE DEF RunningCalls, CallStates, EffectStates, RowStates, Stages, Follows

-------------------------------------------------------------------------------
(* Types *)

\* A failed attempt knows what it is followed by.
FollowKnown == \A t \in AgentTurns : stage[t] \in {"broken", "closing"} => follow[t] # "none"

\* The process is down only with a life left.
LifeLeft == ~up => life < MaxLives

TurnTyped == TurnTypeOK /\ FollowKnown /\ LifeLeft

LEMMA TurnsTyped ==
    /\ Mentions \subseteq AgentTurns
    /\ Events \subseteq AgentTurns
    /\ \A c \in Calls : c = <<c[1], c[2]>> /\ c[1] \in AgentTurns /\ c[2] \in 1 .. MaxAttempts
    /\ 1 \in 1 .. MaxLives /\ 0 \in 0 .. MaxLives /\ 0 \in 0 .. MaxAttempts
BY TurnAssumption DEF AgentTurns, Calls

\* What a reset leaves behind is of the right type, whatever it was called for.
LEMMA ResetTyped ==
  ASSUME TurnTyped, NEW t \in AgentTurns, stage[t] \in {"broken", "closing"}, AfterReset(t)
  PROVE  /\ row' \in [AgentTurns -> RowStates]
         /\ stage' \in [AgentTurns -> Stages]
         /\ follow' \in [AgentTurns -> Follows]
         /\ retried' \in SUBSET AgentTurns
         /\ current' \in SUBSET AgentTurns
         /\ todo' \in SUBSET Mentions
         /\ \A u \in AgentTurns : stage'[u] \in {"broken", "closing"} => follow'[u] # "none"
<1>. USE DEF TurnTyped, FollowKnown
<1>1. CASE follow[t] = "retry"
  BY <1>1 DEF AfterReset, TurnTypeOK
<1>2. CASE follow[t] # "retry"
  <2>1. EndTurn(t, follow[t]) /\ follow[t] \in {"completed", "failed"}
    BY <1>2 DEF AfterReset, TurnTypeOK
  <2> QED
    BY <2>1 DEF EndTurn, TurnTypeOK
<1> QED
  BY <1>1, <1>2

LEMMA CancelTyped ==
  ASSUME TurnTypeOK, CancelCalls
  PROVE  call' \in [Calls -> CallStates] /\ effect' \in [Calls -> EffectStates]
<1>1. call' \in [Calls -> CallStates]
  BY DEF CancelCalls, Cut, TurnTypeOK
<1>2. PICK late \in SUBSET {c \in Calls : call[c] \in {"attempted", "dispatched"}} :
        effect' = [c \in Calls |->
            CASE call[c] = "attempted" /\ c \in late -> "dispatched"
              [] call[c] = "dispatched" /\ c \notin late -> "unknown"
              [] OTHER -> effect[c]]
  BY DEF CancelCalls
<1>3. effect' \in [Calls -> EffectStates]
  BY <1>2 DEF TurnTypeOK
<1> QED
  BY <1>1, <1>3

LEMMA TurnTypedInvariant == TurnSpec => []TurnTyped
<1>1. TurnInit => TurnTyped
  <2> SUFFICES ASSUME TurnInit PROVE TurnTyped
    OBVIOUS
  <2>1. /\ row \in [AgentTurns -> RowStates] /\ stage \in [AgentTurns -> Stages]
        /\ follow \in [AgentTurns -> Follows] /\ effect \in [Calls -> EffectStates]
        /\ call \in [Calls -> CallStates]
    BY DEF TurnInit
  <2>2. attempt \in [AgentTurns -> 0 .. MaxAttempts] /\ lifeOf \in [Calls -> 0 .. MaxLives]
    BY TurnsTyped DEF TurnInit
  <2> QED
    BY <2>1, <2>2, TurnsTyped DEF TurnInit, TurnTyped, TurnTypeOK, FollowKnown, LifeLeft
<1>2. TurnTyped /\ [TurnNext]_turnVars => TurnTyped'
  <2> SUFFICES ASSUME TurnTyped, [TurnNext]_turnVars PROVE TurnTyped'
    OBVIOUS
  <2> USE TurnsTyped DEF TurnTyped, TurnTypeOK, FollowKnown, LifeLeft, EndTurn, BeginTurn, unchangedByBegin,
        unchangedByCalls, durable, volatile, process, history, Proceed, Record
  <2>1. ASSUME NEW t \in AgentTurns, Mention(t) PROVE TurnTyped'
    BY <2>1 DEF Mention
  <2>2. ASSUME NEW t \in AgentTurns, ClaimBatch(t) PROVE TurnTyped'
    BY <2>2 DEF ClaimBatch
  <2>3. ASSUME NEW t \in AgentTurns, StartAttempt(t) PROVE TurnTyped'
    BY TurnAssumption, <2>3 DEF StartAttempt
  <2>4. ASSUME NEW t \in AgentTurns, Complete(t) PROVE TurnTyped'
    BY <2>4 DEF Complete
  <2>5. ASSUME NEW t \in AgentTurns, AttemptFails(t) PROVE TurnTyped'
    BY <2>5 DEF AttemptFails, Call, Calls
  <2>6. ASSUME NEW t \in AgentTurns, ResetSkipped(t) PROVE TurnTyped'
    BY ResetTyped, <2>6 DEF ResetSkipped
  <2>7. ASSUME NEW t \in AgentTurns, ResetAtOnce(t) PROVE TurnTyped'
    BY ResetTyped, CancelTyped, <2>7 DEF ResetAtOnce, ResetApplies
  <2>8. ASSUME NEW t \in AgentTurns, ResetWaits(t) PROVE TurnTyped'
    BY <2>8 DEF ResetWaits, ResetApplies
  <2>9. ASSUME NEW t \in AgentTurns, Close(t) PROVE TurnTyped'
    BY ResetTyped, CancelTyped, <2>9 DEF Close
  <2>10. ASSUME NEW t \in AgentTurns, Cancel(t) PROVE TurnTyped'
    BY <2>10 DEF Cancel
  <2>11. ASSUME NEW t \in AgentTurns, AskForWrite(t) PROVE TurnTyped'
    <3>1. call' \in [Calls -> CallStates]
      BY <2>11 DEF AskForWrite
    <3>2. life \in 0 .. MaxLives
      BY TurnAssumption
    <3>3. lifeOf' \in [Calls -> 0 .. MaxLives]
      BY <2>11, <3>2 DEF AskForWrite
    <3> QED
      BY <2>11, <3>1, <3>3 DEF AskForWrite
  <2>12. ASSUME NEW t \in AgentTurns, RecoverAgain(t) PROVE TurnTyped'
    BY <2>12 DEF RecoverAgain, Recovering
  <2>13. ASSUME NEW t \in AgentTurns, RecoverAsFailed(t) PROVE TurnTyped'
    BY <2>13 DEF RecoverAsFailed, Recovering
  <2>14. ASSUME NEW t \in AgentTurns, RecoveryError(t) PROVE TurnTyped'
    BY <2>14 DEF RecoveryError, Recovering
  <2>15. ASSUME NEW c \in Calls, CallStep(c) PROVE TurnTyped'
    <3>1. CASE RefuseCall(c) \/ AttemptWrite(c) \/ Reject(c)
      BY <3>1 DEF RefuseCall, AttemptWrite, Reject
    <3>2. CASE Dispatch(c)
      BY <3>2 DEF Dispatch
    <3>3. CASE Act(c)
      BY <3>3 DEF Act
    <3>4. CASE Confirm(c)
      BY <3>4 DEF Confirm
    <3>5. CASE LoseTrack(c)
      BY <3>5 DEF LoseTrack
    <3> QED
      BY <2>15, <3>1, <3>2, <3>3, <3>4, <3>5 DEF CallStep
  <2>16. CASE ServerDies
    BY <2>16 DEF ServerDies
  <2>17. CASE Crash
    BY <2>17 DEF Crash, Cut
  <2>18. CASE Restart
    BY TurnAssumption, <2>18 DEF Restart
  <2>19. CASE UNCHANGED turnVars
    BY <2>19 DEF turnVars
  <2> QED
    BY <2>1, <2>2, <2>3, <2>4, <2>5, <2>6, <2>7, <2>8, <2>9, <2>10, <2>11, <2>12, <2>13,
       <2>14, <2>15, <2>16, <2>17, <2>18, <2>19 DEF TurnNext, TurnStep, TaskStep
<1> QED
  BY <1>1, <1>2, PTL DEF TurnSpec

\* Every row, effect, call and stage stays among its states.
THEOREM TurnTypeCorrect == TurnSpec => []TurnTypeOK
<1>1. TurnTyped => TurnTypeOK
  BY DEF TurnTyped
<1> QED
  BY <1>1, TurnTypedInvariant, PTL

-------------------------------------------------------------------------------
(* The ledger *)

\* A call that has dispatched its write has recorded it.
Sent == \A c \in Calls : call[c] = "dispatched" => effect[c] # "open"

Ledger == LedgerHonest /\ Sent

\* Nothing becomes uncrossed, and no write unhappens.
Kept ==
    /\ \A c \in Calls : effect[c] # "open" => effect'[c] # "open"
    /\ acted \subseteq acted'

LEMMA CancelLedger ==
  ASSUME TurnTypeOK, Ledger, CancelCalls, UNCHANGED acted
  PROVE  Ledger' /\ Kept
<1>1. PICK late \in SUBSET {c \in Calls : call[c] \in {"attempted", "dispatched"}} :
        effect' = [c \in Calls |->
            CASE call[c] = "attempted" /\ c \in late -> "dispatched"
              [] call[c] = "dispatched" /\ c \notin late -> "unknown"
              [] OTHER -> effect[c]]
  BY DEF CancelCalls
<1>2. ASSUME NEW c \in Calls
      PROVE /\ effect[c] # "open" => effect'[c] # "open"
            /\ effect'[c] = "confirmed" => effect[c] = "confirmed"
            /\ call[c] = "dispatched" => effect'[c] # "open"
            /\ call'[c] # "dispatched"
            /\ call'[c] = "lost" => call[c] \in {"lost", "dispatched"}
  BY <1>1, <1>2 DEF CancelCalls, Cut, Ledger, Sent, TurnTypeOK
<1> QED
  BY <1>2 DEF Ledger, LedgerHonest, Sent, Kept

LEMMA LedgerStep ==
  ASSUME TurnTypeOK, Ledger, [TurnNext]_turnVars
  PROVE  Ledger' /\ Kept
<1> USE DEF TurnTypeOK, Ledger, LedgerHonest, Sent, Kept
<1>1. CASE UNCHANGED <<effect, acted, call>>
  BY <1>1
<1>2. CASE CancelCalls /\ UNCHANGED acted
  BY <1>2, CancelLedger
<1>3. ASSUME NEW t \in AgentTurns, AskForWrite(t) PROVE Ledger' /\ Kept
  BY <1>3 DEF AskForWrite, Proceed
<1>4. ASSUME NEW c \in Calls, CallStep(c) PROVE Ledger' /\ Kept
  <2> USE DEF Proceed, Record
  <2>1. CASE RefuseCall(c) \/ AttemptWrite(c) \/ Reject(c)
    BY <2>1 DEF RefuseCall, AttemptWrite, Reject
  <2>2. CASE Dispatch(c)
    BY <2>2 DEF Dispatch
  <2>3. CASE Act(c)
    BY <2>3 DEF Act
  <2>4. CASE Confirm(c)
    BY <2>4 DEF Confirm
  <2>5. CASE LoseTrack(c)
    BY <2>5 DEF LoseTrack
  <2> QED
    BY <1>4, <2>1, <2>2, <2>3, <2>4, <2>5 DEF CallStep
<1>5. CASE Crash
  BY <1>5 DEF Crash, Cut, durable
<1>6. CASE Restart
  BY <1>6 DEF Restart
<1>7. ASSUME NEW t \in AgentTurns, TurnStep(t), ~AskForWrite(t)
      PROVE \/ UNCHANGED <<effect, acted, call>>
            \/ CancelCalls /\ UNCHANGED acted
  BY <1>7 DEF TurnStep, TaskStep, Mention, ClaimBatch, Cancel, StartAttempt, Complete,
     AttemptFails, ResetSkipped, ResetAtOnce, ResetWaits, Close, RecoverAgain,
     RecoverAsFailed, RecoveryError, unchangedByBegin, durable
<1>8. ServerDies \/ UNCHANGED turnVars => UNCHANGED <<effect, acted, call>>
  BY DEF ServerDies, turnVars, durable, volatile
<1> QED
  BY <1>1, <1>2, <1>3, <1>4, <1>5, <1>6, <1>7, <1>8 DEF TurnNext

LEMMA LedgerInvariant == TurnSpec => []Ledger
<1>1. TurnInit => Ledger
  BY DEF TurnInit, Ledger, LedgerHonest, Sent
<1>2. TurnTyped /\ Ledger /\ [TurnNext]_turnVars => Ledger'
  BY LedgerStep DEF TurnTyped
<1> QED
  BY <1>1, <1>2, TurnTypedInvariant, PTL DEF TurnSpec

\* The ledger never says wrongly that a write happened or that it did not
\* (ActionReceiptStore, actions.py).
THEOREM LedgerHonestHolds == TurnSpec => []LedgerHonest
<1>1. Ledger => LedgerHonest
  BY DEF Ledger
<1> QED
  BY <1>1, LedgerInvariant, PTL

-------------------------------------------------------------------------------
(* The promise of the ledger *)

Crossed == {c \in Calls : effect[c] \in CrossedStates}

LEMMA BarrierStep ==
  ASSUME TurnTypeOK, TurnTypeOK', Ledger, Ledger', Kept, [TurnNext]_turnVars
  PROVE  [Barrier!Next]_<<Crossed, acted>>
<1>1. Crossed \subseteq Crossed' /\ Crossed' \subseteq Calls
  BY DEF Crossed, CrossedStates, Kept, TurnTypeOK
<1>2. ASSUME NEW c \in Calls, Act(c) PROVE Barrier!Happen(c)
  <2>1. effect[c] # "open" /\ c \notin acted
    BY <1>2 DEF Act, Ledger, LedgerHonest, Sent
  <2>2. c \in Crossed \ acted
    BY <2>1 DEF Crossed, CrossedStates, TurnTypeOK
  <2>3. acted' = acted \union {c} /\ Crossed' = Crossed
    BY <1>2 DEF Act, Crossed
  <2> QED
    BY <2>2, <2>3 DEF Barrier!Happen, Crossed
<1>3. CASE UNCHANGED acted
  <2>1. Crossed' = Crossed \union (Crossed' \ Crossed)
    BY <1>1
  <2>2. (Crossed' \ Crossed) \in SUBSET (Calls \ Crossed)
    BY <1>1
  <2>3. Barrier!CrossSome
    BY <1>3, <2>1, <2>2 DEF Barrier!CrossSome, Crossed
  <2> QED
    BY <2>3 DEF Barrier!Next
<1>4. UNCHANGED acted \/ \E c \in Calls : Act(c)
  BY DEF TurnNext, TurnStep, TaskStep, CallStep, Mention, ClaimBatch, Cancel, AskForWrite,
     StartAttempt, Complete, AttemptFails, ResetSkipped, ResetAtOnce, ResetWaits, Close,
     RecoverAgain, RecoverAsFailed, RecoveryError, RefuseCall, AttemptWrite, Reject, Dispatch,
     Confirm, LoseTrack, ServerDies, Crash, Restart, unchangedByBegin, unchangedByCalls,
     durable, turnVars
<1> QED
  BY <1>2, <1>3, <1>4 DEF Barrier!Next

\* The calls of agent turns keep what WriteBarrier promises: a write happens at
\* most once, only after its dispatch was recorded, and no record is taken back.
THEOREM ImplementsBarrierHolds == TurnSpec => ImplementsBarrier
<1>1. TurnInit => Barrier!Init
  BY DEF TurnInit, Barrier!Init, CrossedStates
<1>2. TurnTypeOK /\ TurnTypeOK' /\ Ledger /\ Ledger' /\ [TurnNext]_turnVars => [Barrier!Next]_<<Crossed, acted>>
  BY LedgerStep, BarrierStep
<1> QED
  BY <1>1, <1>2, TurnTypeCorrect, LedgerInvariant, PTL DEF TurnSpec, ImplementsBarrier, Barrier!Spec, Crossed

-------------------------------------------------------------------------------
(* Writes and attempts: how calls and turns move *)

\* A call that has not written and, its task gone, never will.
Dead(c) == effect[c] = "open" /\ call[c] \notin RunningCalls

Asked(c) == \E t \in AgentTurns : AskForWrite(t) /\ c = Call(t)

LEMMA CallMoves ==
  ASSUME TurnTypeOK, Ledger, [TurnNext]_turnVars, NEW c \in Calls
  PROVE  /\ call'[c] = "none" => call[c] = "none"
         /\ call[c] = "none" => call'[c] = "none" \/ Asked(c)
         /\ call'[c] \in RunningCalls => call[c] \in RunningCalls \/ Asked(c)
         /\ call'[c] = "checking" => call[c] = "checking" \/ Asked(c)
         /\ effect'[c] # effect[c] /\ effect'[c] # "open" /\ effect[c] = "open"
               => call[c] = "attempted" /\ call'[c] \notin {"none", "checking"}
         /\ lifeOf'[c] # lifeOf[c] => Asked(c)
         /\ orphan \subseteq orphan'
<1> USE DEF TurnTypeOK, Asked, Ledger, Sent
<1>1. CASE UNCHANGED <<effect, call, lifeOf>> /\ orphan \subseteq orphan'
  BY <1>1
<1>2. CASE CancelCalls /\ UNCHANGED <<lifeOf, orphan>>
  <2>1. PICK late \in SUBSET {d \in Calls : call[d] \in {"attempted", "dispatched"}} :
          effect' = [d \in Calls |->
              CASE call[d] = "attempted" /\ d \in late -> "dispatched"
                [] call[d] = "dispatched" /\ d \notin late -> "unknown"
                [] OTHER -> effect[d]]
    BY <1>2 DEF CancelCalls
  <2>2. call'[c] = Cut(c)
    BY <1>2 DEF CancelCalls
  <2>3. effect'[c] # effect[c] /\ effect'[c] # "open" /\ effect[c] = "open"
            => call[c] \in {"attempted", "dispatched"}
    BY <2>1
  <2> QED
    BY <1>2, <2>1, <2>2, <2>3 DEF Cut
<1>3. ASSUME NEW t \in AgentTurns, AskForWrite(t)
      PROVE  /\ UNCHANGED <<effect, orphan>>
             /\ c # Call(t) => call'[c] = call[c] /\ lifeOf'[c] = lifeOf[c]
             /\ c = Call(t) => call'[c] = "checking"
  BY <1>3 DEF AskForWrite, Proceed
<1>4. ASSUME NEW d \in Calls, CallStep(d)
      PROVE  /\ UNCHANGED <<lifeOf, orphan>>
             /\ c # d => call'[c] = call[c] /\ effect'[c] = effect[c]
             /\ call'[d] \notin {"none", "checking"} \/ call'[d] = call[d]
             /\ call[d] \notin RunningCalls => call'[d] = call[d]
             /\ effect'[d] # effect[d] => call[d] \in {"attempted", "dispatched"}
             /\ effect'[d] # effect[d] => call'[d] \notin {"none", "checking"}
  <2> USE DEF Proceed, Record, history
  <2>1. CASE RefuseCall(d) \/ AttemptWrite(d) \/ Reject(d)
    BY <2>1 DEF RefuseCall, AttemptWrite, Reject
  <2>2. CASE Dispatch(d)
    BY <2>2 DEF Dispatch
  <2>3. CASE Act(d)
    BY <2>3 DEF Act
  <2>4. CASE Confirm(d)
    BY <2>4 DEF Confirm
  <2>5. CASE LoseTrack(d)
    BY <2>5 DEF LoseTrack
  <2> QED
    BY <1>4, <2>1, <2>2, <2>3, <2>4, <2>5 DEF CallStep
<1>5. CASE Crash
  BY <1>5 DEF Crash, Cut, durable, history
<1>6. CASE Restart
  BY <1>6 DEF Restart
<1>7. ASSUME NEW t \in AgentTurns, TurnStep(t), ~AskForWrite(t)
      PROVE \/ UNCHANGED <<effect, call, lifeOf>> /\ orphan \subseteq orphan'
            \/ CancelCalls /\ UNCHANGED <<lifeOf, orphan>>
  BY <1>7 DEF TurnStep, TaskStep, Mention, ClaimBatch, Cancel, StartAttempt, Complete,
     AttemptFails, ResetSkipped, ResetAtOnce, ResetWaits, Close, RecoverAgain,
     RecoverAsFailed, RecoveryError, unchangedByBegin, durable, history
<1>8. ServerDies \/ UNCHANGED turnVars => UNCHANGED <<effect, call, lifeOf, orphan>>
  BY DEF ServerDies, turnVars, durable, volatile, history
<1> QED
  BY <1>1, <1>2, <1>3, <1>4, <1>5, <1>6, <1>7, <1>8 DEF TurnNext

\* How the task of a turn gets to its next stage.
LEMMA StageMoves ==
  ASSUME TurnTypeOK, [TurnNext]_turnVars, NEW t \in AgentTurns, stage'[t] # "idle"
  PROVE  \/ UNCHANGED <<stage[t], attempt[t], follow[t]>>
         \/ Mention(t) \/ ClaimBatch(t) \/ RecoverAgain(t) \/ StartAttempt(t) \/ AttemptFails(t)
         \/ /\ stage[t] \in {"broken", "closing"} /\ follow[t] = "retry"
            /\ stage'[t] = "starting" /\ attempt'[t] = attempt[t]
         \/ /\ stage[t] = "broken" /\ stage'[t] = "closing"
            /\ UNCHANGED <<attempt[t], follow[t]>>
<1> USE DEF TurnTypeOK, BeginTurn, EndTurn, unchangedByBegin, unchangedByCalls
<1>1. CASE UNCHANGED <<stage, attempt, follow>>
  BY <1>1
<1>2. ASSUME NEW u \in AgentTurns, u # t, TurnStep(u)
      PROVE  UNCHANGED <<stage[t], attempt[t], follow[t]>>
  <2>1. CASE Mention(u) \/ ClaimBatch(u) \/ RecoverAgain(u)
    BY <1>2, <2>1 DEF Mention, ClaimBatch, RecoverAgain
  <2>2. CASE Cancel(u) \/ Complete(u) \/ RecoverAsFailed(u) \/ RecoveryError(u)
    BY <1>2, <2>2 DEF Cancel, Complete, RecoverAsFailed, RecoveryError
  <2>3. CASE AskForWrite(u) \/ StartAttempt(u) \/ AttemptFails(u) \/ ResetWaits(u)
    BY <1>2, <2>3 DEF AskForWrite, StartAttempt, AttemptFails, ResetWaits
  <2>4. CASE ResetSkipped(u) \/ ResetAtOnce(u) \/ Close(u)
    BY <1>2, <2>4 DEF ResetSkipped, ResetAtOnce, Close, AfterReset
  <2> QED
    BY <1>2, <2>1, <2>2, <2>3, <2>4 DEF TurnStep, TaskStep
<1>3. ASSUME AfterReset(t), UNCHANGED attempt, stage[t] \in {"broken", "closing"}
      PROVE  follow[t] = "retry" /\ stage'[t] = "starting" /\ attempt'[t] = attempt[t]
  BY <1>3 DEF AfterReset
<1>4. CASE ResetSkipped(t) \/ ResetAtOnce(t) \/ Close(t)
  BY <1>3, <1>4 DEF ResetSkipped, ResetAtOnce, Close, ResetApplies
<1>5. CASE Cancel(t) \/ Complete(t) \/ RecoverAsFailed(t)
  BY <1>5 DEF Cancel, Complete, RecoverAsFailed
<1>6. CASE ResetWaits(t)
  BY <1>6 DEF ResetWaits, ResetApplies
<1>7. CASE RecoveryError(t) \/ AskForWrite(t)
  BY <1>7 DEF RecoveryError, AskForWrite
<1>8. ASSUME NEW c \in Calls, CallStep(c) PROVE UNCHANGED <<stage, attempt, follow>>
  BY <1>8 DEF CallStep, RefuseCall, AttemptWrite, Reject, Dispatch, Act, Confirm, LoseTrack
<1>9. CASE Crash
  BY <1>9 DEF Crash
<1>10. ServerDies \/ Restart \/ UNCHANGED turnVars => UNCHANGED <<stage, attempt, follow>>
  BY DEF ServerDies, Restart, turnVars, volatile
<1> QED
  BY <1>1, <1>2, <1>4, <1>5, <1>6, <1>7, <1>8, <1>9, <1>10 DEF TurnNext, TurnStep, TaskStep

LEMMA AttemptMoves ==
  ASSUME TurnTypeOK, [TurnNext]_turnVars, NEW t \in AgentTurns, attempt'[t] # attempt[t]
  PROVE  StartAttempt(t) /\ attempt'[t] = attempt[t] + 1
<1>1. PICK u \in AgentTurns : StartAttempt(u)
  BY DEF TurnNext, TurnStep, TaskStep, CallStep, Mention, ClaimBatch, Cancel, AskForWrite,
     Complete, AttemptFails, ResetSkipped, ResetAtOnce, ResetWaits, Close,
     RecoverAgain, RecoverAsFailed, RecoveryError, RefuseCall, AttemptWrite, Reject, Dispatch,
     Act, Confirm, LoseTrack, ServerDies, Crash, Restart, unchangedByBegin, unchangedByCalls,
     volatile, turnVars
<1> QED
  BY <1>1 DEF StartAttempt, TurnTypeOK

LEMMA RowMoves ==
  ASSUME TurnTypeOK, FollowKnown, [TurnNext]_turnVars, NEW t \in AgentTurns
  PROVE  /\ \/ row'[t] = row[t]
            \/ row'[t] = "in_progress"
            \/ stage'[t] = "idle" /\ t \notin todo'
         /\ row'[t] = "new" => row[t] = "new"
         /\ t \in todo' => t \in todo \/ Restart
         /\ stage[t] # "idle" /\ stage'[t] = "idle" => t \notin todo'
<1> USE DEF TurnTypeOK, BeginTurn, EndTurn, unchangedByBegin, unchangedByCalls
<1>1. CASE UNCHANGED <<row, stage, todo>>
  BY <1>1
<1>2. ASSUME NEW u \in AgentTurns, TurnStep(u)
      PROVE  \/ UNCHANGED <<row, todo>> /\ stage' = [stage EXCEPT ![u] = stage'[u]] /\ stage'[u] # "idle"
             \/ BeginTurn(u) /\ UNCHANGED todo
             \/ \E state \in RowStates \ {"new"} : EndTurn(u, state)
             \/ UNCHANGED <<row, stage>> /\ todo' \subseteq todo
  <2>1. CASE Mention(u) \/ ClaimBatch(u) \/ RecoverAgain(u)
    BY <2>1 DEF Mention, ClaimBatch, RecoverAgain
  <2>2. CASE Cancel(u) \/ Complete(u) \/ RecoverAsFailed(u) \/ RecoveryError(u)
    BY <2>2 DEF Cancel, Complete, RecoverAsFailed, RecoveryError, durable
  <2>3. CASE AskForWrite(u) \/ StartAttempt(u) \/ AttemptFails(u) \/ ResetWaits(u)
    BY <2>3 DEF AskForWrite, StartAttempt, AttemptFails, ResetWaits, durable
  <2>4. CASE ResetSkipped(u) \/ ResetAtOnce(u) \/ Close(u)
    <3>1. AfterReset(u)
      BY <2>4 DEF ResetSkipped, ResetAtOnce, Close
    <3>2. CASE follow[u] = "retry"
      BY <3>1, <3>2 DEF AfterReset
    <3>3. CASE follow[u] # "retry" /\ follow[u] # "none"
      BY <3>1, <3>3 DEF AfterReset
    <3>4. follow[u] # "none"
      BY <2>4 DEF ResetSkipped, ResetAtOnce, Close, ResetApplies, FollowKnown
    <3> QED
      BY <3>2, <3>3, <3>4
  <2> QED
    BY <1>2, <2>1, <2>2, <2>3, <2>4 DEF TurnStep, TaskStep
<1>3. ASSUME NEW u \in AgentTurns, TurnStep(u)
      PROVE  /\ \/ row'[t] = row[t]
                \/ row'[t] = "in_progress"
                \/ stage'[t] = "idle" /\ t \notin todo'
             /\ row'[t] = "new" => row[t] = "new"
             /\ todo' \subseteq todo
             /\ stage[t] # "idle" /\ stage'[t] = "idle" => t \notin todo'
  <2>1. CASE u = t
    BY <1>2, <1>3, <2>1
  <2>2. CASE u # t
    BY <1>2, <1>3, <2>2
  <2> QED
    BY <2>1, <2>2
<1>4. ASSUME NEW c \in Calls, CallStep(c) PROVE UNCHANGED <<row, stage, todo>>
  BY <1>4 DEF CallStep, RefuseCall, AttemptWrite, Reject, Dispatch, Act, Confirm, LoseTrack
<1>5. CASE Crash
  BY <1>5 DEF Crash, durable
<1>6. CASE Restart
  BY <1>6 DEF Restart
<1>7. ServerDies \/ UNCHANGED turnVars => UNCHANGED <<row, stage, todo>>
  BY DEF ServerDies, turnVars, durable, volatile
<1> QED
  BY <1>1, <1>3, <1>4, <1>5, <1>6, <1>7 DEF TurnNext

LEMMA ProcessMoves ==
  ASSUME TurnTypeOK, [TurnNext]_turnVars
  PROVE  UNCHANGED <<up, life>> \/ Crash \/ Restart
BY DEF TurnNext, TurnStep, TaskStep, CallStep, Mention, ClaimBatch, Cancel, AskForWrite,
   StartAttempt, Complete, AttemptFails, ResetSkipped, ResetAtOnce, ResetWaits, Close,
   RecoverAgain, RecoverAsFailed, RecoveryError, RefuseCall, AttemptWrite, Reject, Dispatch,
   Act, Confirm, LoseTrack, ServerDies, unchangedByBegin, unchangedByCalls, process, turnVars

-------------------------------------------------------------------------------
(* Writes and attempts: the invariant *)

\* AgentTurns work while the process runs, and so do calls, in the life they were
\* made in; nothing is asked in attempts to come.
OnlyUp == \A t \in AgentTurns : stage[t] # "idle" \/ t \in todo => up
Unsent == \A c \in Calls : call[c] \in {"none", "checking"} => effect[c] = "open"
InThisLife == \A c \in Calls : call[c] \in RunningCalls => up /\ lifeOf[c] = life
Unasked == \A c \in Calls : c[2] > attempt[c[1]] => call[c] = "none"

Alive == OnlyUp /\ Unsent /\ InThisLife /\ Unasked

\* A mention is worked on, or listed for recovery, while its row is in progress.
UnderWay == \A t \in Mentions : stage[t] # "idle" \/ t \in todo => row[t] = "in_progress"
NotBegun == \A t \in Mentions : row[t] = "new" => attempt[t] = 0
Interrupted ==
    \A c \in Calls : c[1] \in todo /\ stage[c[1]] = "idle" => call[c] \notin RunningCalls

Rows == UnderWay /\ NotBegun /\ Interrupted

\* An attempt that is followed by another has no call left that may write, but
\* for those that were being checked when it ended.
Replayable(t) ==
    \/ stage[t] = "starting"
    \/ stage[t] \in {"broken", "closing"} /\ follow[t] = "retry"

Past(c) == c[2] < attempt[c[1]] \/ (c[2] = attempt[c[1]] /\ Replayable(c[1]))

AttemptsCounted == \A c \in Calls : c[1] \in Mentions /\ c \notin orphan /\ Past(c) => Dead(c)

\* None of the calls of an earlier life may write once the turn is resumed.
EarlierLife ==
    \A c \in Calls :
        /\ c[1] \in Mentions /\ stage[c[1]] # "idle"
        /\ call[c] # "none" /\ lifeOf[c] # life
        => Dead(c)

OtherLife ==
    \A c, d \in Calls :
        /\ c[1] \in Mentions /\ c[1] = d[1] /\ c[2] < d[2]
        /\ call[c] # "none" /\ call[d] # "none" /\ lifeOf[c] # lifeOf[d]
        => Dead(c)

Replay == Alive /\ Rows /\ AttemptsCounted /\ EarlierLife /\ OtherLife

\* What is dead stays so.
LEMMA DeadStays ==
  ASSUME TurnTypeOK, Ledger, [TurnNext]_turnVars, NEW c \in Calls, Dead(c), ~Asked(c)
  PROVE  Dead(c)'
BY CallMoves DEF Dead, RunningCalls, TurnTypeOK

LEMMA AskedFacts ==
  ASSUME TurnTypeOK, NEW c \in Calls, Asked(c)
  PROVE  /\ stage[c[1]] = "active" /\ UNCHANGED <<stage, attempt, life, up, row, todo, orphan, effect, follow>>
         /\ c[2] = attempt[c[1]] /\ call[c] = "none" /\ call'[c] = "checking"
         /\ lifeOf'[c] = life
BY DEF Asked, AskForWrite, Call, Proceed, TurnTypeOK, unchangedByCalls, process

LEMMA AliveStep ==
  ASSUME TurnTyped, Ledger, Alive, [TurnNext]_turnVars
  PROVE  Alive'
<1> USE TurnsTyped DEF TurnTyped
<1>1. OnlyUp'
  <2> SUFFICES ASSUME NEW t \in AgentTurns, stage'[t] # "idle" \/ t \in todo' PROVE up'
    BY DEF OnlyUp
  <2>1. CASE Restart
    BY <2>1 DEF Restart
  <2>2. CASE ~Restart
    <3>1. up
      BY <2>2, StageMoves, RowMoves DEF Alive, OnlyUp, Mention, ClaimBatch, RecoverAgain,
         Recovering, StartAttempt, AttemptFails, TurnTypeOK
    <3>2. ~Crash
      BY DEF Crash, TurnTypeOK
    <3> QED
      BY <2>2, <3>1, <3>2, ProcessMoves
  <2> QED
    BY <2>1, <2>2
<1>2. Unsent'
  BY CallMoves, AskedFacts DEF Alive, Unsent, TurnTypeOK
<1>3. InThisLife'
  <2> SUFFICES ASSUME NEW c \in Calls, call'[c] \in RunningCalls PROVE up' /\ lifeOf'[c] = life'
    BY DEF InThisLife
  <2>1. CASE Asked(c)
    <3>1. up
      BY <2>1, AskedFacts DEF Alive, OnlyUp
    <3> QED
      BY <2>1, <3>1, AskedFacts
  <2>2. CASE ~Asked(c)
    <3>1. up /\ lifeOf[c] = life /\ lifeOf'[c] = lifeOf[c]
      BY <2>2, CallMoves DEF Alive, InThisLife
    <3>2. ~Crash /\ ~Restart
      BY <3>1 DEF Crash, Cut, Restart, TurnTypeOK
    <3> QED
      BY <3>1, <3>2, ProcessMoves
  <2> QED
    BY <2>1, <2>2
<1>4. Unasked'
  <2> SUFFICES ASSUME NEW c \in Calls, c[2] > attempt'[c[1]] PROVE call'[c] = "none"
    BY DEF Unasked
  <2>1. c[2] > attempt[c[1]]
    BY AttemptMoves DEF TurnTypeOK
  <2>2. ~Asked(c)
    BY <2>1, AskedFacts DEF TurnTypeOK
  <2> QED
    BY <2>1, <2>2, CallMoves DEF Alive, Unasked
<1> QED
  BY <1>1, <1>2, <1>3, <1>4 DEF Alive

LEMMA RowsStep ==
  ASSUME TurnTyped, Ledger, Alive, Rows, [TurnNext]_turnVars
  PROVE  Rows'
<1> USE TurnsTyped, TurnAssumption DEF TurnTyped, TurnTypeOK
<1>1. UnderWay'
  <2> SUFFICES ASSUME NEW t \in Mentions, stage'[t] # "idle" \/ t \in todo'
               PROVE  row'[t] = "in_progress"
    BY DEF UnderWay
  <2>1. CASE Restart
    BY <2>1 DEF Restart, Alive, OnlyUp
  <2>2. CASE Mention(t) \/ ClaimBatch(t) \/ RecoverAgain(t)
    BY <2>2 DEF Mention, ClaimBatch, RecoverAgain, BeginTurn
  <2>3. CASE ~Restart /\ ~(Mention(t) \/ ClaimBatch(t) \/ RecoverAgain(t))
    <3>1. stage[t] # "idle" \/ t \in todo
      BY <2>3, StageMoves, RowMoves DEF StartAttempt, AttemptFails
    <3> QED
      BY <3>1, RowMoves DEF Rows, UnderWay
  <2> QED
    BY <2>1, <2>2, <2>3
<1>2. NotBegun'
  <2> SUFFICES ASSUME NEW t \in Mentions, row'[t] = "new" PROVE attempt'[t] = 0
    BY DEF NotBegun
  <2>1. row[t] = "new" /\ attempt[t] = 0
    BY RowMoves DEF Rows, NotBegun
  <2>2. ~StartAttempt(t)
    BY <2>1 DEF Rows, UnderWay, StartAttempt
  <2> QED
    BY <2>1, <2>2, AttemptMoves
<1>3. Interrupted'
  <2> SUFFICES ASSUME NEW c \in Calls, c[1] \in todo', stage'[c[1]] = "idle", call'[c] \in RunningCalls
               PROVE  FALSE
    BY DEF Interrupted
  <2>1. ~Asked(c)
    BY AskedFacts
  <2>2. call[c] \in RunningCalls /\ up
    BY <2>1, CallMoves DEF Alive, InThisLife
  <2>3. ~Restart
    BY <2>2 DEF Restart
  <2>4. c[1] \in todo /\ stage[c[1]] = "idle"
    BY <2>3, RowMoves
  <2> QED
    BY <2>2, <2>4 DEF Rows, Interrupted
<1> QED
  BY <1>1, <1>2, <1>3 DEF Rows

\* A recovery goes ahead only if no call of the mention may write.
LEMMA RecoveredDead ==
  ASSUME TurnTyped, Rows, NEW c \in Calls, RecoverAgain(c[1]), stage[c[1]] = "idle"
  PROVE  Dead(c)
BY DEF RecoverAgain, Recovering, ReplayBarrier, CallsOf, CrossedStates, Rows, Interrupted, Dead,
   TurnTyped, TurnTypeOK

\* What lies before the next attempt lies before this one or is this one.
LEMMA NotPastNext == \A n, k \in Nat : k < n + 1 => k < n \/ k = n
OBVIOUS

LEMMA AttemptsCountedStep ==
  ASSUME TurnTyped, Ledger, Alive, Rows, AttemptsCounted, [TurnNext]_turnVars
  PROVE  AttemptsCounted'
<1> USE TurnsTyped, TurnAssumption DEF TurnTyped, TurnTypeOK
<1> SUFFICES ASSUME NEW c \in Calls, c[1] \in Mentions, c \notin orphan', Past(c)'
             PROVE  Dead(c)'
  BY DEF AttemptsCounted
<1>1. c \notin orphan
  BY CallMoves
<1>2. ~Asked(c)
  BY AskedFacts DEF Past, Replayable
<1>3. CASE Past(c)
  BY <1>1, <1>2, <1>3, DeadStays DEF AttemptsCounted
<1>4. CASE ~Past(c)
  <2>1. ~StartAttempt(c[1])
    <3> SUFFICES ASSUME StartAttempt(c[1]) PROVE FALSE
      OBVIOUS
    <3>1. Replayable(c[1]) /\ ~Replayable(c[1])'
      BY DEF StartAttempt, Replayable
    <3>2. attempt'[c[1]] = attempt[c[1]] + 1
      BY DEF StartAttempt
    <3>3. c[2] \in Nat /\ attempt[c[1]] \in Nat
      BY DEF Calls
    <3>4. c[2] < attempt[c[1]] + 1
      <4>1. c[2] < attempt'[c[1]]
        BY <3>1 DEF Past
      <4> QED
        BY <3>2, <4>1, Zenon
    <3>5. c[2] < attempt[c[1]] \/ c[2] = attempt[c[1]]
      <4> HIDE DEF TurnTypeOK
      <4> QED
        BY <3>3, <3>4, NotPastNext, Zenon
    <3>6. Past(c)
      BY <3>1, <3>5 DEF Past
    <3> QED
      BY <1>4, <3>6
  <2>2. attempt'[c[1]] = attempt[c[1]] /\ c[2] = attempt[c[1]]
    BY <1>4, <2>1, AttemptMoves DEF Past
  <2>3. Replayable(c[1])' /\ ~Replayable(c[1])
    BY <1>4, <2>2 DEF Past
  <2>4. CASE Mention(c[1])
    BY <2>2, <2>4 DEF Mention, Rows, NotBegun
  <2>5. CASE RecoverAgain(c[1])
    <3>1. stage[c[1]] = "idle"
      BY <2>5 DEF RecoverAgain, Recovering
    <3> QED
      BY <1>2, <2>5, <3>1, RecoveredDead, DeadStays
  <2>6. CASE AttemptFails(c[1])
    <3>1. c = Call(c[1])
      BY <2>2 DEF Call
    <3>2. follow'[c[1]] = "retry"
      BY <2>3, <2>6 DEF Replayable, AttemptFails
    <3>3. call[c] \in {"none", "checking"}
      BY <2>6, <3>1, <3>2 DEF AttemptFails, WriteAttempted
    <3>4. call[c] # "checking"
      BY <2>6, <3>1 DEF AttemptFails
    <3>5. Dead(c)
      BY <3>3, <3>4 DEF Alive, Unsent, Dead
    <3> QED
      BY <1>2, <3>5, DeadStays
  <2>7. stage'[c[1]] # "idle"
    BY <2>3 DEF Replayable
  <2>8. ~ClaimBatch(c[1])
    BY DEF ClaimBatch
  <2> QED
    BY <2>1, <2>3, <2>4, <2>5, <2>6, <2>7, <2>8, StageMoves DEF Replayable
<1> QED
  BY <1>3, <1>4

LEMMA EarlierLifeStep ==
  ASSUME TurnTyped, Ledger, Alive, Rows, EarlierLife, [TurnNext]_turnVars
  PROVE  EarlierLife'
<1> USE TurnsTyped, TurnAssumption DEF TurnTyped, TurnTypeOK
<1> SUFFICES ASSUME NEW c \in Calls, c[1] \in Mentions, stage'[c[1]] # "idle",
                    call'[c] # "none", lifeOf'[c] # life'
             PROVE  Dead(c)'
  BY DEF EarlierLife
<1>1. ~Asked(c)
  BY AskedFacts
<1>2. call[c] # "none" /\ lifeOf'[c] = lifeOf[c]
  BY <1>1, CallMoves
<1>3. ~Crash /\ ~Restart
  BY DEF Crash, Restart, Alive, OnlyUp
<1>4. lifeOf[c] # life
  BY <1>2, <1>3, ProcessMoves
<1>5. CASE stage[c[1]] # "idle"
  BY <1>1, <1>2, <1>4, <1>5, DeadStays DEF EarlierLife
<1>6. CASE stage[c[1]] = "idle"
  <2>1. CASE Mention(c[1])
    BY <1>2, <2>1 DEF Mention, Rows, NotBegun, Alive, Unasked
  <2>2. CASE RecoverAgain(c[1])
    BY <1>1, <1>6, <2>2, RecoveredDead, DeadStays
  <2>3. ~ClaimBatch(c[1])
    BY DEF ClaimBatch
  <2> QED
    BY <1>6, <2>1, <2>2, <2>3, StageMoves DEF StartAttempt, AttemptFails
<1> QED
  BY <1>5, <1>6

LEMMA OtherLifeStep ==
  ASSUME TurnTyped, Ledger, Alive, EarlierLife, OtherLife, [TurnNext]_turnVars
  PROVE  OtherLife'
<1> USE TurnsTyped, TurnAssumption DEF TurnTyped, TurnTypeOK
<1> SUFFICES ASSUME NEW c \in Calls, NEW d \in Calls, c[1] \in Mentions, c[1] = d[1], c[2] < d[2],
                    call'[c] # "none", call'[d] # "none", lifeOf'[c] # lifeOf'[d]
             PROVE  Dead(c)'
  BY DEF OtherLife
<1>1. ~Asked(c)
  <2> SUFFICES ASSUME Asked(c) PROVE FALSE
    OBVIOUS
  <2>1. d[2] > attempt[d[1]]
    BY AskedFacts
  <2>2. call[d] = "none" /\ ~Asked(d)
    BY <2>1, AskedFacts DEF Alive, Unasked
  <2> QED
    BY <2>2, CallMoves
<1>2. call[c] # "none" /\ lifeOf'[c] = lifeOf[c]
  BY <1>1, CallMoves
<1>3. CASE Asked(d)
  <2>1. stage[c[1]] # "idle" /\ lifeOf[c] # life
    BY <1>2, <1>3, AskedFacts
  <2> QED
    BY <1>1, <1>2, <2>1, DeadStays DEF EarlierLife
<1>4. CASE ~Asked(d)
  <2>1. call[d] # "none" /\ lifeOf'[d] = lifeOf[d]
    BY <1>4, CallMoves
  <2> QED
    BY <1>1, <1>2, <2>1, DeadStays DEF OtherLife
<1> QED
  BY <1>3, <1>4

LEMMA ReplayInvariant == TurnSpec => []Replay
<1>1. TurnInit => Replay
  BY TurnsTyped, TurnAssumption DEF TurnInit, Replay, Alive, OnlyUp, Unsent, InThisLife, Unasked,
     Rows, UnderWay, NotBegun, Interrupted, AttemptsCounted, Dead, EarlierLife, OtherLife
<1>2. TurnTyped /\ Ledger /\ Replay /\ [TurnNext]_turnVars => Replay'
  BY AliveStep, RowsStep, AttemptsCountedStep, EarlierLifeStep, OtherLifeStep DEF Replay, TurnTyped
<1> QED
  BY <1>1, <1>2, TurnTypedInvariant, LedgerInvariant, PTL DEF TurnSpec

\* Neither the retry of an attempt (codex.py, respond) nor the recovery of a
\* mention (cogs.py, _recover_interrupted_mentions) repeats a write that the
\* attempt had counted, for any turns, attempts and lives.
THEOREM RepeatsAreOrphansHolds == TurnSpec => []RepeatsAreOrphans
<1>1. TurnTyped /\ Ledger /\ Replay => RepeatsAreOrphans
  <2> SUFFICES ASSUME TurnTyped, Ledger, Replay, NEW c \in Calls, NEW d \in Calls,
                      c[1] \in Mentions, Repeated(c, d)
               PROVE  c \in orphan /\ lifeOf[c] = lifeOf[d]
    BY DEF RepeatsAreOrphans
  <2>1. /\ c[1] = d[1] /\ c[2] < d[2]
        /\ effect[c] # "open" /\ effect[d] # "open"
    BY DEF Repeated, Ledger, LedgerHonest
  <2>2. call[c] # "none" /\ call[d] # "none"
    BY <2>1 DEF Replay, Alive, Unsent
  <2>3. ~Dead(c)
    BY <2>1 DEF Dead
  <2>4. c[2] < attempt[c[1]]
    BY <2>1, <2>2, TurnsTyped DEF Replay, Alive, Unasked, TurnTyped, TurnTypeOK
  <2>5. c \in orphan
    BY <2>3, <2>4 DEF Replay, AttemptsCounted, Past
  <2>6. lifeOf[c] = lifeOf[d]
    BY <2>1, <2>2, <2>3 DEF Replay, OtherLife
  <2> QED
    BY <2>5, <2>6
<1> QED
  BY <1>1, TurnTypedInvariant, LedgerInvariant, ReplayInvariant, PTL

===============================================================================
