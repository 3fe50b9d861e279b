-------------------------- MODULE LockAndRoomProofs ---------------------------
(***************************************************************************)
(* Proofs about KeyedAsyncLockPool, for any finite set of tasks and any    *)
(* keys, with the inductive invariant behind mutual exclusion; and, from   *)
(* "Temporary voice rooms" on, about TempVoiceRooms, whose deletion tasks  *)
(* and handlers hold such locks by room: for any rooms, members and        *)
(* handlers, that no channel is forgotten and none is deleted unjustly.    *)
(***************************************************************************)
EXTENDS KeyedAsyncLockPool, TempVoiceRooms, FiniteSetTheorems, TLAPS

Using(o) == {t \in Tasks : obj[t] = o}

\* A task is somewhere in hold() exactly when it has a key and a lock state,
\* and the table still leads from the one to the other.
HasEntry ==
    \A t \in Tasks :
        /\ pc[t] = "idle" => key[t] = None /\ obj[t] = None
        /\ pc[t] # "idle" => key[t] \in Keys /\ obj[t] \in Objs /\ table[key[t]] = obj[t]

\* No two keys share a lock state, and an entry is as used as its count says.
TableExact ==
    /\ \A k, m \in Keys : table[k] # None /\ table[k] = table[m] => k = m
    /\ \A k \in Keys : table[k] # None =>
          /\ users[table[k]] = Cardinality(Using(table[k]))
          /\ Using(table[k]) # {}

\* The queue of a lock state in use lists its waiting tasks, each once.
QueueExact ==
    /\ \A t \in Tasks : pc[t] = "waiting" => \E i \in DOMAIN waiters[obj[t]] : waiters[obj[t]][i] = t
    /\ \A t \in Tasks : pc[t] # "waiting" => future[t] = "none"
    /\ \A k \in Keys : table[k] # None =>
          LET q == waiters[table[k]] IN
          /\ \A i \in DOMAIN q : pc[q[i]] = "waiting" /\ obj[q[i]] = table[k]
          /\ \A i, j \in DOMAIN q : q[i] = q[j] => i = j

\* A resolved future is the first of its queue, and its lock is free.
WakeExact ==
    \A t \in Tasks : future[t] \in {"resolved", "revoked"} =>
        /\ ~locked[obj[t]]
        /\ waiters[obj[t]] # <<>>
        /\ waiters[obj[t]][1] = t

\* A task that holds has the lock flag set, and is alone in that.
LockExact ==
    /\ \A t \in Tasks : Holds(t) => locked[obj[t]]
    /\ \A t, u \in Tasks : Holds(t) /\ Holds(u) /\ obj[t] = obj[u] => t = u

IInv == TypeOK /\ HasEntry /\ TableExact /\ QueueExact /\ WakeExact /\ LockExact

-------------------------------------------------------------------------------
(* Removing a task from a queue that lists it once keeps everybody else,   *)
(* in order.                                                               *)
LEMMA WithoutFacts ==
  ASSUME NEW q \in Seq(Tasks), NEW t \in Tasks,
         \E i \in DOMAIN q : q[i] = t,
         \A i, j \in DOMAIN q : q[i] = q[j] => i = j
  PROVE  /\ Without(q, t) \in Seq(Tasks)
         /\ \A i \in DOMAIN Without(q, t) :
               /\ Without(q, t)[i] # t
               /\ \E j \in DOMAIN q : q[j] = Without(q, t)[i]
         /\ \A u \in Tasks : u # t /\ (\E i \in DOMAIN q : q[i] = u)
               => \E i \in DOMAIN Without(q, t) : Without(q, t)[i] = u
         /\ \A i, j \in DOMAIN Without(q, t) :
               Without(q, t)[i] = Without(q, t)[j] => i = j
         /\ q[1] # t => Without(q, t) # <<>> /\ Without(q, t)[1] = q[1]
<1> DEFINE at == CHOOSE i \in DOMAIN q :
                    q[i] = t /\ \A j \in DOMAIN q : q[j] = t => i <= j
           r == [j \in 1 .. Len(q) - 1 |-> q[IF j < at THEN j ELSE j + 1]]
<1>1. at \in 1 .. Len(q) /\ q[at] = t
  <2>1. PICK i \in DOMAIN q : q[i] = t
    OBVIOUS
  <2>2. \A j \in DOMAIN q : q[j] = t => i <= j
    BY <2>1
  <2>3. QED
    BY <2>1, <2>2
<1>2. Without(q, t) = r
  BY DEF Without
<1> HIDE DEF at
<1>3. r \in Seq(Tasks) /\ Len(r) = Len(q) - 1 /\ DOMAIN r = 1 .. Len(q) - 1
  BY <1>1
<1>4. \A i \in DOMAIN r : r[i] # t /\ \E j \in DOMAIN q : q[j] = r[i]
  BY <1>1, <1>3
<1>5. ASSUME NEW u \in Tasks, u # t, NEW i \in DOMAIN q, q[i] = u
      PROVE  \E j \in DOMAIN r : r[j] = u
  <2>1. CASE i < at
    <3>1. i \in DOMAIN r /\ r[i] = u
      BY <1>1, <1>3, <1>5, <2>1
    <3>2. QED
      BY <3>1
  <2>2. CASE i > at
    <3>1. i - 1 \in DOMAIN r /\ r[i - 1] = u
      BY <1>1, <1>3, <1>5, <2>2
    <3>2. QED
      BY <3>1
  <2>3. QED
    BY <1>1, <1>5, <2>1, <2>2
<1>6. \A i, j \in DOMAIN r : r[i] = r[j] => i = j
  BY <1>1, <1>3
<1>7. ASSUME q[1] # t PROVE r # <<>> /\ r[1] = q[1]
  <2>1. at > 1 /\ Len(q) >= 2
    BY <1>1, <1>7
  <2>2. Len(r) >= 1 /\ r[1] = q[1]
    BY <1>3, <2>1
  <2> HIDE DEF r
  <2>3. QED
    BY <1>3, <2>2
<1> HIDE DEF r
<1>8. QED
  BY <1>2, <1>3, <1>4, <1>5, <1>6, <1>7

-------------------------------------------------------------------------------
(* One lemma per action: it preserves the invariant.                       *)

LEMMA HoldStep ==
  ASSUME IInv, NEW t \in Tasks, NEW k \in Keys, Hold(t, k)
  PROVE  IInv'
<1>1. PICK o \in Objs :
        /\ StateFor(k, o)
        /\ table' = [table EXCEPT ![k] = o]
        /\ users' = [users EXCEPT ![o] = UsersAfter(k, o)]
        /\ key' = [key EXCEPT ![t] = k]
        /\ obj' = [obj EXCEPT ![t] = o]
        /\ \/ /\ table[k] = None \/ FastPath(o)
              /\ pc' = [pc EXCEPT ![t] = "holding"]
              /\ locked' = [locked EXCEPT ![o] = TRUE]
              /\ waiters' = [waiters EXCEPT ![o] = IF table[k] = None THEN <<>> ELSE @]
              /\ UNCHANGED future
           \/ /\ table[k] = o /\ ~FastPath(o)
              /\ pc' = [pc EXCEPT ![t] = "waiting"]
              /\ waiters' = [waiters EXCEPT ![o] = Append(@, t)]
              /\ future' = [future EXCEPT ![t] = "pending"]
              /\ UNCHANGED locked
  BY DEF Hold
<1> USE DEF IInv
<1>0. pc[t] = "idle"
  BY DEF Hold
<1>2. TypeOK'
  <2> USE DEF TypeOK
  <2>1. table' \in [Keys -> Objs \union {None}] /\ users' \in [Objs -> Nat]
    BY <1>1 DEF UsersAfter
  <2>2. key' \in [Tasks -> Keys \union {None}] /\ obj' \in [Tasks -> Objs \union {None}]
    BY <1>1
  <2>3. waiters' \in [Objs -> Seq(Tasks)]
    <3>1. PICK q \in Seq(Tasks) : waiters' = [waiters EXCEPT ![o] = q]
      <4>1. waiters[o] \in Seq(Tasks) /\ <<>> \in Seq(Tasks) /\ Append(waiters[o], t) \in Seq(Tasks)
        OBVIOUS
      <4>2. \/ waiters' = [waiters EXCEPT ![o] = <<>>]
            \/ waiters' = [waiters EXCEPT ![o] = waiters[o]]
            \/ waiters' = [waiters EXCEPT ![o] = Append(waiters[o], t)]
        BY <1>1
      <4>3. QED
        BY <4>1, <4>2
    <3>2. QED
      BY <3>1
  <2>4. future' \in [Tasks -> FutureStates] /\ pc' \in [Tasks -> Places]
    BY <1>1 DEF FutureStates, Places
  <2>5. locked' \in [Objs -> BOOLEAN]
    BY <1>1
  <2>6. QED
    BY <2>1, <2>2, <2>3, <2>4, <2>5
<1>3. HasEntry'
  BY <1>1, PoolAssumption DEF HasEntry, TypeOK, StateFor, Referenced
<1>4. TableExact'
  <2>1. o # None /\ table'[k] = o
    BY <1>1, PoolAssumption DEF TypeOK
  <2>2. \A x, y \in Keys : table'[x] # None /\ table'[x] = table'[y] => x = y
    BY <1>1, PoolAssumption DEF TableExact, TypeOK, StateFor, Referenced
  <2>3. IsFiniteSet(Using(o)) /\ t \notin Using(o)
    <3>1. t \notin Using(o)
      BY <1>0, <2>1 DEF HasEntry, Using
    <3>2. QED
      BY <3>1, PoolAssumption, FS_Subset DEF Using
  <2>4. Using(o)' = Using(o) \union {t}
    BY <1>1 DEF Using, TypeOK
  <2>5. users'[o] = Cardinality(Using(o)')
    <3>1. CASE table[k] = o
      <4>1. Cardinality(Using(o)') = Cardinality(Using(o)) + 1
        BY <2>3, <2>4, FS_AddElement
      <4>2. QED
        BY <1>1, <2>1, <3>1, <4>1 DEF TableExact, TypeOK, UsersAfter
    <3>2. CASE table[k] # o
      <4>1. Using(o) = {}
        BY <1>1, <3>2 DEF StateFor, Referenced, Using
      <4>2. Using(o)' = {t}
        BY <2>4, <4>1
      <4>3. Cardinality(Using(o)') = 1
        BY <4>2, FS_Singleton
      <4>4. QED
        BY <1>1, <3>2, <4>3 DEF TypeOK, UsersAfter
    <3>3. QED
      BY <3>1, <3>2
  <2>6. ASSUME NEW m \in Keys, m # k, table'[m] # None
        PROVE  users'[table'[m]] = Cardinality(Using(table[m])') /\ Using(table[m])' # {}
    <3>1. table'[m] = table[m] /\ table[m] # o /\ table[m] \in Objs
      BY <1>1, <2>1, <2>2, <2>6 DEF TypeOK
    <3>2. Using(table[m])' = Using(table[m])
      BY <1>0, <1>1, <2>6, <3>1, PoolAssumption DEF Using, HasEntry, TypeOK
    <3>3. users'[table[m]] = users[table[m]]
      BY <1>1, <3>1 DEF TypeOK
    <3>4. QED
      BY <2>6, <3>1, <3>2, <3>3 DEF TableExact
  <2>7. Using(table[k])' = Using(o)'
    BY <2>1 DEF Using
  <2>8. users'[table'[k]] = Cardinality(Using(table[k])') /\ Using(table[k])' # {}
    BY <2>1, <2>4, <2>5, <2>7
  <2>9. QED
    BY <2>2, <2>6, <2>8 DEF TableExact
<1>5. QueueExact'
  <2>1. ASSUME NEW u \in Tasks
        PROVE  /\ pc'[u] = "waiting" => \E i \in DOMAIN waiters'[obj'[u]] : waiters'[obj'[u]][i] = u
               /\ pc'[u] # "waiting" => future'[u] = "none"
    <3>1. CASE u = t
      <4>1. CASE pc'[t] = "waiting"
        <5>1. waiters'[o] = Append(waiters[o], t) /\ obj'[t] = o
          BY <1>1, <4>1 DEF TypeOK
        <5>2. waiters[o] \in Seq(Tasks)
          BY DEF TypeOK
        <5>3. Len(waiters[o]) + 1 \in DOMAIN waiters'[o] /\ waiters'[o][Len(waiters[o]) + 1] = t
          BY <5>1, <5>2
        <5>4. QED
          BY <3>1, <4>1, <5>1, <5>3
      <4>2. CASE pc'[t] # "waiting"
        <5>1. future' = future
          BY <1>1, <4>2 DEF TypeOK
        <5>2. QED
          BY <1>0, <3>1, <4>2, <5>1 DEF QueueExact
      <4>3. QED
        BY <4>1, <4>2
    <3>2. CASE u # t
      <4>1. pc'[u] = pc[u] /\ future'[u] = future[u] /\ obj'[u] = obj[u]
        BY <1>1, <3>2 DEF TypeOK
      <4>2. ASSUME pc[u] = "waiting"
            PROVE  \E i \in DOMAIN waiters'[obj[u]] : waiters'[obj[u]][i] = u
        <5>1. obj[u] \in Objs /\ (obj[u] = o => table[k] = o)
          BY <1>1, <4>2 DEF HasEntry, StateFor, Referenced
        <5>2. PICK i \in DOMAIN waiters[obj[u]] : waiters[obj[u]][i] = u
          BY <4>2 DEF QueueExact
        <5>3. waiters[obj[u]] \in Seq(Tasks)
          BY <5>1 DEF TypeOK
        <5>4. i \in DOMAIN waiters'[obj[u]] /\ waiters'[obj[u]][i] = u
          <6>1. CASE obj[u] = o
            <7>1. waiters'[o] = waiters[o] \/ waiters'[o] = Append(waiters[o], t)
              BY <1>1, <5>1, <6>1, PoolAssumption DEF TypeOK
            <7>2. QED
              BY <5>2, <5>3, <6>1, <7>1
          <6>2. CASE obj[u] # o
            BY <1>1, <5>1, <5>2, <6>2 DEF TypeOK
          <6>3. QED
            BY <6>1, <6>2
        <5>5. QED
          BY <5>4
      <4>3. QED
        BY <4>1, <4>2 DEF QueueExact
    <3>3. QED
      BY <3>1, <3>2
  <2>2. ASSUME NEW m \in Keys, table'[m] # None
        PROVE  LET q == waiters'[table'[m]] IN
               /\ \A i \in DOMAIN q : pc'[q[i]] = "waiting" /\ obj'[q[i]] = table'[m]
               /\ \A i, j \in DOMAIN q : q[i] = q[j] => i = j
    <3>1. CASE m = k
      <4>1. table'[m] = o /\ waiters[o] \in Seq(Tasks) /\ o # None
        BY <1>1, <3>1, PoolAssumption DEF TypeOK
      <4>2. CASE table[k] = None
        BY <1>1, <4>1, <4>2 DEF TypeOK
      <4>3. CASE table[k] = o
        <5>1. /\ \A i \in DOMAIN waiters[o] : pc[waiters[o][i]] = "waiting" /\ obj[waiters[o][i]] = o
              /\ \A i, j \in DOMAIN waiters[o] : waiters[o][i] = waiters[o][j] => i = j
          <6>1. table[k] # None
            BY <4>1, <4>3
          <6>2. LET q == waiters[table[k]] IN
                /\ \A i \in DOMAIN q : pc[q[i]] = "waiting" /\ obj[q[i]] = table[k]
                /\ \A i, j \in DOMAIN q : q[i] = q[j] => i = j
            BY <6>1 DEF QueueExact
          <6>3. QED
            BY <6>2, <4>3
        <5>2. \A i \in DOMAIN waiters[o] : waiters[o][i] \in Tasks /\ waiters[o][i] # t
          BY <1>0, <4>1, <5>1
        <5>3. \/ waiters'[o] = waiters[o] /\ pc'[t] = "holding"
              \/ waiters'[o] = Append(waiters[o], t) /\ pc'[t] = "waiting"
          BY <1>1, <4>1, <4>3 DEF TypeOK
        <5>4. \A u \in Tasks : u # t => pc'[u] = pc[u] /\ obj'[u] = obj[u]
          BY <1>1 DEF TypeOK
        <5>5. obj'[t] = o
          BY <1>1 DEF TypeOK
        <5>6. CASE waiters'[o] = waiters[o]
          BY <4>1, <5>1, <5>2, <5>4, <5>6
        <5>7. CASE waiters'[o] = Append(waiters[o], t) /\ pc'[t] = "waiting"
          BY <4>1, <5>1, <5>2, <5>4, <5>5, <5>7
        <5>8. QED
          BY <5>3, <5>6, <5>7
      <4>4. QED
        BY <1>1, <4>2, <4>3 DEF StateFor
    <3>2. CASE m # k
      <4>1. table'[m] = table[m] /\ table[m] \in Objs /\ table[m] # o
        BY <1>1, <1>4, <2>2, <3>2 DEF TypeOK, TableExact
      <4>2. waiters'[table[m]] = waiters[table[m]]
        BY <1>1, <4>1 DEF TypeOK
      <4>3. \A u \in Tasks : u # t => pc'[u] = pc[u] /\ obj'[u] = obj[u]
        BY <1>1 DEF TypeOK
      <4>4. waiters[table[m]] \in Seq(Tasks)
        BY <4>1 DEF TypeOK
      <4>5. \A i \in DOMAIN waiters[table[m]] : waiters[table[m]][i] \in Tasks /\ waiters[table[m]][i] # t
        BY <1>0, <2>2, <3>2, <4>1, <4>4 DEF QueueExact
      <4>6. QED
        BY <2>2, <4>1, <4>2, <4>3, <4>5 DEF QueueExact
    <3>3. QED
      BY <3>1, <3>2
  <2>3. QED
    BY <2>1, <2>2 DEF QueueExact
<1>6. WakeExact'
  <2> SUFFICES ASSUME NEW u \in Tasks, future'[u] \in {"resolved", "revoked"}
               PROVE  /\ ~locked'[obj'[u]]
                      /\ waiters'[obj'[u]] # <<>>
                      /\ waiters'[obj'[u]][1] = u
    BY DEF WakeExact
  <2>1. u # t /\ future[u] = future'[u] /\ obj'[u] = obj[u] /\ pc[u] = "waiting"
    BY <1>0, <1>1 DEF QueueExact, TypeOK
  <2>2. obj[u] \in Objs /\ waiters[obj[u]] \in Seq(Tasks) /\ (obj[u] = o => table[k] = o)
    BY <1>1, <2>1 DEF HasEntry, StateFor, Referenced, TypeOK
  <2>3. ~locked[obj[u]] /\ waiters[obj[u]] # <<>> /\ waiters[obj[u]][1] = u
    BY <2>1 DEF WakeExact
  <2>4. CASE obj[u] = o
    <3>1. ~FastPath(o)
      BY <2>1, <2>2, <2>3, <2>4 DEF FastPath, IsCancelled
    <3>2. waiters'[o] = Append(waiters[o], t) /\ locked' = locked
      BY <1>1, <2>2, <2>4, <3>1, PoolAssumption DEF TypeOK
    <3>3. QED
      BY <2>1, <2>2, <2>3, <2>4, <3>2
  <2>5. CASE obj[u] # o
    BY <1>1, <2>1, <2>2, <2>3, <2>5 DEF TypeOK
  <2>6. QED
    BY <2>4, <2>5
<1>7. LockExact'
  BY <1>0, <1>1, PoolAssumption
    DEF LockExact, Holds, HasEntry, TypeOK, StateFor, Referenced, FastPath
<1>8. QED
  BY <1>2, <1>3, <1>4, <1>5, <1>6, <1>7

\* What is left of its queue when a waiting task takes itself out.
LEMMA Dequeue ==
  ASSUME IInv, NEW t \in Tasks, pc[t] = "waiting"
  PROVE  LET o == obj[t]
             q == waiters[o]
             r == Without(q, t)
         IN  /\ o \in Objs /\ q \in Seq(Tasks) /\ r \in Seq(Tasks)
             /\ \A i \in DOMAIN r : r[i] # t /\ \E j \in DOMAIN q : q[j] = r[i]
             /\ \A u \in Tasks : u # t /\ (\E i \in DOMAIN q : q[i] = u)
                   => \E i \in DOMAIN r : r[i] = u
             /\ \A i, j \in DOMAIN r : r[i] = r[j] => i = j
             /\ q[1] # t => r # <<>> /\ r[1] = q[1]
             /\ \A i \in DOMAIN q : pc[q[i]] = "waiting" /\ obj[q[i]] = o
<1> DEFINE o == obj[t]
           q == waiters[o]
<1>1. key[t] \in Keys /\ o \in Objs /\ table[key[t]] = o /\ o # None
  BY PoolAssumption DEF IInv, HasEntry
<1>2. q \in Seq(Tasks)
  BY <1>1 DEF IInv, TypeOK
<1>3. \E i \in DOMAIN q : q[i] = t
  BY DEF IInv, QueueExact
<1>4. LET p == waiters[table[key[t]]] IN
      /\ \A i \in DOMAIN p : pc[p[i]] = "waiting" /\ obj[p[i]] = table[key[t]]
      /\ \A i, j \in DOMAIN p : p[i] = p[j] => i = j
  BY <1>1 DEF IInv, QueueExact
<1>5. /\ \A i \in DOMAIN q : pc[q[i]] = "waiting" /\ obj[q[i]] = o
      /\ \A i, j \in DOMAIN q : q[i] = q[j] => i = j
  BY <1>1, <1>4
<1> HIDE DEF q, o
<1>6. /\ Without(q, t) \in Seq(Tasks)
      /\ \A i \in DOMAIN Without(q, t) :
            /\ Without(q, t)[i] # t
            /\ \E j \in DOMAIN q : q[j] = Without(q, t)[i]
      /\ \A u \in Tasks : u # t /\ (\E i \in DOMAIN q : q[i] = u)
            => \E i \in DOMAIN Without(q, t) : Without(q, t)[i] = u
      /\ \A i, j \in DOMAIN Without(q, t) :
            Without(q, t)[i] = Without(q, t)[j] => i = j
      /\ q[1] # t => Without(q, t) # <<>> /\ Without(q, t)[1] = q[1]
  BY <1>2, <1>3, <1>5, WithoutFacts
<1>7. QED
  BY <1>1, <1>2, <1>5, <1>6 DEF q, o

\* Taking itself out of its queue, a task leaves every queue exact.
LEMMA DequeueKeepsQueueExact ==
  ASSUME IInv, NEW t \in Tasks, pc[t] = "waiting",
         waiters' = [waiters EXCEPT ![obj[t]] = Without(@, t)],
         NEW stage \in Places, stage # "waiting",
         pc' = [pc EXCEPT ![t] = stage],
         UNCHANGED <<table, obj>>,
         future'[t] = "none",
         \A u \in Tasks : pc[u] # "waiting" => future'[u] = "none"
  PROVE  QueueExact'
<1> DEFINE o == obj[t]
           q == waiters[o]
           r == Without(q, t)
<1>1. /\ o \in Objs /\ q \in Seq(Tasks) /\ r \in Seq(Tasks)
      /\ \A i \in DOMAIN r : r[i] # t /\ \E j \in DOMAIN q : q[j] = r[i]
      /\ \A u \in Tasks : u # t /\ (\E i \in DOMAIN q : q[i] = u)
            => \E i \in DOMAIN r : r[i] = u
      /\ \A i, j \in DOMAIN r : r[i] = r[j] => i = j
      /\ \A i \in DOMAIN q : pc[q[i]] = "waiting" /\ obj[q[i]] = o
  BY Dequeue
<1>2. /\ waiters' = [waiters EXCEPT ![o] = r]
      /\ waiters'[o] = r
      /\ \A x \in Objs : x # o => waiters'[x] = waiters[x]
  BY <1>1 DEF IInv, TypeOK
<1> HIDE DEF r, q, o
<1>3. pc'[t] = stage /\ \A u \in Tasks : u # t => pc'[u] = pc[u]
  BY DEF IInv, TypeOK
<1>4. ASSUME NEW u \in Tasks, pc'[u] = "waiting"
      PROVE  \E i \in DOMAIN waiters'[obj'[u]] : waiters'[obj'[u]][i] = u
  <2>1. u # t /\ pc[u] = "waiting" /\ obj[u] \in Objs /\ obj'[u] = obj[u]
    BY <1>3, <1>4 DEF IInv, HasEntry
  <2>2. \E i \in DOMAIN waiters[obj[u]] : waiters[obj[u]][i] = u
    BY <2>1 DEF IInv, QueueExact
  <2>3. CASE obj[u] = o
    <3>1. \E i \in DOMAIN q : q[i] = u
      BY <2>2, <2>3 DEF q
    <3>2. \E i \in DOMAIN r : r[i] = u
      BY <1>1, <2>1, <3>1
    <3>3. QED
      BY <1>2, <2>1, <2>3, <3>2
  <2>4. CASE obj[u] # o
    BY <1>2, <2>1, <2>2, <2>4
  <2>5. QED
    BY <2>3, <2>4
<1>5. ASSUME NEW m \in Keys, table'[m] # None
      PROVE  LET p == waiters'[table'[m]] IN
             /\ \A i \in DOMAIN p : pc'[p[i]] = "waiting" /\ obj'[p[i]] = table'[m]
             /\ \A i, j \in DOMAIN p : p[i] = p[j] => i = j
  <2>1. table'[m] = table[m] /\ table[m] \in Objs
    BY <1>5 DEF IInv, TypeOK
  <2>2. CASE table[m] = o
    <3>1. \A i \in DOMAIN r : r[i] \in Tasks /\ r[i] # t /\ pc[r[i]] = "waiting" /\ obj[r[i]] = o
      BY <1>1
    <3>2. \A i \in DOMAIN r : pc'[r[i]] = "waiting" /\ obj'[r[i]] = o
      BY <1>3, <3>1
    <3>3. QED
      BY <1>1, <1>2, <2>1, <2>2, <3>2
  <2>3. CASE table[m] # o
    <3>1. waiters'[table[m]] = waiters[table[m]] /\ waiters[table[m]] \in Seq(Tasks)
      BY <1>2, <2>1, <2>3 DEF IInv, TypeOK
    <3>2. LET p == waiters[table[m]] IN
          /\ \A i \in DOMAIN p : pc[p[i]] = "waiting" /\ obj[p[i]] = table[m]
          /\ \A i, j \in DOMAIN p : p[i] = p[j] => i = j
      BY <1>5, <2>1 DEF IInv, QueueExact
    <3>3. \A i \in DOMAIN waiters[table[m]] :
            /\ waiters[table[m]][i] \in Tasks
            /\ waiters[table[m]][i] # t
            /\ pc[waiters[table[m]][i]] = "waiting"
            /\ obj[waiters[table[m]][i]] = table[m]
      BY <2>3, <3>1, <3>2 DEF o
    <3>4. QED
      BY <1>3, <2>1, <3>1, <3>2, <3>3
  <2>4. QED
    BY <2>2, <2>3
<1>6. \A u \in Tasks : pc'[u] # "waiting" => future'[u] = "none"
  BY <1>3
<1>7. QED
  BY <1>4, <1>5, <1>6 DEF QueueExact

LEMMA ResumeStep ==
  ASSUME IInv, NEW t \in Tasks, Resume(t)
  PROVE  IInv'
<1> DEFINE o == obj[t]
<1>1. /\ pc[t] = "waiting" /\ future[t] = "resolved"
      /\ waiters' = [waiters EXCEPT ![obj[t]] = Without(@, t)]
      /\ locked' = [locked EXCEPT ![o] = TRUE]
      /\ future' = [future EXCEPT ![t] = "none"]
      /\ pc' = [pc EXCEPT ![t] = "holding"]
      /\ UNCHANGED <<table, users, key, obj>>
  BY DEF Resume
<1>2. o \in Objs /\ waiters[o] \in Seq(Tasks) /\ Without(waiters[o], t) \in Seq(Tasks)
  BY <1>1, Dequeue
<1>3. ~locked[o] /\ waiters[o] # <<>> /\ waiters[o][1] = t
  BY <1>1 DEF IInv, WakeExact
<1>4. TypeOK'
  BY <1>1, <1>2 DEF IInv, TypeOK, FutureStates, Places
<1>5. HasEntry'
  BY <1>1 DEF IInv, HasEntry, TypeOK
<1>6. TableExact'
  BY <1>1 DEF IInv, TableExact, Using
<1>7. QueueExact'
  <2>1. \A u \in Tasks : pc[u] # "waiting" => future'[u] = "none"
    BY <1>1 DEF IInv, QueueExact, TypeOK
  <2>2. future'[t] = "none"
    BY <1>1 DEF IInv, TypeOK
  <2>3. "holding" \in Places
    BY DEF Places
  <2>4. QED
    BY <1>1, <2>1, <2>2, <2>3, DequeueKeepsQueueExact
<1>8. WakeExact'
  <2> SUFFICES ASSUME NEW u \in Tasks, future'[u] \in {"resolved", "revoked"}
               PROVE  /\ ~locked'[obj'[u]]
                      /\ waiters'[obj'[u]] # <<>>
                      /\ waiters'[obj'[u]][1] = u
    BY DEF WakeExact
  <2>1. u # t /\ future[u] = future'[u] /\ obj'[u] = obj[u] /\ pc[u] = "waiting"
    BY <1>1 DEF IInv, QueueExact, TypeOK
  <2>2. ~locked[obj[u]] /\ waiters[obj[u]] # <<>> /\ waiters[obj[u]][1] = u
    BY <2>1 DEF IInv, WakeExact
  <2>3. obj[u] # o /\ obj[u] \in Objs
    BY <1>3, <2>1, <2>2 DEF IInv, HasEntry
  <2>4. QED
    BY <1>1, <2>1, <2>2, <2>3 DEF IInv, TypeOK
<1>9. LockExact'
  <2>1. \A u \in Tasks : u # t => (Holds(u)' <=> Holds(u)) /\ obj'[u] = obj[u]
    BY <1>1 DEF IInv, TypeOK, Holds
  <2>2. \A u \in Tasks : Holds(u) => obj[u] # o /\ obj[u] \in Objs /\ locked[obj[u]]
    BY <1>3 DEF IInv, LockExact, HasEntry, Holds
  <2>3. locked'[o] /\ \A x \in Objs : x # o => locked'[x] = locked[x]
    BY <1>1, <1>2 DEF IInv, TypeOK
  <2>4. obj'[t] = o
    BY <1>1
  <2>5. \A u \in Tasks : Holds(u)' => locked'[obj'[u]]
    BY <2>1, <2>2, <2>3, <2>4
  <2>6. \A u, v \in Tasks : Holds(u)' /\ Holds(v)' /\ obj'[u] = obj'[v] => u = v
    BY <2>1, <2>2, <2>4 DEF IInv, LockExact
  <2>7. QED
    BY <2>5, <2>6 DEF LockExact, Holds
<1>10. QED
  BY <1>4, <1>5, <1>6, <1>7, <1>8, <1>9 DEF IInv

LEMMA CancelWaiterStep ==
  ASSUME IInv, NEW t \in Tasks, CancelWaiter(t)
  PROVE  IInv'
<1>1. /\ pc[t] = "waiting"
      /\ \/ future[t] = "pending" /\ future' = [future EXCEPT ![t] = "cancelled"]
         \/ future[t] = "resolved" /\ future' = [future EXCEPT ![t] = "revoked"]
      /\ UNCHANGED <<table, users, locked, waiters, pc, key, obj>>
  BY DEF CancelWaiter
<1>2. TypeOK'
  BY <1>1 DEF IInv, TypeOK, FutureStates
<1>3. HasEntry' /\ TableExact' /\ LockExact'
  BY <1>1 DEF IInv, HasEntry, TableExact, Using, LockExact, Holds
<1>4. QueueExact'
  <2>1. \A u \in Tasks : pc'[u] # "waiting" => future'[u] = "none"
    BY <1>1 DEF IInv, QueueExact, TypeOK
  <2>2. QED
    BY <1>1, <2>1 DEF IInv, QueueExact
<1>5. WakeExact'
  BY <1>1 DEF IInv, WakeExact, TypeOK
<1>6. QED
  BY <1>2, <1>3, <1>4, <1>5 DEF IInv

LEMMA ResumeCancelledStep ==
  ASSUME IInv, NEW t \in Tasks, ResumeCancelled(t)
  PROVE  IInv'
<1> DEFINE o == obj[t]
           q == waiters[o]
           r == Without(q, t)
           done == [future EXCEPT ![t] = "none"]
<1>1. /\ pc[t] = "waiting" /\ future[t] \in {"cancelled", "revoked"}
      /\ waiters' = [waiters EXCEPT ![obj[t]] = Without(@, t)]
      /\ future' = IF locked[o] THEN done ELSE WakeFirst(r, done)
      /\ pc' = [pc EXCEPT ![t] = "abandoned"]
      /\ UNCHANGED <<table, users, locked, key, obj>>
  BY DEF ResumeCancelled
<1>2. /\ o \in Objs /\ q \in Seq(Tasks) /\ r \in Seq(Tasks)
      /\ \A i \in DOMAIN r : r[i] # t /\ \E j \in DOMAIN q : q[j] = r[i]
      /\ q[1] # t => r # <<>> /\ r[1] = q[1]
      /\ \A i \in DOMAIN q : pc[q[i]] = "waiting" /\ obj[q[i]] = o
  BY <1>1, Dequeue
<1>3. waiters'[o] = r /\ \A x \in Objs : x # o => waiters'[x] = waiters[x]
  BY <1>1, <1>2 DEF IInv, TypeOK
<1> HIDE DEF r, q, o
<1>4. /\ done[t] = "none"
      /\ \A u \in Tasks : u # t => done[u] = future[u]
      /\ done \in [Tasks -> FutureStates]
  BY DEF IInv, TypeOK, FutureStates
<1> HIDE DEF done
<1>5. \/ future' = done
      \/ /\ ~locked[o] /\ r # <<>> /\ done[r[1]] = "pending"
         /\ r[1] \in Tasks /\ r[1] # t /\ obj[r[1]] = o /\ pc[r[1]] = "waiting"
         /\ future' = [done EXCEPT ![r[1]] = "resolved"]
  <2>1. r # <<>> => r[1] \in Tasks /\ r[1] # t /\ obj[r[1]] = o /\ pc[r[1]] = "waiting"
    BY <1>2
  <2>2. QED
    BY <1>1, <2>1 DEF WakeFirst
<1>6. TypeOK'
  <2>1. future' \in [Tasks -> FutureStates]
    BY <1>4, <1>5 DEF FutureStates
  <2>2. waiters' \in [Objs -> Seq(Tasks)]
    BY <1>1, <1>2 DEF IInv, TypeOK, r, q, o
  <2>3. QED
    BY <1>1, <2>1, <2>2 DEF IInv, TypeOK, Places
<1>7. HasEntry'
  BY <1>1 DEF IInv, HasEntry, TypeOK
<1>8. TableExact'
  BY <1>1 DEF IInv, TableExact, Using
<1>9. QueueExact'
  <2>1. ASSUME NEW u \in Tasks, pc[u] # "waiting"
        PROVE  future'[u] = "none"
    <3>1. u # t /\ done[u] = "none"
      BY <1>1, <1>4, <2>1 DEF IInv, QueueExact
    <3>2. QED
      BY <1>4, <1>5, <2>1, <3>1
  <2>2. future'[t] = "none"
    BY <1>4, <1>5
  <2>3. "abandoned" \in Places
    BY DEF Places
  <2>4. QED
    BY <1>1, <2>1, <2>2, <2>3, DequeueKeepsQueueExact
<1>10. WakeExact'
  <2> SUFFICES ASSUME NEW u \in Tasks, future'[u] \in {"resolved", "revoked"}
               PROVE  /\ ~locked'[obj'[u]]
                      /\ waiters'[obj'[u]] # <<>>
                      /\ waiters'[obj'[u]][1] = u
    BY DEF WakeExact
  <2>1. CASE future[u] \in {"resolved", "revoked"} /\ u # t
    <3>1. ~locked[obj[u]] /\ waiters[obj[u]] # <<>> /\ waiters[obj[u]][1] = u
      BY <2>1 DEF IInv, WakeExact
    <3>2. obj[u] \in Objs
      BY <2>1 DEF IInv, QueueExact, HasEntry
    <3>3. CASE obj[u] = o
      BY <1>1, <1>2, <1>3, <2>1, <3>1, <3>3 DEF q
    <3>4. CASE obj[u] # o
      BY <1>1, <1>3, <3>1, <3>2, <3>4
    <3>5. QED
      BY <3>3, <3>4
  <2>2. CASE ~(future[u] \in {"resolved", "revoked"} /\ u # t)
    <3>1. ~locked[o] /\ r # <<>> /\ r[1] = u /\ obj[u] = o
      BY <1>4, <1>5, <2>2
    <3>2. QED
      BY <1>1, <1>3, <3>1
  <2>3. QED
    BY <2>1, <2>2
<1>11. LockExact'
  BY <1>1 DEF IInv, LockExact, Holds, TypeOK
<1>12. QED
  BY <1>6, <1>7, <1>8, <1>9, <1>10, <1>11 DEF IInv

LEMMA LeaveStep ==
  ASSUME IInv, NEW t \in Tasks, Leave(t)
  PROVE  IInv'
<1>1. /\ pc[t] = "holding"
      /\ pc' = [pc EXCEPT ![t] = "leaving"]
      /\ UNCHANGED <<table, users, locked, waiters, future, key, obj>>
  BY DEF Leave
<1>2. TypeOK'
  BY <1>1 DEF IInv, TypeOK, Places
<1>3. HasEntry' /\ TableExact' /\ WakeExact'
  <2>1. HasEntry'
    BY <1>1 DEF IInv, HasEntry, TypeOK
  <2>2. TableExact'
    BY <1>1 DEF IInv, TableExact, Using
  <2>3. WakeExact'
    BY <1>1 DEF IInv, WakeExact
  <2>4. QED
    BY <2>1, <2>2, <2>3
<1>4. LockExact'
  <2>1. \A u \in Tasks : Holds(u)' <=> Holds(u)
    BY <1>1 DEF IInv, TypeOK, Holds
  <2>2. QED
    BY <1>1, <2>1 DEF IInv, LockExact, Holds
<1>5. QueueExact'
  <2>1. \A u \in Tasks : pc'[u] = "waiting" <=> pc[u] = "waiting"
    BY <1>1 DEF IInv, TypeOK
  <2>2. ASSUME NEW m \in Keys, table'[m] # None
        PROVE  LET p == waiters'[table'[m]] IN
               /\ \A i \in DOMAIN p : pc'[p[i]] = "waiting" /\ obj'[p[i]] = table'[m]
               /\ \A i, j \in DOMAIN p : p[i] = p[j] => i = j
    <3>1. waiters[table[m]] \in Seq(Tasks)
      BY <1>1, <2>2 DEF IInv, TypeOK
    <3>2. LET p == waiters[table[m]] IN
          /\ \A i \in DOMAIN p : pc[p[i]] = "waiting" /\ obj[p[i]] = table[m]
          /\ \A i, j \in DOMAIN p : p[i] = p[j] => i = j
      BY <1>1, <2>2 DEF IInv, QueueExact
    <3>3. \A i \in DOMAIN waiters[table[m]] : waiters[table[m]][i] \in Tasks
      BY <3>1
    <3>4. QED
      BY <1>1, <2>1, <3>2, <3>3
  <2>3. QED
    BY <1>1, <2>1, <2>2 DEF IInv, QueueExact
<1>6. QED
  BY <1>2, <1>3, <1>4, <1>5 DEF IInv

\* The task that cleans up drops exactly its own reference.
LEMMA CleanupTable ==
  ASSUME IInv, NEW t \in Tasks, Cleanup(t)
  PROVE  /\ users[obj[t]] \in Nat \ {0}
         /\ HasEntry'
         /\ TableExact'
         /\ \A u \in Tasks : u # t /\ pc[u] # "idle" => table'[key[u]] = obj[u]
<1>1. /\ pc[t] \in {"leaving", "abandoned"}
      /\ users' = [users EXCEPT ![obj[t]] = @ - 1]
      /\ table' = IF LastUser(t) THEN [table EXCEPT ![key[t]] = None] ELSE table
      /\ pc' = [pc EXCEPT ![t] = "idle"]
      /\ key' = [key EXCEPT ![t] = None]
      /\ obj' = [obj EXCEPT ![t] = None]
  BY DEF Cleanup, Acquired
<1>2. PICK o \in Objs, k \in Keys : obj[t] = o /\ key[t] = k /\ table[k] = o /\ o # None
  BY <1>1, PoolAssumption DEF IInv, HasEntry
<1>3. /\ users[o] = Cardinality(Using(o)) /\ t \in Using(o)
      /\ IsFiniteSet(Using(o))
  <2>1. users[table[k]] = Cardinality(Using(table[k]))
    BY <1>2 DEF IInv, TableExact
  <2>2. QED
    BY <1>2, <2>1, PoolAssumption, FS_Subset DEF Using
<1>4. Using(o)' = Using(o) \ {t}
  BY <1>1, <1>2 DEF Using, IInv, TypeOK
<1>5. /\ Cardinality(Using(o)') = users[o] - 1
      /\ users[o] \in Nat \ {0}
      /\ users[o] = 1 => Using(o) = {t}
      /\ users[o] # 1 => Using(o)' # {}
  <2>1. /\ IsFiniteSet(Using(o)')
        /\ Cardinality(Using(o)') = Cardinality(Using(o)) - 1
        /\ Cardinality(Using(o)') \in Nat
    BY <1>3, <1>4, FS_RemoveElement, FS_CardinalityType
  <2>2. Cardinality(Using(o)') = 0 <=> Using(o)' = {}
    BY <2>1, FS_EmptySet
  <2>3. users[o] \in Nat
    BY DEF IInv, TypeOK
  <2>4. QED
    BY <1>3, <1>4, <2>1, <2>2, <2>3
<1>6. \/ users[o] = 1 /\ table' = [table EXCEPT ![k] = None]
      \/ users[o] # 1 /\ table' = table
  BY <1>1, <1>2 DEF LastUser
<1>7. \A m, x \in Keys : table[m] # None /\ table[m] = table[x] => m = x
  BY DEF IInv, TableExact
<1>8. ASSUME NEW u \in Tasks, u # t, pc[u] # "idle"
      PROVE  table'[key[u]] = obj[u]
  <2>1. key[u] \in Keys /\ obj[u] \in Objs /\ table[key[u]] = obj[u]
    BY <1>8 DEF IInv, HasEntry
  <2>2. key[u] = k => users[o] # 1
    BY <1>2, <1>5, <1>8, <2>1 DEF Using
  <2>3. QED
    BY <1>6, <2>1, <2>2 DEF IInv, TypeOK
<1>9. HasEntry'
  <2> SUFFICES ASSUME NEW u \in Tasks
               PROVE  /\ pc'[u] = "idle" => key'[u] = None /\ obj'[u] = None
                      /\ pc'[u] # "idle" => /\ key'[u] \in Keys /\ obj'[u] \in Objs
                                            /\ table'[key'[u]] = obj'[u]
    BY DEF HasEntry
  <2>1. CASE u = t
    BY <1>1, <2>1 DEF IInv, TypeOK
  <2>2. CASE u # t
    <3>1. pc'[u] = pc[u] /\ key'[u] = key[u] /\ obj'[u] = obj[u]
      BY <1>1, <2>2 DEF IInv, TypeOK
    <3>2. QED
      BY <1>8, <2>2, <3>1 DEF IInv, HasEntry
  <2>3. QED
    BY <2>1, <2>2
<1>10. TableExact'
  <2>1. \A m \in Keys : table'[m] # None => table'[m] = table[m]
    BY <1>6 DEF IInv, TypeOK
  <2>2. ASSUME NEW m \in Keys, table'[m] # None
        PROVE  users'[table'[m]] = Cardinality(Using(table[m])') /\ Using(table[m])' # {}
    <3>1. table'[m] = table[m] /\ table[m] # None
      BY <2>1, <2>2
    <3>2. CASE m = k
      <4>1. users[o] # 1
        BY <1>6, <2>2, <3>2 DEF IInv, TypeOK
      <4>2. users'[o] = users[o] - 1
        BY <1>1, <1>2 DEF IInv, TypeOK
      <4>3. table[k]' = o
        BY <1>2, <3>1, <3>2
      <4>4. Using(table[k])' = Using(o)'
        BY <4>3 DEF Using
      <4>5. QED
        BY <1>5, <3>2, <4>1, <4>2, <4>3, <4>4
    <3>3. CASE m # k
      <4>1. table[m] # o /\ table[m] \in Objs
        BY <1>2, <1>7, <3>1, <3>3 DEF IInv, TypeOK
      <4>2. users'[table[m]] = users[table[m]]
        BY <1>1, <1>2, <4>1 DEF IInv, TypeOK
      <4>3. Using(table[m])' = Using(table[m])
        BY <1>1, <1>2, <3>1, <4>1, PoolAssumption DEF Using, IInv, TypeOK
      <4>4. users[table[m]] = Cardinality(Using(table[m])) /\ Using(table[m]) # {}
        BY <3>1 DEF IInv, TableExact
      <4>5. QED
        BY <3>1, <4>2, <4>3, <4>4
    <3>4. QED
      BY <3>2, <3>3
  <2>3. QED
    BY <1>7, <2>1, <2>2 DEF TableExact
<1>11. QED
  BY <1>2, <1>5, <1>8, <1>9, <1>10

LEMMA CleanupStep ==
  ASSUME IInv, NEW t \in Tasks, Cleanup(t)
  PROVE  IInv'
<1>1. /\ pc[t] \in {"leaving", "abandoned"}
      /\ IF pc[t] = "leaving"
         THEN /\ locked' = [locked EXCEPT ![obj[t]] = FALSE]
              /\ future' = WakeFirst(waiters[obj[t]], future)
         ELSE UNCHANGED <<locked, future>>
      /\ users' = [users EXCEPT ![obj[t]] = @ - 1]
      /\ table' = IF LastUser(t) THEN [table EXCEPT ![key[t]] = None] ELSE table
      /\ pc' = [pc EXCEPT ![t] = "idle"]
      /\ key' = [key EXCEPT ![t] = None]
      /\ obj' = [obj EXCEPT ![t] = None]
      /\ UNCHANGED waiters
  BY DEF Cleanup, Acquired
<1>2. PICK o \in Objs, k \in Keys : obj[t] = o /\ key[t] = k /\ table[k] = o /\ o # None
  BY <1>1, PoolAssumption DEF IInv, HasEntry
<1>3. users[o] \in Nat \ {0} /\ HasEntry' /\ TableExact'
  BY <1>2, CleanupTable
<1>4. /\ waiters[o] \in Seq(Tasks)
      /\ waiters[o] # <<>> => /\ waiters[o][1] \in Tasks
                              /\ pc[waiters[o][1]] = "waiting"
                              /\ obj[waiters[o][1]] = o
  <2>1. LET q == waiters[table[k]] IN
        \A i \in DOMAIN q : pc[q[i]] = "waiting" /\ obj[q[i]] = table[k]
    BY <1>2 DEF IInv, QueueExact
  <2>2. waiters[o] \in Seq(Tasks)
    BY DEF IInv, TypeOK
  <2>3. QED
    BY <1>2, <2>1, <2>2
<1>5. \/ future' = future
      \/ /\ pc[t] = "leaving" /\ waiters[o] # <<>> /\ future[waiters[o][1]] = "pending"
         /\ future' = [future EXCEPT ![waiters[o][1]] = "resolved"]
  BY <1>1, <1>2, <1>4 DEF WakeFirst
<1>6. \A u \in Tasks : u # t => pc'[u] = pc[u] /\ obj'[u] = obj[u]
  BY <1>1 DEF IInv, TypeOK
<1>7. pc'[t] = "idle" /\ future'[t] = "none"
  <2>1. future[t] = "none" /\ pc'[t] = "idle"
    BY <1>1 DEF IInv, QueueExact, TypeOK
  <2>2. QED
    BY <1>1, <1>4, <1>5, <2>1 DEF IInv, TypeOK
<1>8. TypeOK'
  <2>1. users' \in [Objs -> Nat]
    BY <1>1, <1>2, <1>3 DEF IInv, TypeOK
  <2>2. table' \in [Keys -> Objs \union {None}]
    BY <1>1 DEF IInv, TypeOK
  <2>3. future' \in [Tasks -> FutureStates]
    BY <1>5 DEF IInv, TypeOK, FutureStates
  <2>4. locked' \in [Objs -> BOOLEAN]
    BY <1>1 DEF IInv, TypeOK
  <2>5. QED
    BY <1>1, <2>1, <2>2, <2>3, <2>4 DEF IInv, TypeOK, Places
<1>9. QueueExact'
  <2>1. ASSUME NEW u \in Tasks, pc'[u] = "waiting"
        PROVE  \E i \in DOMAIN waiters'[obj'[u]] : waiters'[obj'[u]][i] = u
    BY <1>1, <1>6, <1>7, <2>1 DEF IInv, QueueExact
  <2>2. ASSUME NEW u \in Tasks, pc'[u] # "waiting"
        PROVE  future'[u] = "none"
    <3>1. CASE u = t
      BY <1>7, <3>1
    <3>2. CASE u # t
      <4>1. future[u] = "none" /\ pc[u] # "waiting"
        BY <1>6, <2>2, <3>2 DEF IInv, QueueExact
      <4>2. QED
        BY <1>4, <1>5, <4>1 DEF IInv, TypeOK
    <3>3. QED
      BY <3>1, <3>2
  <2>3. ASSUME NEW m \in Keys, table'[m] # None
        PROVE  LET p == waiters'[table'[m]] IN
               /\ \A i \in DOMAIN p : pc'[p[i]] = "waiting" /\ obj'[p[i]] = table'[m]
               /\ \A i, j \in DOMAIN p : p[i] = p[j] => i = j
    <3>1. table'[m] = table[m] /\ table[m] \in Objs
      BY <1>1, <2>3 DEF IInv, TypeOK
    <3>2. waiters[table[m]] \in Seq(Tasks)
      BY <3>1 DEF IInv, TypeOK
    <3>3. LET p == waiters[table[m]] IN
          /\ \A i \in DOMAIN p : pc[p[i]] = "waiting" /\ obj[p[i]] = table[m]
          /\ \A i, j \in DOMAIN p : p[i] = p[j] => i = j
      BY <2>3, <3>1 DEF IInv, QueueExact
    <3>4. \A i \in DOMAIN waiters[table[m]] :
            waiters[table[m]][i] \in Tasks /\ waiters[table[m]][i] # t
      BY <1>1, <3>2, <3>3
    <3>5. QED
      BY <1>1, <1>6, <3>1, <3>3, <3>4
  <2>4. QED
    BY <2>1, <2>2, <2>3 DEF QueueExact
<1>10. WakeExact'
  <2> SUFFICES ASSUME NEW u \in Tasks, future'[u] \in {"resolved", "revoked"}
               PROVE  /\ ~locked'[obj'[u]]
                      /\ waiters'[obj'[u]] # <<>>
                      /\ waiters'[obj'[u]][1] = u
    BY DEF WakeExact
  <2>1. u # t /\ obj'[u] = obj[u]
    BY <1>6, <1>7
  <2>2. CASE future[u] = future'[u]
    <3>1. ~locked[obj[u]] /\ waiters[obj[u]] # <<>> /\ waiters[obj[u]][1] = u
      BY <2>2 DEF IInv, WakeExact
    <3>2. obj[u] \in Objs
      BY <2>2 DEF IInv, QueueExact, HasEntry
    <3>3. ~locked'[obj[u]]
      BY <1>1, <3>1, <3>2 DEF IInv, TypeOK
    <3>4. QED
      BY <1>1, <2>1, <3>1, <3>3
  <2>3. CASE future[u] # future'[u]
    <3>1. u = waiters[o][1] /\ waiters[o] # <<>> /\ pc[t] = "leaving" /\ obj[u] = o
      BY <1>4, <1>5, <2>3 DEF IInv, TypeOK
    <3>2. ~locked'[o]
      BY <1>1, <1>2, <3>1 DEF IInv, TypeOK
    <3>3. QED
      BY <1>1, <2>1, <3>1, <3>2
  <2>4. QED
    BY <2>2, <2>3
<1>11. LockExact'
  <2>1. \A u \in Tasks : Holds(u)' => u # t /\ Holds(u) /\ obj'[u] = obj[u]
    BY <1>6, <1>7 DEF Holds
  <2>2. ASSUME NEW u \in Tasks, Holds(u)'
        PROVE  locked'[obj'[u]]
    <3>1. locked[obj[u]] /\ obj[u] \in Objs
      BY <2>1, <2>2 DEF IInv, LockExact, HasEntry, Holds
    <3>2. pc[t] = "leaving" => obj[u] # o
      BY <1>2, <2>1, <2>2 DEF IInv, LockExact, Holds
    <3>3. QED
      BY <1>1, <1>2, <2>1, <2>2, <3>1, <3>2 DEF IInv, TypeOK
  <2>3. \A u, v \in Tasks : Holds(u)' /\ Holds(v)' /\ obj'[u] = obj'[v] => u = v
    BY <2>1 DEF IInv, LockExact
  <2>4. QED
    BY <2>2, <2>3 DEF LockExact, Holds
<1>12. QED
  BY <1>3, <1>8, <1>9, <1>10, <1>11 DEF IInv

-------------------------------------------------------------------------------
(* The invariant holds, and with it the properties the runs check.         *)

LEMMA InitIInv == Init => IInv
<1> SUFFICES ASSUME Init PROVE IInv
  OBVIOUS
<1>1. TypeOK
  BY DEF Init, TypeOK, FutureStates, Places
<1>2. HasEntry /\ TableExact /\ QueueExact /\ WakeExact /\ LockExact
  BY PoolAssumption DEF Init, HasEntry, TableExact, QueueExact, WakeExact, LockExact, Holds
<1>3. QED
  BY <1>1, <1>2 DEF IInv

LEMMA NextIInv == IInv /\ [Next]_vars => IInv'
<1> SUFFICES ASSUME IInv, [Next]_vars PROVE IInv'
  OBVIOUS
<1>1. ASSUME NEW t \in Tasks, NEW k \in Keys, Hold(t, k) PROVE IInv'
  BY <1>1, HoldStep
<1>2. ASSUME NEW t \in Tasks, Resume(t) PROVE IInv'
  BY <1>2, ResumeStep
<1>3. ASSUME NEW t \in Tasks, CancelWaiter(t) PROVE IInv'
  BY <1>3, CancelWaiterStep
<1>4. ASSUME NEW t \in Tasks, ResumeCancelled(t) PROVE IInv'
  BY <1>4, ResumeCancelledStep
<1>5. ASSUME NEW t \in Tasks, Leave(t) PROVE IInv'
  BY <1>5, LeaveStep
<1>6. ASSUME NEW t \in Tasks, Cleanup(t) PROVE IInv'
  BY <1>6, CleanupStep
<1>7. CASE UNCHANGED vars
  <2>1. TypeOK' /\ HasEntry' /\ WakeExact' /\ LockExact'
    BY <1>7 DEF vars, IInv, TypeOK, HasEntry, WakeExact, LockExact, Holds
  <2>2. TableExact'
    BY <1>7 DEF vars, IInv, TableExact, Using
  <2>3. QueueExact'
    BY <1>7 DEF vars, IInv, QueueExact
  <2>4. QED
    BY <2>1, <2>2, <2>3 DEF IInv
<1>8. QED
  BY <1>1, <1>2, <1>3, <1>4, <1>5, <1>6, <1>7 DEF Next

LEMMA InductiveInvariant == Spec => []IInv
  BY InitIInv, NextIInv, PTL DEF Spec

\* The variables keep their types; in particular users never goes below zero,
\* which is the error of async_locks.py:69-70.
THEOREM TypeCorrect == Spec => []TypeOK
<1>1. IInv => TypeOK
  BY DEF IInv
<1>2. QED
  BY <1>1, InductiveInvariant, PTL

\* Whatever the number of tasks, keys and lock objects, two tasks that hold
\* hold different keys.
THEOREM MutualExclusionHolds == Spec => []MutualExclusion
<1>1. IInv => MutualExclusion
  BY DEF IInv, MutualExclusion, HasEntry, LockExact, Holds
<1>2. QED
  BY <1>1, InductiveInvariant, PTL

\* The count of an entry is the number of tasks that refer to it.
THEOREM UserCountCorrect == Spec => []UserCountExact
<1>1. ASSUME IInv PROVE UserCountExact
  <2> SUFFICES ASSUME NEW o \in Objs, NEW k \in Keys, table[k] = o
               PROVE  users[o] = Cardinality({t \in Tasks : obj[t] = o})
    BY DEF UserCountExact
  <2>1. table[k] # None
    BY PoolAssumption
  <2>2. users[table[k]] = Cardinality(Using(table[k]))
    BY <1>1, <2>1 DEF IInv, TableExact
  <2>3. QED
    BY <2>2 DEF Using
<1>2. QED
  BY <1>1, InductiveInvariant, PTL

\* The table holds an entry exactly for the keys in use.
THEOREM NoInactiveKeyKept == Spec => []NoInactiveKey
<1>1. ASSUME IInv PROVE NoInactiveKey
  <2>1. ASSUME NEW k \in Keys, table[k] # None
        PROVE  \E t \in Tasks : key[t] = k
    <3>1. PICK t \in Tasks : obj[t] = table[k]
      BY <1>1, <2>1 DEF IInv, TableExact, Using
    <3>2. table[key[t]] = table[k] /\ key[t] \in Keys
      BY <1>1, <2>1, <3>1 DEF IInv, HasEntry
    <3>3. QED
      BY <1>1, <2>1, <3>2 DEF IInv, TableExact
  <2>2. ASSUME NEW k \in Keys, NEW t \in Tasks, key[t] = k
        PROVE  table[k] # None
    BY <1>1, <2>2, PoolAssumption DEF IInv, HasEntry
  <2>3. QED
    BY <2>1, <2>2 DEF NoInactiveKey
<1>2. QED
  BY <1>1, InductiveInvariant, PTL
-------------------------------------------------------------------------------
(* The pool implements the keyed mutex: what Holder is, and what a step    *)
(* does to it.                                                             *)

LEMMA HolderFacts ==
  IInv => /\ Holder \in [Keys -> Tasks \union {None}]
          /\ \A k \in Keys, t \in Tasks : Holder[k] = t <=> Holds(t) /\ key[t] = k
          /\ \A k \in Keys : Holder[k] = None <=> \A t \in Tasks : ~(Holds(t) /\ key[t] = k)
<1> SUFFICES ASSUME IInv
             PROVE  /\ Holder \in [Keys -> Tasks \union {None}]
                    /\ \A k \in Keys, t \in Tasks : Holder[k] = t <=> Holds(t) /\ key[t] = k
                    /\ \A k \in Keys :
                         Holder[k] = None <=> \A t \in Tasks : ~(Holds(t) /\ key[t] = k)
  OBVIOUS
<1>1. None \notin Tasks
  BY PoolAssumption
<1>2. \A t, u \in Tasks : Holds(t) /\ Holds(u) /\ key[t] = key[u] => t = u
  BY DEF IInv, HasEntry, LockExact, Holds
<1>3. ASSUME NEW k \in Keys
      PROVE  /\ Holder[k] \in Tasks \union {None}
             /\ Holder[k] # None => Holds(Holder[k]) /\ key[Holder[k]] = k
             /\ Holder[k] = None <=> \A t \in Tasks : ~(Holds(t) /\ key[t] = k)
  <2>1. CASE \E t \in Tasks : Holds(t) /\ key[t] = k
    <3>1. Holder[k] = CHOOSE t \in Tasks : Holds(t) /\ key[t] = k
      BY <2>1 DEF Holder
    <3>2. Holder[k] \in Tasks /\ Holds(Holder[k]) /\ key[Holder[k]] = k
      BY <2>1, <3>1
    <3>3. QED
      BY <1>1, <2>1, <3>2
  <2>2. CASE ~ \E t \in Tasks : Holds(t) /\ key[t] = k
    BY <2>2 DEF Holder
  <2>3. QED
    BY <2>1, <2>2
<1>4. Holder \in [Keys -> Tasks \union {None}]
  BY <1>3 DEF Holder
<1>5. QED
  BY <1>1, <1>2, <1>3, <1>4

LEMMA HolderFactsPrimed ==
  IInv' => /\ Holder' \in [Keys -> Tasks \union {None}]
           /\ \A k \in Keys, t \in Tasks : Holder'[k] = t <=> Holds(t)' /\ key'[t] = k
           /\ \A k \in Keys : Holder'[k] = None <=> \A t \in Tasks : ~(Holds(t)' /\ key'[t] = k)
<1>1. (IInv => /\ Holder \in [Keys -> Tasks \union {None}]
               /\ \A k \in Keys, t \in Tasks : Holder[k] = t <=> Holds(t) /\ key[t] = k
               /\ \A k \in Keys : Holder[k] = None <=> \A t \in Tasks : ~(Holds(t) /\ key[t] = k))'
  BY HolderFacts, PTL
<1>2. QED
  BY <1>1

LEMMA HolderKept ==
  ASSUME IInv, IInv',
         \A u \in Tasks : /\ Holds(u)' <=> Holds(u)
                          /\ Holds(u) => key'[u] = key[u]
  PROVE  Holder' = Holder
<1>1. Holder \in [Keys -> Tasks \union {None}] /\ Holder' \in [Keys -> Tasks \union {None}]
  BY HolderFacts, HolderFactsPrimed
<1>2. ASSUME NEW k \in Keys PROVE Holder'[k] = Holder[k]
  <2>1. CASE Holder[k] = None
    BY <2>1, HolderFacts, HolderFactsPrimed
  <2>2. CASE Holder[k] \in Tasks
    BY <2>2, HolderFacts, HolderFactsPrimed
  <2>3. QED
    BY <1>1, <2>1, <2>2
<1>3. QED
  BY <1>1, <1>2

\* A task that starts to hold acquires its key: nobody else held it.
LEMMA StartsToHold ==
  ASSUME IInv, IInv', NEW t \in Tasks, NEW k \in Keys,
         ~Holds(t), Holds(t)', key'[t] = k,
         \A u \in Tasks \ {t} : /\ Holds(u)' <=> Holds(u)
                                /\ key'[u] = key[u]
  PROVE  Mutex!Acquire(t, k)
<1>1. Holder \in [Keys -> Tasks \union {None}] /\ Holder' \in [Keys -> Tasks \union {None}]
  BY HolderFacts, HolderFactsPrimed
<1>2. Holder'[k] = t
  BY HolderFactsPrimed
<1>3. Holder[k] = None
  <2>1. ASSUME NEW u \in Tasks, Holds(u), key[u] = k PROVE FALSE
    <3>1. u # t /\ Holds(u)' /\ key'[u] = k
      BY <2>1
    <3>2. Holder'[k] = u
      BY <3>1, HolderFactsPrimed
    <3>3. QED
      BY <1>2, <3>1, <3>2
  <2>2. QED
    BY <2>1, HolderFacts
<1>4. \A other \in Keys : Holder[other] # t
  BY HolderFacts
<1>5. ASSUME NEW m \in Keys, m # k PROVE Holder'[m] = Holder[m]
  <2>1. CASE Holder[m] = None
    <3>1. ASSUME NEW u \in Tasks, Holds(u)', key'[u] = m PROVE FALSE
      <4>1. u # t
        BY <1>5, <3>1
      <4>2. Holds(u) /\ key[u] = m
        BY <3>1, <4>1
      <4>3. QED
        BY <2>1, <4>2, HolderFacts
    <3>2. QED
      BY <2>1, <3>1, HolderFactsPrimed
  <2>2. CASE Holder[m] \in Tasks
    <3>1. Holds(Holder[m]) /\ key[Holder[m]] = m
      BY <2>2, HolderFacts
    <3>2. QED
      BY <2>2, <3>1, HolderFactsPrimed
  <2>3. QED
    BY <1>1, <2>1, <2>2
<1>6. Holder' = [Holder EXCEPT ![k] = t]
  BY <1>1, <1>2, <1>5
<1>7. QED
  BY <1>3, <1>4, <1>6 DEF Mutex!Acquire

\* A task that holds no longer has released its key.
LEMMA StopsToHold ==
  ASSUME IInv, IInv', NEW t \in Tasks,
         Holds(t), ~Holds(t)',
         \A u \in Tasks \ {t} : /\ Holds(u)' <=> Holds(u)
                                /\ key'[u] = key[u]
  PROVE  \E k \in Keys : Mutex!Release(t, k)
<1> DEFINE k == key[t]
<1>0. k \in Keys
  BY DEF IInv, HasEntry, Holds
<1>1. Holder \in [Keys -> Tasks \union {None}] /\ Holder' \in [Keys -> Tasks \union {None}]
  BY HolderFacts, HolderFactsPrimed
<1>2. Holder[k] = t
  BY <1>0, HolderFacts
<1> HIDE DEF k
<1>3. Holder'[k] = None
  <2>1. ASSUME NEW u \in Tasks, Holds(u)', key'[u] = k PROVE FALSE
    <3>1. u # t /\ Holds(u) /\ key[u] = k
      BY <2>1
    <3>2. Holder[k] = u
      BY <1>0, <3>1, HolderFacts
    <3>3. QED
      BY <1>2, <3>1, <3>2
  <2>2. QED
    BY <1>0, <2>1, HolderFactsPrimed
<1>4. ASSUME NEW m \in Keys, m # k PROVE Holder'[m] = Holder[m]
  <2>1. CASE Holder[m] = None
    <3>1. ASSUME NEW u \in Tasks, Holds(u)', key'[u] = m PROVE FALSE
      <4>1. u # t
        BY <3>1
      <4>2. Holds(u) /\ key[u] = m
        BY <3>1, <4>1
      <4>3. QED
        BY <2>1, <4>2, HolderFacts
    <3>2. QED
      BY <2>1, <3>1, HolderFactsPrimed
  <2>2. CASE Holder[m] \in Tasks
    <3>1. Holds(Holder[m]) /\ key[Holder[m]] = m
      BY <2>2, HolderFacts
    <3>2. Holder[m] # t
      BY <1>4, <3>1 DEF k
    <3>3. QED
      BY <2>2, <3>1, <3>2, HolderFactsPrimed
  <2>3. QED
    BY <1>1, <2>1, <2>2
<1>5. Holder' = [Holder EXCEPT ![k] = None]
  BY <1>1, <1>3, <1>4
<1>6. QED
  BY <1>0, <1>2, <1>5 DEF Mutex!Release

LEMMA MutexStep ==
  ASSUME IInv, IInv', [Next]_vars
  PROVE  [Mutex!Next]_Holder
<1>1. CASE UNCHANGED vars
  BY <1>1, HolderKept DEF vars, Holds
<1> SUFFICES ASSUME Next PROVE [Mutex!Next]_Holder
  BY <1>1
<1> USE DEF Holds
<1>2. ASSUME NEW t \in Tasks, NEW k \in Keys, Hold(t, k) PROVE [Mutex!Next]_Holder
  <2>0. pc \in [Tasks -> Places] /\ key \in [Tasks -> Keys \union {None}] /\ pc[t] = "idle"
    BY <1>2 DEF Hold, IInv, TypeOK
  <2>1. key' = [key EXCEPT ![t] = k]
    BY <1>2 DEF Hold
  <2>2. CASE pc' = [pc EXCEPT ![t] = "holding"]
    <3>1. Mutex!Acquire(t, k)
      BY <2>0, <2>1, <2>2, StartsToHold
    <3>2. QED
      BY <3>1 DEF Mutex!Next
  <2>3. CASE pc' = [pc EXCEPT ![t] = "waiting"]
    BY <2>0, <2>1, <2>3, HolderKept
  <2>4. QED
    BY <1>2, <2>2, <2>3 DEF Hold
<1>3. ASSUME NEW t \in Tasks, Resume(t) PROVE [Mutex!Next]_Holder
  <2>1. pc \in [Tasks -> Places] /\ pc[t] = "waiting" /\ key[t] \in Keys
    BY <1>3 DEF Resume, IInv, TypeOK, HasEntry
  <2>2. Mutex!Acquire(t, key[t])
    BY <1>3, <2>1, StartsToHold DEF Resume
  <2>3. QED
    BY <2>1, <2>2 DEF Mutex!Next
<1>4. ASSUME NEW t \in Tasks, CancelWaiter(t) PROVE [Mutex!Next]_Holder
  BY <1>4, HolderKept DEF CancelWaiter
<1>5. ASSUME NEW t \in Tasks, ResumeCancelled(t) PROVE [Mutex!Next]_Holder
  <2>1. pc \in [Tasks -> Places] /\ pc[t] = "waiting"
    BY <1>5 DEF ResumeCancelled, IInv, TypeOK
  <2>2. pc' = [pc EXCEPT ![t] = "abandoned"] /\ key' = key
    BY <1>5 DEF ResumeCancelled
  <2>3. QED
    BY <2>1, <2>2, HolderKept
<1>6. ASSUME NEW t \in Tasks, Leave(t) PROVE [Mutex!Next]_Holder
  <2>1. pc \in [Tasks -> Places] /\ pc[t] = "holding"
    BY <1>6 DEF Leave, IInv, TypeOK
  <2>2. QED
    BY <1>6, <2>1, HolderKept DEF Leave
<1>7. ASSUME NEW t \in Tasks, Cleanup(t) PROVE [Mutex!Next]_Holder
  <2>1. pc \in [Tasks -> Places] /\ key \in [Tasks -> Keys \union {None}]
    BY DEF IInv, TypeOK
  <2>2. /\ pc[t] \in {"leaving", "abandoned"}
        /\ pc' = [pc EXCEPT ![t] = "idle"] /\ key' = [key EXCEPT ![t] = None]
    BY <1>7 DEF Cleanup
  <2>3. CASE pc[t] = "leaving"
    <3>1. \E k \in Keys : Mutex!Release(t, k)
      BY <2>1, <2>2, <2>3, StopsToHold
    <3>2. QED
      BY <3>1 DEF Mutex!Next
  <2>4. CASE pc[t] = "abandoned"
    BY <2>1, <2>2, <2>4, HolderKept
  <2>5. QED
    BY <2>2, <2>3, <2>4
<1>8. QED
  BY <1>2, <1>3, <1>4, <1>5, <1>6, <1>7 DEF Next

\* The table of lock objects that come and go is a keyed mutex: every step
\* acquires a free key for a task that has none, releases a key by its holder,
\* or changes nothing that a caller could see (async_locks.py:45-77).
THEOREM ImplementsMutexHolds == Spec => ImplementsMutex
<1>1. Init => Mutex!Init
  BY DEF Init, Mutex!Init, Holder, Holds
<1>2. IInv /\ IInv' /\ [Next]_vars => [Mutex!Next]_Holder
  BY MutexStep
<1>3. QED
  BY <1>1, <1>2, InductiveInvariant, PTL DEF Spec, ImplementsMutex, Mutex!Spec

-------------------------------------------------------------------------------
(* Temporary voice rooms: what a task relies on, whoever steps meanwhile   *)

\* What a task is about, by where it is.
TaskRecords ==
    [at : {"free"} \union Entering \union Creating \union Others \union Holding,
     who : Members \union {Nobody}, room : Rooms \union {Lobby, Away, Nobody},
     left : Rooms \union {Lobby, Away, Nobody}, list : SUBSET Rooms,
     heir : Members \union {Nobody}]

Roomless == {"free", "create", "scan", "recover", "make"}

Plain(x) ==
    /\ x \in TaskRecords
    /\ x.at \in Creating => x.who \in Members
    /\ x.at \notin Roomless => x.room \in Rooms
    /\ x.at \in {"heir", "hand"} => x.heir \in Members

\* What it relies on: who forgets a room has been told that its channel is
\* gone; who unregisters one has seen to its channel; who registers one has made
\* the channel, and nobody can have registered or kept it before.
Fits(x, c, w, k, s) ==
    /\ Plain(x)
    /\ x.at \in {"vanish", "forget"} => c[x.room] = "gone"
    /\ x.at = "unregister" => c[x.room] = "gone" \/ x.room \in s
    /\ x.at = "register" => c[x.room] # "none" /\ w[x.room] = NoRow /\ x.room \notin k

TasksFit == \A t \in RoomTasks : Fits(task[t], chan, row, kept, stray)

\* Each channel is registered by who made it.
OwnRoom ==
    \A t, u \in RoomTasks :
        task[t].at = "register" /\ task[u].at = "register" /\ task[t].room = task[u].room => t = u

\* A deletion task that has prepared a deletion may ask for it, and one that
\* finishes has seen the channel go.  A room that was kept, or is not made yet,
\* has no row.
RoomFits(r, c, w, d, k, s) ==
    /\ d[r] = "finish" => c[r] = "gone"
    /\ d[r] = "prepare" =>
          /\ r \notin k /\ c[r] # "none"
          /\ c[r] = "gone" \/ w[r].since \in {"fresh", "due"} \/ r \in s
    /\ c[r] = "none" \/ r \in k => w[r] = NoRow
    /\ c[r] = "none" => r \notin k

RoomsFit == \A r \in Rooms : RoomFits(r, chan, row, sweep, kept, stray)

RoomInv == RoomTypeOK /\ TasksFit /\ OwnRoom /\ RoomsFit /\ Tracked

-------------------------------------------------------------------------------

\* Where a task takes care of a channel without a row.
Making == {"register", "unmake", "unregister"}

RoomTypes ==
    /\ place \in [Members -> Rooms \union {Lobby, Away}]
    /\ chan \in [Rooms -> {"none", "up", "gone"}]
    /\ row \in [Rooms -> {NoRow} \union
            [owner : Members, since : {"occupied", "fresh", "due"}]]
    /\ sweep \in [Rooms -> SweepStates]
    /\ moves \in 0 .. MaxMoves
    /\ troubles \in 0 .. MaxTroubles
    /\ kept \in SUBSET Rooms /\ stray \in SUBSET Rooms

\* What a step of anybody but a registration leaves true for the others.
Steady ==
    \A r \in Rooms :
        /\ chan[r] = "gone" => chan'[r] = "gone"
        /\ chan[r] # "none" => chan'[r] # "none"
        /\ r \in stray => r \in stray'
        /\ row[r] = NoRow /\ r \notin kept => row'[r] = NoRow /\ r \notin kept'

\* Whoever stops taking care of a room leaves it with a row or without a channel.
LetGo(u) ==
    task[u].at \in Making =>
        \/ task'[u].at \in Making /\ task'[u].room = task[u].room
        \/ chan'[task[u].room] # "up" \/ row'[task[u].room] # NoRow
        \/ task[u].room \in kept' \union stray'

GoesOn(u) ==
    /\ LetGo(u) /\ task'[u].at # "register"
    /\ Fits(task'[u], chan', row', kept', stray')

TaskMoves ==
    /\ task' = [u \in RoomTasks |-> task'[u]]
    /\ \A u \in RoomTasks : task'[u] = task[u] \/ GoesOn(u)

NoneLost ==
    /\ kept \subseteq kept' /\ stray \subseteq stray'
    /\ \A r \in Rooms : chan'[r] = "up" /\ row'[r] = NoRow =>
          \/ chan[r] = "up" /\ row[r] = NoRow
          \/ r \in kept' \union stray'
          \/ \E h \in Handlers : task'[h].room = r /\ task'[h].at \in Making

LEMMA FreePlain == Plain(Free) /\ Free.at = "free"
BY DEF Plain, Free, TaskRecords, Roomless, Creating

LEMMA PlainFits ==
  ASSUME NEW x, NEW c, NEW w, NEW k, NEW s, Plain(x),
         x.at \notin {"vanish", "forget", "unregister", "register"}
  PROVE  Fits(x, c, w, k, s)
BY DEF Fits

\* Who relies on something still can after a step that is no registration.
LEMMA StillFits ==
  ASSUME Steady, NEW x, Fits(x, chan, row, kept, stray)
  PROVE  Fits(x, chan', row', kept', stray')
<1>1. Plain(x)
  BY DEF Fits
<1>2. CASE x.at \notin {"vanish", "forget", "unregister", "register"}
  BY <1>1, <1>2, PlainFits
<1>3. CASE x.at \in {"vanish", "forget", "unregister", "register"}
  <2>1. x.room \in Rooms
    BY <1>1, <1>3 DEF Plain, Roomless
  <2> QED BY <1>1, <1>3, <2>1 DEF Fits, Steady
<1> QED BY <1>2, <1>3

LEMMA TypeParts == RoomTypeOK <=> RoomTypes /\ task \in [RoomTasks -> TaskRecords]
BY DEF RoomTypeOK, RoomTypes, TaskRecords

LEMMA TypePartsNext == RoomTypeOK' <=> RoomTypes' /\ task' \in [RoomTasks -> TaskRecords]
BY DEF RoomTypeOK, RoomTypes, TaskRecords, Entering, Creating, Others, Holding, SweepStates, NoRow, RoomTasks

LEMMA HandlersAreTasks == \A h \in Handlers : h \in RoomTasks
BY DEF RoomTasks

LEMMA ReconIsTask == Recon \in RoomTasks
BY DEF RoomTasks

LEMMA AssembleParts ==
  ASSUME RoomInv, RoomTypes', TasksFit', OwnRoom', RoomsFit', NoneLost,
         task' = [u \in RoomTasks |-> task'[u]],
         \A u \in RoomTasks : LetGo(u)
  PROVE  RoomInv'
<1>1. RoomTypeOK'
  <2>1. \A u \in RoomTasks : task'[u] \in TaskRecords
    BY DEF TasksFit, Fits, Plain, RoomTasks, TaskRecords, Entering, Creating, Others, Holding
  <2>2. task' \in [RoomTasks -> TaskRecords]
    BY <2>1
  <2> QED BY <2>2, TypePartsNext
<1>2. Tracked'
  <2> SUFFICES ASSUME NEW r \in Rooms, chan'[r] = "up", row'[r] = NoRow
               PROVE  \/ r \in kept' \union stray'
                      \/ \E h \in Handlers : task'[h].room = r /\ task'[h].at \in Making
    BY DEF Tracked, Registered, Making, NoRow
  <2>1. CASE chan[r] = "up" /\ row[r] = NoRow /\ r \notin kept' \union stray'
    <3>1. PICK h \in Handlers : task[h].room = r /\ task[h].at \in Making
      BY <2>1 DEF RoomInv, Tracked, Registered, Making, NoneLost
    <3> QED BY <3>1, HandlersAreTasks DEF LetGo
  <2> QED BY <2>1 DEF NoneLost
<1> QED BY <1>1, <1>2 DEF RoomInv

LEMMA Assemble ==
  ASSUME RoomInv, RoomTypes', Steady, TaskMoves, RoomsFit', NoneLost
  PROVE  RoomInv'
<1>1. TasksFit'
  <2> SUFFICES ASSUME NEW u \in RoomTasks
               PROVE  Fits(task'[u], chan', row', kept', stray')
    BY DEF TasksFit, RoomTasks
  <2>1. Fits(task[u], chan, row, kept, stray)
    BY DEF RoomInv, TasksFit
  <2>2. CASE task'[u] = task[u]
    BY <2>1, <2>2, StillFits
  <2> QED BY <2>2 DEF TaskMoves, GoesOn
<1>2. OwnRoom'
  BY DEF RoomInv, OwnRoom, TaskMoves, GoesOn, RoomTasks
<1>3. \A u \in RoomTasks : LetGo(u)
  BY DEF TaskMoves, GoesOn, LetGo
<1> QED BY <1>1, <1>2, <1>3, AssembleParts DEF TaskMoves

-------------------------------------------------------------------------------
(* The steps of tasks: one goes on, and somebody may hear of an event      *)

LEMMA OneMoves ==
  ASSUME RoomInv, NEW t \in RoomTasks, NEW x, task' = [task EXCEPT ![t] = x],
         task[t].at \notin Making, x.at # "register",
         Fits(x, chan', row', kept', stray')
  PROVE  TaskMoves
<1>1. task \in [RoomTasks -> TaskRecords]
  BY TypeParts DEF RoomInv
<1>2. task'[t] = x /\ LetGo(t)
  BY <1>1 DEF LetGo
<1>3. GoesOn(t)
  BY <1>2 DEF GoesOn
<1> QED BY <1>1, <1>3 DEF TaskMoves

LEMMA NobodyMoves ==
  ASSUME RoomInv, task' = task
  PROVE  TaskMoves
<1>1. task \in [RoomTasks -> TaskRecords]
  BY TypeParts DEF RoomInv
<1> QED BY <1>1 DEF TaskMoves

LEMMA EventMoves ==
  ASSUME RoomInv, NEW e, Deliver(task, e), e.at # "register",
         Fits(e, chan', row', kept', stray')
  PROVE  TaskMoves
<1>1. task \in [RoomTasks -> TaskRecords]
  BY TypeParts DEF RoomInv
<1>2. CASE task' = task
  BY <1>2, NobodyMoves
<1>3. ASSUME NEW h \in Handlers, task[h].at = "free", task' = [task EXCEPT ![h] = e]
      PROVE  TaskMoves
  <2>1. task[h].at \notin Making
    BY <1>3 DEF Making
  <2> QED BY <1>3, <2>1, OneMoves, HandlersAreTasks
<1> QED BY <1>2, <1>3 DEF Deliver

LEMMA OneAndEventMove ==
  ASSUME RoomInv, NEW t \in RoomTasks, NEW x, NEW e, Deliver([task EXCEPT ![t] = x], e),
         task[t].at \notin Making, x.at # "register", e.at # "register",
         Fits(x, chan', row', kept', stray'), Fits(e, chan', row', kept', stray')
  PROVE  TaskMoves
<1> DEFINE after == [task EXCEPT ![t] = x]
<1>1. task \in [RoomTasks -> TaskRecords]
  BY TypeParts DEF RoomInv
<1>2. CASE task' = after
  BY <1>2, OneMoves
<1>3. ASSUME NEW h \in Handlers, after[h].at = "free", task' = [after EXCEPT ![h] = e]
      PROVE  TaskMoves
  <2>1. h \in RoomTasks
    BY HandlersAreTasks
  <2>2. task[h].at \notin Making
    BY <1>1, <1>3, <2>1 DEF Making
  <2>3. \A u \in RoomTasks : task'[u] \in {task[u], x, e} /\ (task'[u] # task[u] => u \in {t, h})
    BY <1>1, <1>3, <2>1
  <2>4. \A u \in {t, h} : LetGo(u)
    BY <2>2 DEF LetGo
  <2>5. \A u \in RoomTasks : task'[u] = task[u] \/ GoesOn(u)
    BY <2>3, <2>4 DEF GoesOn
  <2> QED BY <1>1, <1>3, <2>5 DEF TaskMoves
<1> QED BY <1>2, <1>3 DEF Deliver

LEMMA DepartedPlain ==
  ASSUME NEW r \in Rooms \union {Lobby, Away, Nobody}
  PROVE  Plain(Departed(r)) /\ Departed(r).at \in {"free", "depart"}
BY FreePlain DEF Departed, Plain, Free, TaskRecords, Roomless, Creating, Entering

LEMMA MovedPlain ==
  ASSUME RoomInv, NEW m \in Members, NEW to \in Rooms \union {Lobby, Away}
  PROVE  Plain(Moved(m, to)) /\ Moved(m, to).at \in {"free", "depart", "create", "join"}
<1>1. place[m] \in Rooms \union {Lobby, Away}
  BY TypeParts DEF RoomInv, RoomTypes
<1>2. CASE to = Lobby
  BY <1>1, <1>2, RoomAssumption DEF Moved, Plain, Free, TaskRecords, Roomless, Creating, Entering
<1>3. CASE to # Lobby /\ to \in Rooms /\ Registered(to)
  BY <1>1, <1>3, RoomAssumption DEF Moved, Plain, Free, TaskRecords, Roomless, Creating, Entering
<1>4. CASE to # Lobby /\ ~(to \in Rooms /\ Registered(to))
  BY <1>1, <1>4, DepartedPlain DEF Moved
<1> QED BY <1>2, <1>3, <1>4

LEMMA VanishedFits ==
  ASSUME NEW r \in Rooms, NEW c, c[r] = "gone", NEW w, NEW k, NEW s
  PROVE  Fits(Vanished(r), c, w, k, s) /\ Vanished(r).at = "vanish"
BY DEF Vanished, Fits, Plain, Free, TaskRecords, Roomless, Creating, Entering, Others

LEMMA TaskFacts ==
  ASSUME RoomInv, NEW t \in RoomTasks
  PROVE  task[t] \in TaskRecords /\ Plain(task[t]) /\ Fits(task[t], chan, row, kept, stray)
BY DEF RoomInv, TasksFit, Fits, Plain

LEMMA RestPlain ==
  ASSUME RoomInv, NEW t \in RoomTasks
  PROVE  Plain(Rest(t)) /\ Rest(t).at \in {"free", "depart"}
<1>1. task[t].left \in Rooms \union {Lobby, Away, Nobody}
  BY TaskFacts DEF TaskRecords
<1> QED BY <1>1, DepartedPlain DEF Rest

LEMMA GoOnMoves ==
  ASSUME RoomInv, NEW t \in RoomTasks, task[t].at \notin Making, GoOn(t)
  PROVE  TaskMoves
<1>1. Fits(Rest(t), chan', row', kept', stray') /\ Rest(t).at # "register"
  BY RestPlain, PlainFits
<1> QED BY <1>1, OneMoves DEF GoOn

LEMMA DoneMoves ==
  ASSUME RoomInv, NEW t \in RoomTasks, task[t].at \notin Making, Done(t)
  PROVE  TaskMoves
<1>1. Fits(Free, chan', row', kept', stray') /\ Free.at # "register"
  BY FreePlain, PlainFits
<1> QED BY <1>1, OneMoves DEF Done

LEMMA HandOverMoves ==
  ASSUME RoomInv, NEW t \in RoomTasks, NEW r \in Rooms, task[t].at \notin Making, HandOver(t, r)
  PROVE  TaskMoves
<1>1. CASE GoOn(t)
  BY <1>1, GoOnMoves
<1>2. ASSUME NEW m \in In(r), task' = [task EXCEPT ![t] = [@ EXCEPT !.at = "heir", !.room = r, !.heir = m]]
      PROVE  TaskMoves
  <2> DEFINE x == [task[t] EXCEPT !.at = "heir", !.room = r, !.heir = m]
  <2>1. m \in Members
    BY DEF In
  <2>2. task' = [task EXCEPT ![t] = x]
    BY <1>2
  <2>3. Plain(x) /\ x.at = "heir"
    BY <2>1, TaskFacts DEF Plain, TaskRecords, Holding, Creating
  <2>4. Fits(x, chan', row', kept', stray')
    BY <2>3, PlainFits
  <2> HIDE DEF x
  <2> QED BY <2>2, <2>3, <2>4, OneMoves
<1> QED BY <1>1, <1>2 DEF HandOver

-------------------------------------------------------------------------------
(* The transactions of the registry                                        *)

Rows == {NoRow} \union [owner : Members, since : {"occupied", "fresh", "due"}]

LEMMA RowTyped ==
  ASSUME RoomInv
  PROVE  /\ row \in [Rooms -> Rows]
         /\ \A r \in Rooms : Registered(r) =>
               row[r] \in [owner : Members, since : {"occupied", "fresh", "due"}]
BY TypeParts DEF RoomInv, RoomTypes, Rows, Registered

\* A row of its own: nobody is the owner of a room without a row.
LEMMA NoRowApart ==
  \A x \in [owner : Members, since : {"occupied", "fresh", "due"}] : x # NoRow
BY RoomAssumption DEF NoRow

LEMMA Marked ==
  ASSUME RoomInv, NEW r \in Rooms, Registered(r), MarkOccupied(r)
  PROVE  /\ row' \in [Rooms -> Rows]
         /\ row'[r] # NoRow /\ row'[r].since = "occupied"
         /\ \A s \in Rooms \ {r} : row'[s] = row[s]
<1>1. row' = [row EXCEPT ![r] = [row[r] EXCEPT !.since = "occupied"]]
  BY DEF MarkOccupied
<1>2. [row[r] EXCEPT !.since = "occupied"] \in [owner : Members, since : {"occupied", "fresh", "due"}]
  BY RowTyped
<1> QED BY <1>1, <1>2, RowTyped, NoRowApart DEF Rows

LEMMA MarkedEmpty ==
  ASSUME RoomInv, NEW r \in Rooms, Registered(r), MarkEmpty(r)
  PROVE  /\ row' \in [Rooms -> Rows]
         /\ row'[r] # NoRow /\ row'[r].since \in {"fresh", "due"}
         /\ \A s \in Rooms \ {r} : row'[s] = row[s]
<1> DEFINE x == [row[r] EXCEPT !.since = IF row[r].since = "occupied" THEN "fresh" ELSE row[r].since]
<1>1. row' = [row EXCEPT ![r] = x]
  BY DEF MarkEmpty
<1>2. x \in [owner : Members, since : {"occupied", "fresh", "due"}] /\ x.since \in {"fresh", "due"}
  BY RowTyped
<1> HIDE DEF x
<1> QED BY <1>1, <1>2, RowTyped, NoRowApart DEF Rows

LEMMA Transferred ==
  ASSUME RoomInv, NEW r \in Rooms, NEW m \in Members, Registered(r), Transfer(r, m)
  PROVE  /\ row' \in [Rooms -> Rows]
         /\ row'[r] # NoRow /\ row'[r].since = row[r].since
         /\ \A s \in Rooms \ {r} : row'[s] = row[s]
<1> DEFINE x == [row[r] EXCEPT !.owner = m]
<1>1. row' = [row EXCEPT ![r] = x]
  BY DEF Transfer
<1>2. x \in [owner : Members, since : {"occupied", "fresh", "due"}] /\ x.since = row[r].since
  BY RowTyped
<1> HIDE DEF x
<1> QED BY <1>1, <1>2, RowTyped, NoRowApart DEF Rows

LEMMA Finished ==
  ASSUME RoomInv, NEW gone, FinishRooms(gone)
  PROVE  /\ row' \in [Rooms -> Rows]
         /\ \A s \in Rooms : row'[s] = IF s \in gone THEN NoRow ELSE row[s]
BY RowTyped DEF FinishRooms, Rows

LEMMA SweepTyped ==
  ASSUME RoomInv, NEW r \in Rooms, NEW at \in SweepStates, sweep' = [sweep EXCEPT ![r] = at]
  PROVE  /\ sweep' \in [Rooms -> SweepStates]
         /\ sweep'[r] = at
         /\ \A s \in Rooms \ {r} : sweep'[s] = sweep[s]
BY TypeParts DEF RoomInv, RoomTypes

LEMMA Cancelled ==
  ASSUME RoomInv, NEW r \in Rooms, Cancel(r)
  PROVE  /\ sweep' \in [Rooms -> SweepStates]
         /\ sweep'[r] = "none"
         /\ \A s \in Rooms \ {r} : sweep'[s] = sweep[s]
BY SweepTyped DEF Cancel, SweepStates

LEMMA Scheduled ==
  ASSUME RoomInv, NEW r \in Rooms, Schedule(r)
  PROVE  /\ sweep' \in [Rooms -> SweepStates]
         /\ sweep'[r] = IF sweep[r] = "none" THEN "look" ELSE sweep[r]
         /\ \A s \in Rooms \ {r} : sweep'[s] = sweep[s]
<1>1. sweep[r] \in SweepStates
  BY TypeParts DEF RoomInv, RoomTypes
<1> DEFINE at == IF sweep[r] = "none" THEN "look" ELSE sweep[r]
<1>2. at \in SweepStates
  BY <1>1 DEF SweepStates
<1>3. sweep' = [sweep EXCEPT ![r] = at]
  BY DEF Schedule
<1> QED BY <1>2, <1>3, SweepTyped

LEMMA Removed ==
  ASSUME RoomInv, NEW r \in Rooms, RemoveChannel(r)
  PROVE  /\ chan' \in [Rooms -> {"none", "up", "gone"}]
         /\ place' \in [Members -> Rooms \union {Lobby, Away}]
         /\ chan'[r] = "gone"
         /\ \A s \in Rooms \ {r} : chan'[s] = chan[s]
BY TypeParts DEF RoomInv, RoomTypes, RemoveChannel

LEMMA Failed ==
  ASSUME RoomInv, Fails
  PROVE  troubles' \in 0 .. MaxTroubles
BY TypeParts, RoomAssumption DEF RoomInv, RoomTypes, Fails

LEMMA Typed ==
  ASSUME RoomInv
  PROVE  RoomTypes
BY TypeParts DEF RoomInv

\* A step that leaves channels, rows and deletion tasks alone.
LEMMA QuietRooms ==
  ASSUME RoomInv, UNCHANGED <<chan, row, sweep, kept, stray>>
  PROVE  Steady /\ RoomsFit' /\ NoneLost
BY DEF RoomInv, RoomsFit, RoomFits, Steady, NoneLost

\* A step that touches one room, which has people to answer for it after.
LEMMA OneRoomMoves ==
  ASSUME RoomInv, NEW r \in Rooms,
         \A s \in Rooms \ {r} :
            /\ chan'[s] = chan[s] /\ row'[s] = row[s] /\ sweep'[s] = sweep[s]
            /\ s \in kept' <=> s \in kept
            /\ s \in stray' <=> s \in stray,
         RoomFits(r, chan', row', sweep', kept', stray')
  PROVE  RoomsFit'
<1> SUFFICES ASSUME NEW s \in Rooms
             PROVE  RoomFits(s, chan', row', sweep', kept', stray')
  BY DEF RoomsFit
<1>1. CASE s = r
  BY <1>1
<1>2. CASE s # r
  <2>1. RoomFits(s, chan, row, sweep, kept, stray)
    BY DEF RoomInv, RoomsFit
  <2> QED BY <1>2, <2>1 DEF RoomFits
<1> QED BY <1>1, <1>2

LEMMA ThisRoomFits ==
  ASSUME RoomInv, NEW r \in Rooms
  PROVE  RoomFits(r, chan, row, sweep, kept, stray)
BY DEF RoomInv, RoomsFit

-------------------------------------------------------------------------------
(* People and the gateway                                                  *)

LEMMA MoveKeeps ==
  ASSUME RoomInv, NEW m \in Members, NEW to \in Rooms \union {Lobby, Away}, Move(m, to)
  PROVE  RoomInv'
<1>1. RoomTypes'
  BY Typed, RoomAssumption DEF RoomTypes, Move, durable, history
<1>2. Steady /\ RoomsFit' /\ NoneLost
  BY QuietRooms DEF Move, durable, history
<1>3. TaskMoves
  <2>1. Plain(Moved(m, to)) /\ Moved(m, to).at \notin {"vanish", "forget", "unregister", "register"}
    BY MovedPlain
  <2>2. Fits(Moved(m, to), chan', row', kept', stray')
    BY <2>1, PlainFits
  <2> QED BY <2>1, <2>2, EventMoves DEF Move
<1> QED BY <1>1, <1>2, <1>3, Assemble

LEMMA WreckKeeps ==
  ASSUME RoomInv, NEW r \in Rooms, Wreck(r)
  PROVE  RoomInv'
<1>1. /\ chan' \in [Rooms -> {"none", "up", "gone"}]
      /\ place' \in [Members -> Rooms \union {Lobby, Away}]
      /\ chan'[r] = "gone"
      /\ \A s \in Rooms \ {r} : chan'[s] = chan[s]
      /\ chan[r] = "up" /\ UNCHANGED <<row, sweep, kept, stray, moves>>
  BY Removed DEF Wreck, history
<1>2. RoomTypes'
  BY <1>1, Typed, Failed DEF RoomTypes, Wreck
<1>3. Steady /\ NoneLost
  BY <1>1 DEF Steady, NoneLost
<1>4. RoomsFit'
  BY <1>1, ThisRoomFits, OneRoomMoves DEF RoomFits
<1>5. TaskMoves
  <2>1. Fits(Vanished(r), chan', row', kept', stray') /\ Vanished(r).at # "register"
    BY <1>1, VanishedFits
  <2> QED BY <2>1, EventMoves DEF Wreck
<1> QED BY <1>2, <1>3, <1>4, <1>5, Assemble

LEMMA VisitKeeps ==
  ASSUME RoomInv, NEW r \in Rooms, Visit(r)
  PROVE  RoomInv'
<1>1. RoomTypes'
  BY Typed DEF RoomTypes, Visit, durable, history, bounds
<1>2. Steady /\ RoomsFit' /\ NoneLost
  BY QuietRooms DEF Visit, durable, history
<1>3. TaskMoves
  <2> DEFINE x == [Free EXCEPT !.at = "depart", !.room = r]
  <2>1. Plain(x) /\ x.at = "depart"
    BY FreePlain DEF Plain, TaskRecords, Free, Creating, Entering
  <2>2. Fits(x, chan', row', kept', stray') /\ task[Recon].at \notin Making
    BY <2>1, PlainFits DEF Visit, Making
  <2>3. task' = [task EXCEPT ![Recon] = x]
    BY DEF Visit
  <2> HIDE DEF x
  <2> QED BY <2>1, <2>2, <2>3, OneMoves, ReconIsTask
<1> QED BY <1>1, <1>2, <1>3, Assemble

LEMMA AskCreateKeeps ==
  ASSUME RoomInv, NEW h \in Handlers, NEW m \in Members, AskCreate(h, m)
  PROVE  RoomInv'
<1>1. RoomTypes'
  BY Typed, RoomAssumption DEF RoomTypes, AskCreate, durable, history
<1>2. Steady /\ RoomsFit' /\ NoneLost
  BY QuietRooms DEF AskCreate, durable, history
<1>3. TaskMoves
  <2> DEFINE x == [Free EXCEPT !.at = "create", !.who = m]
  <2>1. Plain(x) /\ x.at = "create"
    BY FreePlain DEF Plain, TaskRecords, Free, Creating, Roomless
  <2>2. Fits(x, chan', row', kept', stray') /\ task[h].at \notin Making
    BY <2>1, PlainFits DEF AskCreate, Making
  <2>3. task' = [task EXCEPT ![h] = x]
    BY DEF AskCreate
  <2> HIDE DEF x
  <2> QED BY <2>1, <2>2, <2>3, OneMoves, HandlersAreTasks
<1> QED BY <1>1, <1>2, <1>3, Assemble

LEMMA CommandKeeps ==
  ASSUME RoomInv, NEW h \in Handlers, NEW m \in Members, NEW x, Command(h, m, x),
         Plain(x), x.at \in {"keep", "hand"}
  PROVE  RoomInv'
<1>1. RoomTypes'
  BY Typed, RoomAssumption DEF RoomTypes, Command, durable, history
<1>2. Steady /\ RoomsFit' /\ NoneLost
  BY QuietRooms DEF Command, durable, history
<1>3. TaskMoves
  <2>1. Fits(x, chan', row', kept', stray') /\ task[h].at \notin Making
    BY PlainFits DEF Command, Making
  <2> QED BY <2>1, OneMoves, HandlersAreTasks DEF Command
<1> QED BY <1>1, <1>2, <1>3, Assemble

LEMMA AskKeepKeeps ==
  ASSUME RoomInv, NEW h \in Handlers, NEW m \in Members, AskKeep(h, m)
  PROVE  RoomInv'
<1> DEFINE x == [Free EXCEPT !.at = "keep", !.room = place[m]]
<1>1. Plain(x) /\ x.at = "keep"
  BY FreePlain DEF AskKeep, Command, Plain, TaskRecords, Free, Creating, Others
<1>2. Command(h, m, x)
  BY DEF AskKeep
<1> HIDE DEF x
<1> QED BY <1>1, <1>2, CommandKeeps

LEMMA AskHandKeeps ==
  ASSUME RoomInv, NEW h \in Handlers, NEW m \in Members, NEW to \in Members, AskHand(h, m, to)
  PROVE  RoomInv'
<1> DEFINE x == [Free EXCEPT !.at = "hand", !.room = place[m], !.heir = to]
<1>1. Plain(x) /\ x.at = "hand"
  BY FreePlain DEF AskHand, Command, Plain, TaskRecords, Free, Creating, Others
<1>2. Command(h, m, x)
  BY DEF AskHand
<1> HIDE DEF x
<1> QED BY <1>1, <1>2, CommandKeeps

-------------------------------------------------------------------------------
(* Joins, departures, ownership                                            *)

LEMMA JoinKeeps ==
  ASSUME RoomInv, NEW h \in Handlers, Join(h)
  PROVE  RoomInv'
<1> DEFINE r == task[h].room
<1>1. h \in RoomTasks /\ r \in Rooms /\ task[h].at \notin Making
  BY HandlersAreTasks, TaskFacts DEF Join, Plain, Roomless, Making
<1>2. UNCHANGED <<place, chan, moves, troubles, kept, stray>>
  BY DEF Join, bounds, history
<1>3. CASE Registered(r)
  <2>1. Cancel(r) /\ MarkOccupied(r) /\ HandOver(h, r)
    BY <1>3 DEF Join
  <2> HIDE DEF r
  <2>2. /\ row' \in [Rooms -> Rows] /\ row'[r] # NoRow /\ row'[r].since = "occupied"
        /\ \A s \in Rooms \ {r} : row'[s] = row[s]
    BY <1>1, <1>3, <2>1, Marked
  <2>3. /\ sweep' \in [Rooms -> SweepStates] /\ sweep'[r] = "none"
        /\ \A s \in Rooms \ {r} : sweep'[s] = sweep[s]
    BY <1>1, <2>1, Cancelled
  <2>4. RoomTypes'
    BY <1>2, <2>2, <2>3, Typed DEF RoomTypes, Rows
  <2>5. Steady /\ NoneLost
    BY <1>1, <1>2, <1>3, <2>2 DEF Steady, NoneLost, Registered
  <2>6. RoomsFit'
    BY <1>1, <1>2, <1>3, <2>2, <2>3, ThisRoomFits, OneRoomMoves DEF RoomFits, Registered
  <2>7. TaskMoves
    BY <1>1, <2>1, HandOverMoves
  <2> QED BY <2>4, <2>5, <2>6, <2>7, Assemble
<1>4. CASE ~Registered(r)
  <2>1. GoOn(h) /\ UNCHANGED <<row, sweep>>
    BY <1>4 DEF Join
  <2>2. RoomTypes'
    BY <1>2, <2>1, Typed DEF RoomTypes
  <2>3. Steady /\ RoomsFit' /\ NoneLost
    BY <1>2, <2>1, QuietRooms
  <2>4. TaskMoves
    BY <1>1, <2>1, GoOnMoves
  <2> QED BY <2>2, <2>3, <2>4, Assemble
<1> QED BY <1>3, <1>4

LEMMA HeirKeeps ==
  ASSUME RoomInv, NEW t \in RoomTasks, Heir(t)
  PROVE  RoomInv'
<1> DEFINE r == task[t].room
           m == task[t].heir
<1>1. r \in Rooms /\ m \in Members /\ task[t].at \notin Making
  BY TaskFacts DEF Heir, Plain, Roomless, Making
<1>2. UNCHANGED <<place, chan, sweep, moves, kept, stray>>
  BY DEF Heir, history
<1>3. troubles' \in 0 .. MaxTroubles
  BY Typed, Failed DEF Heir, RoomTypes
<1>4. TaskMoves
  BY <1>1, GoOnMoves, DoneMoves DEF Heir
<1>5. CASE Registered(r) /\ Transfer(r, m)
  <2> HIDE DEF r, m
  <2>1. /\ row' \in [Rooms -> Rows] /\ row'[r] # NoRow /\ row'[r].since = row[r].since
        /\ \A s \in Rooms \ {r} : row'[s] = row[s]
    BY <1>1, <1>5, Transferred
  <2>2. RoomTypes'
    BY <1>2, <1>3, <2>1, Typed DEF RoomTypes, Rows
  <2>3. Steady /\ NoneLost
    BY <1>1, <1>2, <1>5, <2>1 DEF Steady, NoneLost, Registered
  <2>4. RoomsFit'
    BY <1>1, <1>2, <1>5, <2>1, ThisRoomFits, OneRoomMoves DEF RoomFits, Registered
  <2> QED BY <1>4, <2>2, <2>3, <2>4, Assemble
<1>6. CASE UNCHANGED row
  <2>1. RoomTypes'
    BY <1>2, <1>3, <1>6, Typed DEF RoomTypes
  <2>2. Steady /\ RoomsFit' /\ NoneLost
    BY <1>2, <1>6, QuietRooms
  <2> QED BY <1>4, <2>1, <2>2, Assemble
<1> QED BY <1>5, <1>6 DEF Heir

LEMMA DepartKeeps ==
  ASSUME RoomInv, NEW t \in RoomTasks, Depart(t)
  PROVE  RoomInv'
<1> DEFINE r == task[t].room
<1>1. r \in Rooms /\ task[t].at \notin Making
  BY TaskFacts DEF Depart, Plain, Roomless, Making
<1>2. UNCHANGED <<place, chan, moves, troubles, kept, stray>>
  BY DEF Depart, bounds, history
<1>3. CASE ~Registered(r)
  <2>1. Done(t) /\ UNCHANGED <<row, sweep>>
    BY <1>3 DEF Depart
  <2>2. RoomTypes'
    BY <1>2, <2>1, Typed DEF RoomTypes
  <2>3. Steady /\ RoomsFit' /\ NoneLost
    BY <1>2, <2>1, QuietRooms
  <2>4. TaskMoves
    BY <1>1, <2>1, DoneMoves
  <2> QED BY <2>2, <2>3, <2>4, Assemble
<1>4. CASE chan[r] = "gone" /\ Cancel(r) /\ FinishRooms({r}) /\ Done(t)
  <2>0. TaskMoves
    BY <1>1, <1>4, DoneMoves
  <2> HIDE DEF r
  <2>1. /\ row' \in [Rooms -> Rows] /\ row'[r] = NoRow
        /\ \A s \in Rooms \ {r} : row'[s] = row[s]
    BY <1>1, <1>4, Finished
  <2>2. /\ sweep' \in [Rooms -> SweepStates] /\ sweep'[r] = "none"
        /\ \A s \in Rooms \ {r} : sweep'[s] = sweep[s]
    BY <1>1, <1>4, Cancelled
  <2>3. RoomTypes'
    BY <1>2, <2>1, <2>2, Typed DEF RoomTypes, Rows
  <2>4. Steady /\ NoneLost
    BY <1>1, <1>2, <1>4, <2>1 DEF Steady, NoneLost
  <2>5. RoomsFit'
    BY <1>1, <1>2, <1>4, <2>1, <2>2, ThisRoomFits, OneRoomMoves DEF RoomFits
  <2> QED BY <2>0, <2>3, <2>4, <2>5, Assemble
<1>5. CASE Registered(r) /\ Cancel(r) /\ MarkOccupied(r) /\ HandOver(t, r)
  <2> HIDE DEF r
  <2>1. /\ row' \in [Rooms -> Rows] /\ row'[r] # NoRow /\ row'[r].since = "occupied"
        /\ \A s \in Rooms \ {r} : row'[s] = row[s]
    BY <1>1, <1>5, Marked
  <2>2. /\ sweep' \in [Rooms -> SweepStates] /\ sweep'[r] = "none"
        /\ \A s \in Rooms \ {r} : sweep'[s] = sweep[s]
    BY <1>1, <1>5, Cancelled
  <2>3. RoomTypes'
    BY <1>2, <2>1, <2>2, Typed DEF RoomTypes, Rows
  <2>4. Steady /\ NoneLost
    BY <1>1, <1>2, <1>5, <2>1 DEF Steady, NoneLost, Registered
  <2>5. RoomsFit'
    BY <1>1, <1>2, <1>5, <2>1, <2>2, ThisRoomFits, OneRoomMoves DEF RoomFits, Registered
  <2>6. TaskMoves
    BY <1>1, <1>5, HandOverMoves
  <2> QED BY <2>3, <2>4, <2>5, <2>6, Assemble
<1>6. CASE Registered(r) /\ MarkEmpty(r) /\ Schedule(r) /\ Done(t)
  <2>0. TaskMoves
    BY <1>1, <1>6, DoneMoves
  <2> HIDE DEF r
  <2>1. /\ row' \in [Rooms -> Rows] /\ row'[r] # NoRow /\ row'[r].since \in {"fresh", "due"}
        /\ \A s \in Rooms \ {r} : row'[s] = row[s]
    BY <1>1, <1>6, MarkedEmpty
  <2>2. /\ sweep' \in [Rooms -> SweepStates]
        /\ sweep'[r] = IF sweep[r] = "none" THEN "look" ELSE sweep[r]
        /\ \A s \in Rooms \ {r} : sweep'[s] = sweep[s]
    BY <1>1, <1>6, Scheduled
  <2>3. RoomTypes'
    BY <1>2, <2>1, <2>2, Typed DEF RoomTypes, Rows
  <2>4. Steady /\ NoneLost
    BY <1>1, <1>2, <1>6, <2>1 DEF Steady, NoneLost, Registered
  <2>5. RoomsFit'
    BY <1>1, <1>2, <1>6, <2>1, <2>2, ThisRoomFits, OneRoomMoves DEF RoomFits, Registered
  <2> QED BY <2>0, <2>3, <2>4, <2>5, Assemble
<1> QED BY <1>3, <1>4, <1>5, <1>6 DEF Depart

-------------------------------------------------------------------------------
(* Creation and recovery                                                   *)

LEMMA CreateKeeps ==
  ASSUME RoomInv, NEW h \in Handlers, Create(h)
  PROVE  RoomInv'
<1>0. h \in RoomTasks /\ task[h].at = "create" /\ task[h].at \notin Making
  BY HandlersAreTasks DEF Create, Making
<1>1. RoomTypes'
  BY Typed DEF RoomTypes, Create, durable, history, bounds
<1>2. Steady /\ RoomsFit' /\ NoneLost
  BY QuietRooms DEF Create, durable, history
<1>3. CASE Goto(h, "scan")
  <2> DEFINE x == [task[h] EXCEPT !.at = "scan"]
  <2>1. Plain(x) /\ x.at = "scan"
    BY <1>0, TaskFacts DEF Plain, TaskRecords, Creating, Roomless
  <2>2. Fits(x, chan', row', kept', stray')
    BY <2>1, PlainFits
  <2>3. task' = [task EXCEPT ![h] = x]
    BY <1>3 DEF Goto
  <2> HIDE DEF x
  <2> QED BY <1>0, <1>1, <1>2, <2>1, <2>2, <2>3, OneMoves, Assemble
<1>4. CASE GoOn(h)
  BY <1>0, <1>1, <1>2, <1>4, GoOnMoves, Assemble
<1> QED BY <1>3, <1>4 DEF Create

LEMMA ScanKeeps ==
  ASSUME RoomInv, NEW h \in Handlers, Scan(h)
  PROVE  RoomInv'
<1> DEFINE owned == {r \in Rooms : row[r].owner = task[h].who}
           missing == {r \in owned : chan[r] = "gone"}
<1>0. h \in RoomTasks /\ task[h].at = "scan" /\ task[h].at \notin Making
  BY HandlersAreTasks DEF Scan, Making
<1>1. UNCHANGED <<place, chan, sweep, moves, troubles, kept, stray>>
  BY DEF Scan, bounds, history
<1>2. PICK some \in SUBSET missing : FinishRooms(some)
  BY DEF Scan
<1>3. /\ row' \in [Rooms -> Rows]
      /\ \A s \in Rooms : row'[s] = IF s \in some THEN NoRow ELSE row[s]
      /\ \A s \in some : chan[s] = "gone"
  BY <1>2, Finished
<1>4. RoomTypes'
  BY <1>1, <1>3, Typed DEF RoomTypes, Rows
<1>5. Steady /\ NoneLost
  BY <1>1, <1>3 DEF Steady, NoneLost
<1>6. RoomsFit'
  <2> SUFFICES ASSUME NEW r \in Rooms
               PROVE  RoomFits(r, chan', row', sweep', kept', stray')
    BY DEF RoomsFit
  <2> QED BY <1>1, <1>3, ThisRoomFits DEF RoomFits
<1>7. TaskMoves
  <2>1. CASE GoOn(h)
    BY <1>0, <2>1, GoOnMoves
  <2>2. CASE task' = [task EXCEPT ![h].at = "recover", ![h].list = owned \ missing]
    <3> DEFINE x == [task[h] EXCEPT !.at = "recover", !.list = owned \ missing]
    <3>1. Plain(x) /\ x.at = "recover"
      BY <1>0, TaskFacts DEF Plain, TaskRecords, Creating, Roomless
    <3>2. Fits(x, chan', row', kept', stray')
      BY <3>1, PlainFits
    <3>3. task' = [task EXCEPT ![h] = x]
      BY <1>0, <2>2, Typed, TypeParts DEF RoomInv
    <3> HIDE DEF x
    <3> QED BY <1>0, <3>1, <3>2, <3>3, OneMoves
  <2> QED BY <2>1, <2>2 DEF Scan
<1> QED BY <1>4, <1>5, <1>6, <1>7, Assemble

LEMMA RecoverKeeps ==
  ASSUME RoomInv, NEW h \in Handlers, Recover(h)
  PROVE  RoomInv'
<1>0. h \in RoomTasks /\ task[h].at = "recover" /\ task[h].at \notin Making
  BY HandlersAreTasks DEF Recover, Making
<1>1. UNCHANGED <<place, chan, row, moves, troubles, kept, stray>>
  BY DEF Recover, durable, bounds, history
<1>a. task \in [RoomTasks -> TaskRecords]
  BY TypeParts DEF RoomInv
<1>2. CASE Goto(h, "make") /\ UNCHANGED sweep
  <2> DEFINE x == [task[h] EXCEPT !.at = "make"]
  <2>1. Plain(x) /\ x.at = "make"
    BY <1>0, TaskFacts DEF Plain, TaskRecords, Creating, Roomless
  <2>2. Fits(x, chan', row', kept', stray')
    BY <2>1, PlainFits
  <2>3. task' = [task EXCEPT ![h] = x]
    BY <1>2 DEF Goto
  <2>4. RoomTypes'
    BY <1>1, <1>2, Typed DEF RoomTypes
  <2>5. Steady /\ RoomsFit' /\ NoneLost
    BY <1>1, <1>2, QuietRooms
  <2> HIDE DEF x
  <2> QED BY <1>0, <2>1, <2>2, <2>3, <2>4, <2>5, OneMoves, Assemble
<1>3. ASSUME NEW r \in task[h].list, Cancel(r),
             task' = [task EXCEPT ![h].at = "move", ![h].room = r, ![h].list = {}]
      PROVE  RoomInv'
  <2> DEFINE x == [task[h] EXCEPT !.at = "move", !.room = r, !.list = {}]
  <2>0. r \in Rooms
    BY <1>0, TaskFacts DEF TaskRecords
  <2>1. Plain(x) /\ x.at = "move"
    BY <1>0, <2>0, TaskFacts DEF Plain, TaskRecords, Creating, Roomless
  <2>2. Fits(x, chan', row', kept', stray')
    BY <2>1, PlainFits
  <2>3. task' = [task EXCEPT ![h] = x]
    BY <1>0, <1>a, <1>3
  <2> HIDE DEF x
  <2>4. /\ sweep' \in [Rooms -> SweepStates] /\ sweep'[r] = "none"
        /\ \A s \in Rooms \ {r} : sweep'[s] = sweep[s]
    BY <1>3, <2>0, Cancelled
  <2>5. RoomTypes'
    BY <1>1, <2>4, Typed DEF RoomTypes
  <2>6. Steady /\ NoneLost
    BY <1>1 DEF Steady, NoneLost
  <2>7. RoomsFit'
    BY <1>1, <2>0, <2>4, ThisRoomFits, OneRoomMoves DEF RoomFits
  <2> QED BY <1>0, <2>1, <2>2, <2>3, <2>5, <2>6, <2>7, OneMoves, Assemble
<1>4. ASSUME NEW r \in task[h].list, UNCHANGED sweep,
             task' = [task EXCEPT ![h].list = task[h].list \ {r}]
      PROVE  RoomInv'
  <2> DEFINE x == [task[h] EXCEPT !.list = task[h].list \ {r}]
  <2>1. Plain(x) /\ x.at = "recover"
    BY <1>0, TaskFacts DEF Plain, TaskRecords, Creating, Roomless
  <2>2. Fits(x, chan', row', kept', stray')
    BY <2>1, PlainFits
  <2>3. task' = [task EXCEPT ![h] = x]
    BY <1>0, <1>a, <1>4
  <2>4. RoomTypes'
    BY <1>1, <1>4, Typed DEF RoomTypes
  <2>5. Steady /\ RoomsFit' /\ NoneLost
    BY <1>1, <1>4, QuietRooms
  <2> HIDE DEF x
  <2> QED BY <1>0, <2>1, <2>2, <2>3, <2>4, <2>5, OneMoves, Assemble
<1> QED BY <1>2, <1>3, <1>4 DEF Recover

\* A member is moved into a room: the handler goes on as told, and the movement
\* may be heard of.
LEMMA MoveMemberKeeps ==
  ASSUME RoomInv, NEW h \in Handlers, NEW next, NEW other, MoveMember(h, next, other),
         task[h].room \in Rooms, task[h].who \in Members, task[h].at \notin Making,
         Plain(next), next.at \notin {"vanish", "forget", "unregister", "register"},
         Plain(other), other.at \notin {"vanish", "forget", "unregister", "register"}
  PROVE  RoomInv'
<1> DEFINE r == task[h].room
           m == task[h].who
<1>1. UNCHANGED <<chan, row, sweep, moves, kept, stray>>
  BY DEF MoveMember, durable, history
<1>2. Steady /\ RoomsFit' /\ NoneLost
  BY <1>1, QuietRooms
<1>3. troubles' \in 0 .. MaxTroubles /\ place' \in [Members -> Rooms \union {Lobby, Away}]
  BY Typed, Failed DEF MoveMember, RoomTypes
<1>4. RoomTypes'
  BY <1>1, <1>3, Typed DEF RoomTypes
<1>5. h \in RoomTasks
  BY HandlersAreTasks
<1>6. Fits(next, chan', row', kept', stray') /\ Fits(other, chan', row', kept', stray')
  BY PlainFits
<1>7. /\ Moved(m, r).at \notin {"vanish", "forget", "unregister", "register"}
      /\ Fits(Moved(m, r), chan', row', kept', stray')
  BY MovedPlain, PlainFits
<1>8. CASE task' = [task EXCEPT ![h] = next]
  BY <1>2, <1>4, <1>5, <1>6, <1>8, OneMoves, Assemble
<1>9. CASE task' = [task EXCEPT ![h] = other]
  BY <1>2, <1>4, <1>5, <1>6, <1>9, OneMoves, Assemble
<1>10. CASE Deliver([task EXCEPT ![h] = next], Moved(m, r))
  BY <1>2, <1>4, <1>5, <1>6, <1>7, <1>10, OneAndEventMove, Assemble
<1> QED BY <1>8, <1>9, <1>10 DEF MoveMember

LEMMA MoveBackKeeps ==
  ASSUME RoomInv, NEW h \in Handlers, MoveBack(h)
  PROVE  RoomInv'
<1> DEFINE next == [task[h] EXCEPT !.at = "moved"]
           other == [task[h] EXCEPT !.at = "unmoved"]
<1>1. task[h].at = "move" /\ Plain(task[h]) /\ task[h] \in TaskRecords
  BY HandlersAreTasks, TaskFacts DEF MoveBack
<1>2. task[h].room \in Rooms /\ task[h].who \in Members /\ task[h].at \notin Making
  BY <1>1 DEF Plain, Roomless, Creating, Making
<1>3. Plain(next) /\ next.at = "moved" /\ Plain(other) /\ other.at = "unmoved"
  BY <1>1, <1>2 DEF Plain, TaskRecords, Creating
<1>4. MoveMember(h, next, other)
  BY DEF MoveBack
<1> HIDE DEF next, other
<1> QED BY <1>2, <1>3, <1>4, MoveMemberKeeps

LEMMA PlaceOwnerKeeps ==
  ASSUME RoomInv, NEW h \in Handlers, PlaceOwner(h)
  PROVE  RoomInv'
<1> DEFINE other == [task[h] EXCEPT !.at = "unmake"]
<1>1. h \in RoomTasks /\ task[h].at = "place" /\ Plain(task[h]) /\ task[h] \in TaskRecords
  BY HandlersAreTasks, TaskFacts DEF PlaceOwner
<1>2. task[h].room \in Rooms /\ task[h].who \in Members /\ task[h].at \notin Making
  BY <1>1 DEF Plain, Roomless, Creating, Making
<1>3. Plain(other) /\ other.at = "unmake"
  BY <1>1, <1>2 DEF Plain, TaskRecords, Creating
<1>4. MoveMember(h, Rest(h), other)
  BY DEF PlaceOwner
<1>5. Plain(Rest(h)) /\ Rest(h).at \in {"free", "depart"}
  BY <1>1, RestPlain
<1> HIDE DEF other
<1> QED BY <1>2, <1>3, <1>4, <1>5, MoveMemberKeeps

LEMMA RecoveredKeeps ==
  ASSUME RoomInv, NEW h \in Handlers, Recovered(h)
  PROVE  RoomInv'
<1> DEFINE r == task[h].room
<1>0. h \in RoomTasks /\ r \in Rooms /\ task[h].at \notin Making
  BY HandlersAreTasks, TaskFacts DEF Recovered, Making, Plain, Roomless
<1>1. UNCHANGED <<place, chan, sweep, moves, troubles, kept, stray>> /\ ~Locked(r)
  BY DEF Recovered, bounds, history
<1>2. TaskMoves
  BY <1>0, GoOnMoves DEF Recovered
<1>3. CASE Registered(r) /\ MarkOccupied(r)
  <2> HIDE DEF r
  <2>1. /\ row' \in [Rooms -> Rows] /\ row'[r] # NoRow /\ row'[r].since = "occupied"
        /\ \A s \in Rooms \ {r} : row'[s] = row[s]
    BY <1>0, <1>3, Marked
  <2>2. RoomTypes'
    BY <1>1, <2>1, Typed DEF RoomTypes, Rows
  <2>3. Steady /\ NoneLost
    BY <1>1, <1>3, <2>1 DEF Steady, NoneLost, Registered
  <2>4. sweep[r] # "prepare"
    BY <1>1 DEF Locked, SweepHolding
  <2>5. RoomsFit'
    BY <1>0, <1>1, <1>3, <2>1, <2>4, ThisRoomFits, OneRoomMoves DEF RoomFits, Registered
  <2> QED BY <1>2, <2>2, <2>3, <2>5, Assemble
<1>4. CASE UNCHANGED row
  <2>1. RoomTypes'
    BY <1>1, <1>4, Typed DEF RoomTypes
  <2>2. Steady /\ RoomsFit' /\ NoneLost
    BY <1>1, <1>4, QuietRooms
  <2> QED BY <1>2, <2>1, <2>2, Assemble
<1> QED BY <1>3, <1>4 DEF Recovered

LEMMA NotRecoveredKeeps ==
  ASSUME RoomInv, NEW h \in Handlers, NotRecovered(h)
  PROVE  RoomInv'
<1> DEFINE r == task[h].room
<1>0. h \in RoomTasks /\ r \in Rooms /\ task[h].at \notin Making
  BY HandlersAreTasks, TaskFacts DEF NotRecovered, Making, Plain, Roomless
<1>1. UNCHANGED <<place, chan, moves, troubles, kept, stray>> /\ ~Locked(r)
  BY DEF NotRecovered, bounds, history
<1>2. TaskMoves
  BY <1>0, DoneMoves DEF NotRecovered
<1>3. sweep[r] # "prepare"
  BY <1>1 DEF Locked, SweepHolding
<1>4. CASE Registered(r) /\ MarkOccupied(r) /\ UNCHANGED sweep
  <2> HIDE DEF r
  <2>1. /\ row' \in [Rooms -> Rows] /\ row'[r] # NoRow /\ row'[r].since = "occupied"
        /\ \A s \in Rooms \ {r} : row'[s] = row[s]
    BY <1>0, <1>4, Marked
  <2>2. RoomTypes'
    BY <1>1, <1>4, <2>1, Typed DEF RoomTypes, Rows
  <2>3. Steady /\ NoneLost
    BY <1>1, <1>4, <2>1 DEF Steady, NoneLost, Registered
  <2>4. RoomsFit'
    BY <1>0, <1>1, <1>3, <1>4, <2>1, ThisRoomFits, OneRoomMoves DEF RoomFits, Registered
  <2> QED BY <1>2, <2>2, <2>3, <2>4, Assemble
<1>5. CASE Registered(r) /\ MarkEmpty(r) /\ Schedule(r)
  <2> HIDE DEF r
  <2>1. /\ row' \in [Rooms -> Rows] /\ row'[r] # NoRow /\ row'[r].since \in {"fresh", "due"}
        /\ \A s \in Rooms \ {r} : row'[s] = row[s]
    BY <1>0, <1>5, MarkedEmpty
  <2>2. /\ sweep' \in [Rooms -> SweepStates]
        /\ sweep'[r] = IF sweep[r] = "none" THEN "look" ELSE sweep[r]
        /\ \A s \in Rooms \ {r} : sweep'[s] = sweep[s]
    BY <1>0, <1>5, Scheduled
  <2>3. RoomTypes'
    BY <1>1, <2>1, <2>2, Typed DEF RoomTypes, Rows
  <2>4. Steady /\ NoneLost
    BY <1>1, <1>5, <2>1 DEF Steady, NoneLost, Registered
  <2>5. RoomsFit'
    BY <1>0, <1>1, <1>5, <2>1, <2>2, ThisRoomFits, OneRoomMoves DEF RoomFits, Registered
  <2> QED BY <1>2, <2>3, <2>4, <2>5, Assemble
<1>6. CASE UNCHANGED <<row, sweep>>
  <2>1. RoomTypes'
    BY <1>1, <1>6, Typed DEF RoomTypes
  <2>2. Steady /\ RoomsFit' /\ NoneLost
    BY <1>1, <1>6, QuietRooms
  <2> QED BY <1>2, <2>1, <2>2, Assemble
<1> QED BY <1>4, <1>5, <1>6 DEF NotRecovered

LEMMA MakeKeeps ==
  ASSUME RoomInv, NEW h \in Handlers, Make(h)
  PROVE  RoomInv'
<1>0. h \in RoomTasks /\ task[h].at = "make" /\ task[h].at \notin Making
  BY HandlersAreTasks DEF Make, Making
<1>1. UNCHANGED <<place, row, sweep, moves, kept, stray>>
  BY DEF Make, history
<1>2. troubles' \in 0 .. MaxTroubles
  BY Typed, Failed DEF Make, RoomTypes
<1>3. CASE UNCHANGED chan /\ (GoOn(h) \/ Done(h))
  <2>1. RoomTypes'
    BY <1>1, <1>2, <1>3, Typed DEF RoomTypes
  <2>2. Steady /\ RoomsFit' /\ NoneLost
    BY <1>1, <1>3, QuietRooms
  <2> QED BY <1>0, <1>3, <2>1, <2>2, GoOnMoves, DoneMoves, Assemble
<1>4. ASSUME NEW r \in Rooms, chan[r] = "none", chan' = [chan EXCEPT ![r] = "up"],
             task' = [task EXCEPT ![h].at = "register", ![h].room = r]
      PROVE  RoomInv'
  <2> DEFINE x == [task[h] EXCEPT !.at = "register", !.room = r]
  <2>1. Plain(x) /\ x.at = "register" /\ x.room = r
    BY <1>0, TaskFacts DEF Plain, TaskRecords, Creating, Roomless
  <2>2. /\ task' = [u \in RoomTasks |-> task'[u]] /\ task'[h] = x
        /\ \A u \in RoomTasks \ {h} : task'[u] = task[u]
    BY <1>0, <1>4, TypeParts DEF RoomInv
  <2> HIDE DEF x
  <2>3. /\ chan' \in [Rooms -> {"none", "up", "gone"}] /\ chan'[r] = "up"
        /\ \A s \in Rooms \ {r} : chan'[s] = chan[s]
    BY <1>4, Typed DEF RoomTypes
  <2>4. row[r] = NoRow /\ r \notin kept
    BY <1>4, ThisRoomFits DEF RoomFits
  <2>5. RoomTypes'
    BY <1>1, <1>2, <2>3, Typed DEF RoomTypes
  <2>6. Steady
    BY <1>1, <1>4, <2>3 DEF Steady
  <2>7. TasksFit'
    <3> SUFFICES ASSUME NEW u \in RoomTasks
                 PROVE  Fits(task'[u], chan', row', kept', stray')
      BY DEF TasksFit, RoomTasks
    <3>1. CASE u = h
      BY <1>1, <2>1, <2>2, <2>3, <2>4, <3>1 DEF Fits
    <3>2. CASE u # h
      BY <2>2, <2>6, <3>2, TaskFacts, StillFits
    <3> QED BY <3>1, <3>2
  <2>8. OwnRoom'
    <3>1. \A u \in RoomTasks : task[u].at = "register" => task[u].room # r
      BY <1>4, TaskFacts DEF Fits
    <3> QED BY <2>1, <2>2, <3>1 DEF RoomInv, OwnRoom, RoomTasks
  <2>9. RoomsFit'
    BY <1>1, <1>4, <2>3, <2>4, ThisRoomFits, OneRoomMoves DEF RoomFits
  <2>10. NoneLost
    BY <1>1, <2>1, <2>2, <2>3 DEF NoneLost, Making
  <2>11. \A u \in RoomTasks : LetGo(u)
    BY <1>0, <2>2 DEF LetGo
  <2> QED BY <2>2, <2>5, <2>7, <2>8, <2>9, <2>10, <2>11, AssembleParts
<1> QED BY <1>3, <1>4 DEF Make

LEMMA RegisterKeeps ==
  ASSUME RoomInv, NEW h \in Handlers, Register(h)
  PROVE  RoomInv'
<1> DEFINE r == task[h].room
           m == task[h].who
<1>0. h \in RoomTasks /\ task[h].at = "register" /\ Fits(task[h], chan, row, kept, stray)
  BY HandlersAreTasks, TaskFacts DEF Register
<1>1. r \in Rooms /\ m \in Members /\ chan[r] # "none" /\ row[r] = NoRow /\ r \notin kept
  BY <1>0 DEF Fits, Plain, Creating, Roomless
<1>2. UNCHANGED <<place, chan, sweep, moves, kept, stray>>
  BY DEF Register, history
<1>3. troubles' \in 0 .. MaxTroubles
  BY Typed, Failed DEF Register, RoomTypes
<1>4. CASE Goto(h, "unmake") /\ UNCHANGED row
  <2> DEFINE x == [task[h] EXCEPT !.at = "unmake"]
  <2>1. Plain(x) /\ x.at = "unmake" /\ x.room = r
    BY <1>0, TaskFacts DEF Plain, TaskRecords, Creating, Roomless
  <2>2. Fits(x, chan', row', kept', stray')
    BY <2>1, PlainFits
  <2>3. task' = [task EXCEPT ![h] = x]
    BY <1>4 DEF Goto
  <2> HIDE DEF x, r
  <2>4. task'[h] = x /\ \A u \in RoomTasks \ {h} : task'[u] = task[u]
    BY <1>0, <2>3, TypeParts DEF RoomInv
  <2>5. GoesOn(h)
    BY <2>1, <2>2, <2>4 DEF GoesOn, LetGo, Making, r
  <2>6. TaskMoves
    BY <2>3, <2>4, <2>5, TypeParts DEF RoomInv, TaskMoves
  <2>7. RoomTypes'
    BY <1>2, <1>3, <1>4, Typed DEF RoomTypes
  <2>8. Steady /\ RoomsFit' /\ NoneLost
    BY <1>2, <1>4, QuietRooms
  <2> QED BY <2>6, <2>7, <2>8, Assemble
<1>5. CASE row' = [row EXCEPT ![r] = Occupied(m)] /\ Goto(h, "place")
  <2> DEFINE x == [task[h] EXCEPT !.at = "place"]
  <2>1. Plain(x) /\ x.at = "place"
    BY <1>0, TaskFacts DEF Plain, TaskRecords, Creating, Roomless
  <2>2. Fits(x, chan', row', kept', stray')
    BY <2>1, PlainFits
  <2>3. /\ task' = [u \in RoomTasks |-> task'[u]] /\ task'[h] = x
        /\ \A u \in RoomTasks \ {h} : task'[u] = task[u]
    BY <1>0, <1>5, TypeParts DEF RoomInv, Goto
  <2>4. Occupied(m) \in [owner : Members, since : {"occupied", "fresh", "due"}]
    BY <1>1 DEF Occupied
  <2>5. \A u \in RoomTasks \ {h} : task[u].at = "register" => task[u].room # r
    BY <1>0 DEF RoomInv, OwnRoom
  <2> HIDE DEF x, r, m
  <2>6. /\ row' \in [Rooms -> Rows] /\ row'[r] # NoRow
        /\ \A s \in Rooms \ {r} : row'[s] = row[s]
    BY <1>1, <1>5, <2>4, RowTyped, NoRowApart DEF Rows
  <2>7. RoomTypes'
    BY <1>2, <1>3, <2>6, Typed DEF RoomTypes, Rows
  <2>8. TasksFit'
    <3> SUFFICES ASSUME NEW u \in RoomTasks
                 PROVE  Fits(task'[u], chan', row', kept', stray')
      BY DEF TasksFit, RoomTasks
    <3>1. CASE u = h
      BY <2>2, <2>3, <3>1
    <3>2. CASE u # h
      <4>1. task'[u] = task[u] /\ Fits(task[u], chan, row, kept, stray)
        BY <2>3, <3>2, TaskFacts
      <4>2. task[u].at = "register" => task[u].room \in Rooms \ {r}
        BY <2>5, <3>2, <4>1 DEF Fits, Plain, Roomless
      <4> QED BY <1>2, <2>6, <4>1, <4>2 DEF Fits
    <3> QED BY <3>1, <3>2
  <2>9. OwnRoom'
    BY <2>1, <2>3 DEF RoomInv, OwnRoom, RoomTasks
  <2>10. RoomsFit'
    <3>1. row[r].since = "none"
      BY <1>1 DEF NoRow
    <3> QED BY <1>1, <1>2, <2>6, <3>1, ThisRoomFits, OneRoomMoves DEF RoomFits
  <2>11. NoneLost
    BY <1>2, <2>6 DEF NoneLost
  <2>12. \A u \in RoomTasks : LetGo(u)
    BY <2>3, <2>6 DEF LetGo, r
  <2> QED BY <2>3, <2>7, <2>8, <2>9, <2>10, <2>11, <2>12, AssembleParts
<1> QED BY <1>4, <1>5 DEF Register

\* Whoever has asked for the channel's deletion goes on to the row, without a
\* channel or as a stray.
LEMMA UnmakeKeeps ==
  ASSUME RoomInv, NEW h \in Handlers, Unmake(h)
  PROVE  RoomInv'
<1> DEFINE r == task[h].room
           x == [task[h] EXCEPT !.at = "unregister"]
           next == [task EXCEPT ![h].at = "unregister"]
<1>0. h \in RoomTasks /\ task[h].at = "unmake"
  BY HandlersAreTasks DEF Unmake
<1>1. r \in Rooms /\ Plain(x) /\ x.at = "unregister" /\ x.room = r
  BY <1>0, TaskFacts DEF Plain, Creating, Roomless, TaskRecords
<1>2. task \in [RoomTasks -> TaskRecords] /\ next = [task EXCEPT ![h] = x]
  BY TypeParts DEF RoomInv
<1>3. UNCHANGED <<row, sweep, moves, kept>>
  BY DEF Unmake
<1> HIDE DEF x
<1>4. CASE chan[r] = "gone" /\ task' = next /\ UNCHANGED <<place, chan, troubles, stray>>
  <2>1. Fits(x, chan', row', kept', stray') /\ task'[h] = x
    BY <1>0, <1>1, <1>2, <1>4 DEF Fits
  <2>2. GoesOn(h)
    BY <1>1, <2>1 DEF GoesOn, LetGo, Making
  <2>3. TaskMoves
    BY <1>2, <1>4, <2>2 DEF TaskMoves
  <2>4. RoomTypes'
    BY <1>3, <1>4, Typed DEF RoomTypes
  <2>5. Steady /\ RoomsFit' /\ NoneLost
    BY <1>3, <1>4, QuietRooms
  <2> QED BY <2>3, <2>4, <2>5, Assemble
<1>5. CASE chan[r] = "up" /\ RemoveChannel(r) /\ Deliver(next, Vanished(r)) /\ UNCHANGED <<troubles, stray>>
  <2>1. /\ chan' \in [Rooms -> {"none", "up", "gone"}]
        /\ place' \in [Members -> Rooms \union {Lobby, Away}]
        /\ chan'[r] = "gone"
        /\ \A s \in Rooms \ {r} : chan'[s] = chan[s]
    BY <1>1, <1>5, Removed
  <2>2. Fits(x, chan', row', kept', stray')
    BY <1>1, <2>1 DEF Fits
  <2>3. Fits(Vanished(r), chan', row', kept', stray') /\ Vanished(r).at = "vanish"
    BY <1>1, <2>1, VanishedFits
  <2> DEFINE e == Vanished(r)
  <2>4. task' = next \/ \E g \in Handlers : next[g].at = "free" /\ task' = [next EXCEPT ![g] = e]
    BY <1>5 DEF Deliver
  <2> HIDE DEF e, next, r
  <2>5. TaskMoves
    <3>1. CASE task' = next
      <4>1. GoesOn(h)
        BY <1>0, <1>1, <1>2, <2>2, <3>1 DEF GoesOn, LetGo, Making, r
      <4> QED BY <1>2, <3>1, <4>1 DEF TaskMoves
    <3>2. ASSUME NEW g \in Handlers, next[g].at = "free", task' = [next EXCEPT ![g] = e]
          PROVE  TaskMoves
      <4>1. g \in RoomTasks /\ g # h /\ task[g].at = "free"
        BY <1>0, <1>1, <1>2, <3>2, HandlersAreTasks
      <4>2. task'[h] = x /\ task'[g] = e
        BY <1>0, <1>2, <3>2, <4>1
      <4>3. GoesOn(h) /\ GoesOn(g)
        BY <1>1, <2>2, <2>3, <4>1, <4>2 DEF GoesOn, LetGo, Making, r, e
      <4>4. \A u \in RoomTasks : task'[u] = task[u] \/ u \in {g, h}
        BY <1>0, <1>2, <3>2, <4>1
      <4>5. task' = [u \in RoomTasks |-> task'[u]]
        BY <1>2, <3>2
      <4> QED BY <4>3, <4>4, <4>5 DEF TaskMoves
    <3> QED BY <2>4, <3>1, <3>2
  <2>6. RoomTypes'
    BY <1>3, <1>5, <2>1, Typed DEF RoomTypes
  <2>7. Steady /\ NoneLost
    BY <1>1, <1>3, <1>5, <2>1 DEF Steady, NoneLost
  <2>8. RoomsFit'
    BY <1>1, <1>3, <1>5, <2>1, ThisRoomFits, OneRoomMoves DEF RoomFits
  <2> QED BY <2>5, <2>6, <2>7, <2>8, Assemble
<1>6. CASE chan[r] = "up" /\ Fails /\ task' = next /\ stray' = stray \union {r} /\ UNCHANGED <<place, chan>>
  <2>1. Fits(x, chan', row', kept', stray') /\ task'[h] = x
    BY <1>0, <1>1, <1>2, <1>6 DEF Fits
  <2>2. GoesOn(h)
    BY <1>1, <2>1 DEF GoesOn, LetGo, Making
  <2>3. TaskMoves
    BY <1>2, <1>6, <2>2 DEF TaskMoves
  <2>4. RoomTypes'
    BY <1>1, <1>3, <1>6, Typed, Failed DEF RoomTypes
  <2>5. Steady /\ NoneLost
    BY <1>3, <1>6 DEF Steady, NoneLost
  <2>6. RoomsFit'
    BY <1>1, <1>3, <1>6, ThisRoomFits, OneRoomMoves DEF RoomFits
  <2> QED BY <2>3, <2>4, <2>5, <2>6, Assemble
<1> QED BY <1>4, <1>5, <1>6 DEF Unmake

\* A row is finished whose channel is gone, or a stray.
LEMMA RowGoes ==
  ASSUME RoomInv, NEW r \in Rooms, chan[r] = "gone" \/ r \in stray, FinishRooms({r}),
         UNCHANGED <<place, chan, sweep, moves, troubles, kept, stray>>
  PROVE  RoomTypes' /\ Steady /\ RoomsFit' /\ NoneLost /\ row'[r] = NoRow
<1>1. /\ row' \in [Rooms -> Rows] /\ row'[r] = NoRow
      /\ \A s \in Rooms \ {r} : row'[s] = row[s]
  BY Finished
<1>2. RoomTypes'
  BY <1>1, Typed DEF RoomTypes, Rows
<1>3. Steady /\ NoneLost
  BY <1>1 DEF Steady, NoneLost
<1>4. RoomsFit'
  BY <1>1, ThisRoomFits, OneRoomMoves DEF RoomFits
<1> QED BY <1>1, <1>2, <1>3, <1>4

LEMMA UnregisterKeeps ==
  ASSUME RoomInv, NEW h \in Handlers, Unregister(h)
  PROVE  RoomInv'
<1> DEFINE r == task[h].room
<1>0. h \in RoomTasks /\ r \in Rooms /\ (chan[r] = "gone" \/ r \in stray)
  BY HandlersAreTasks, TaskFacts DEF Unregister, Fits, Plain, Roomless
<1>1. UNCHANGED <<place, chan, sweep, moves, troubles, kept, stray>> /\ FinishRooms({r})
  BY DEF Unregister, bounds, history
<1> HIDE DEF r
<1>2. RoomTypes' /\ Steady /\ RoomsFit' /\ NoneLost
  BY <1>0, <1>1, RowGoes
<1>3. /\ task' = [u \in RoomTasks |-> task'[u]] /\ task'[h] = Free
      /\ \A u \in RoomTasks \ {h} : task'[u] = task[u]
  BY <1>0, TypeParts DEF RoomInv, Unregister, Done
<1>4. GoesOn(h)
  BY <1>0, <1>1, <1>3, FreePlain, PlainFits DEF GoesOn, LetGo, r
<1>5. TaskMoves
  BY <1>3, <1>4 DEF TaskMoves
<1> QED BY <1>2, <1>5, Assemble

-------------------------------------------------------------------------------
(* Deleted channels and commands                                           *)

LEMMA VanishKeeps ==
  ASSUME RoomInv, NEW h \in Handlers, Vanish(h)
  PROVE  RoomInv'
<1> DEFINE r == task[h].room
<1>0. /\ h \in RoomTasks /\ r \in Rooms /\ task[h].at \notin Making
      /\ task[h].at = "vanish" /\ chan[r] = "gone"
  BY HandlersAreTasks, TaskFacts DEF Vanish, Fits, Plain, Roomless, Making
<1>1. UNCHANGED <<place, chan, row, moves, troubles, kept, stray>>
  BY DEF Vanish, durable, bounds, history
<1>2. CASE Done(h) /\ UNCHANGED sweep
  <2>1. RoomTypes'
    BY <1>1, <1>2, Typed DEF RoomTypes
  <2>2. Steady /\ RoomsFit' /\ NoneLost
    BY <1>1, <1>2, QuietRooms
  <2> QED BY <1>0, <1>2, <2>1, <2>2, DoneMoves, Assemble
<1>3. CASE Goto(h, "forget") /\ Cancel(r)
  <2> DEFINE x == [task[h] EXCEPT !.at = "forget"]
  <2>1. Fits(x, chan', row', kept', stray') /\ x.at = "forget"
    BY <1>0, <1>1, TaskFacts DEF Fits, Plain, TaskRecords, Others, Creating, Roomless
  <2>2. task' = [task EXCEPT ![h] = x]
    BY <1>3 DEF Goto
  <2> HIDE DEF x, r
  <2>3. /\ sweep' \in [Rooms -> SweepStates] /\ sweep'[r] = "none"
        /\ \A s \in Rooms \ {r} : sweep'[s] = sweep[s]
    BY <1>0, <1>3, Cancelled
  <2>4. RoomTypes'
    BY <1>1, <2>3, Typed DEF RoomTypes
  <2>5. Steady /\ NoneLost
    BY <1>1 DEF Steady, NoneLost
  <2>6. RoomsFit'
    BY <1>0, <1>1, <2>3, ThisRoomFits, OneRoomMoves DEF RoomFits
  <2> QED BY <1>0, <2>1, <2>2, <2>4, <2>5, <2>6, OneMoves, Assemble
<1> QED BY <1>2, <1>3 DEF Vanish

LEMMA ForgetKeeps ==
  ASSUME RoomInv, NEW h \in Handlers, Forget(h)
  PROVE  RoomInv'
<1> DEFINE r == task[h].room
<1>0. h \in RoomTasks /\ r \in Rooms /\ task[h].at \notin Making /\ chan[r] = "gone"
  BY HandlersAreTasks, TaskFacts DEF Forget, Fits, Plain, Roomless, Making
<1>1. UNCHANGED <<place, chan, sweep, moves, troubles, kept, stray>> /\ FinishRooms({r})
  BY DEF Forget, bounds, history
<1>2. TaskMoves
  BY <1>0, DoneMoves DEF Forget
<1> HIDE DEF r
<1>3. RoomTypes' /\ Steady /\ RoomsFit' /\ NoneLost
  BY <1>0, <1>1, RowGoes
<1> QED BY <1>2, <1>3, Assemble

LEMMA KeepPermanentKeeps ==
  ASSUME RoomInv, NEW h \in Handlers, KeepPermanent(h)
  PROVE  RoomInv'
<1> DEFINE r == task[h].room
<1>0. h \in RoomTasks /\ r \in Rooms /\ task[h].at \notin Making
  BY HandlersAreTasks, TaskFacts DEF KeepPermanent, Plain, Roomless, Making
<1>1. /\ UNCHANGED <<place, chan, moves, troubles, stray>> /\ Cancel(r) /\ FinishRooms({r})
      /\ kept' = IF Registered(r) THEN kept \union {r} ELSE kept
  BY DEF KeepPermanent, bounds
<1>2. TaskMoves
  BY <1>0, DoneMoves DEF KeepPermanent
<1> HIDE DEF r
<1>3. /\ row' \in [Rooms -> Rows] /\ row'[r] = NoRow
      /\ \A s \in Rooms \ {r} : row'[s] = row[s]
  BY <1>0, <1>1, Finished
<1>4. /\ sweep' \in [Rooms -> SweepStates] /\ sweep'[r] = "none"
      /\ \A s \in Rooms \ {r} : sweep'[s] = sweep[s]
  BY <1>0, <1>1, Cancelled
<1>5. RoomTypes'
  BY <1>0, <1>1, <1>3, <1>4, Typed DEF RoomTypes, Rows
<1>6. Steady /\ NoneLost
  BY <1>0, <1>1, <1>3 DEF Steady, NoneLost, Registered
<1>7. RoomsFit'
  BY <1>0, <1>1, <1>3, <1>4, ThisRoomFits, OneRoomMoves DEF RoomFits, Registered
<1> QED BY <1>2, <1>5, <1>6, <1>7, Assemble

LEMMA HandKeeps ==
  ASSUME RoomInv, NEW h \in Handlers, Hand(h)
  PROVE  RoomInv'
<1> DEFINE r == task[h].room
           m == task[h].heir
<1>0. h \in RoomTasks /\ r \in Rooms /\ m \in Members /\ task[h].at \notin Making
  BY HandlersAreTasks, TaskFacts DEF Hand, Plain, Roomless, Making
<1>1. UNCHANGED <<place, chan, sweep, moves, troubles, kept, stray>>
  BY DEF Hand, bounds, history
<1>2. TaskMoves
  BY <1>0, DoneMoves DEF Hand
<1>3. CASE Registered(r) /\ Transfer(r, m)
  <2> HIDE DEF r, m
  <2>1. /\ row' \in [Rooms -> Rows] /\ row'[r] # NoRow /\ row'[r].since = row[r].since
        /\ \A s \in Rooms \ {r} : row'[s] = row[s]
    BY <1>0, <1>3, Transferred
  <2>2. RoomTypes'
    BY <1>1, <2>1, Typed DEF RoomTypes, Rows
  <2>3. Steady /\ NoneLost
    BY <1>0, <1>1, <1>3, <2>1 DEF Steady, NoneLost, Registered
  <2>4. RoomsFit'
    BY <1>0, <1>1, <1>3, <2>1, ThisRoomFits, OneRoomMoves DEF RoomFits, Registered
  <2> QED BY <1>2, <2>2, <2>3, <2>4, Assemble
<1>4. CASE UNCHANGED row
  <2>1. RoomTypes'
    BY <1>1, <1>4, Typed DEF RoomTypes
  <2>2. Steady /\ RoomsFit' /\ NoneLost
    BY <1>1, <1>4, QuietRooms
  <2> QED BY <1>2, <2>1, <2>2, Assemble
<1> QED BY <1>3, <1>4 DEF Hand

LEMMA HandlerKeeps ==
  ASSUME RoomInv, NEW h \in Handlers, HandlerStep(h)
  PROVE  RoomInv'
BY JoinKeeps, CreateKeeps, ScanKeeps, RecoverKeeps, MoveBackKeeps, RecoveredKeeps, NotRecoveredKeeps,
   MakeKeeps, RegisterKeeps, PlaceOwnerKeeps, UnmakeKeeps, UnregisterKeeps,
   VanishKeeps, ForgetKeeps, KeepPermanentKeeps, HandKeeps DEF HandlerStep

-------------------------------------------------------------------------------
(* The deletion task                                                       *)

\* A step of the deletion task of a room that leaves channels and tasks alone.
LEMMA SweepMoves ==
  ASSUME RoomInv, NEW r \in Rooms, NEW at \in SweepStates, SweepTo(r, at),
         UNCHANGED <<place, chan, task, moves, troubles, kept, stray>>,
         row' \in [Rooms -> Rows], \A s \in Rooms \ {r} : row'[s] = row[s],
         row'[r] = NoRow => row[r] = NoRow \/ chan[r] = "gone",
         row[r] = NoRow => row'[r] = NoRow,
         at = "finish" => chan[r] = "gone",
         at = "prepare" => r \notin kept /\ chan[r] # "none" /\ row'[r].since \in {"fresh", "due"}
  PROVE  RoomInv'
<1>1. /\ sweep' \in [Rooms -> SweepStates] /\ sweep'[r] = at
      /\ \A s \in Rooms \ {r} : sweep'[s] = sweep[s]
  BY SweepTyped DEF SweepTo
<1>2. RoomTypes'
  BY <1>1, Typed DEF RoomTypes, Rows
<1>3. Steady /\ NoneLost
  BY DEF Steady, NoneLost
<1>4. RoomsFit'
  BY <1>1, ThisRoomFits, OneRoomMoves DEF RoomFits
<1> QED BY <1>2, <1>3, <1>4, NobodyMoves, Assemble

LEMMA LookKeeps ==
  ASSUME RoomInv, NEW r \in Rooms, Look(r)
  PROVE  RoomInv'
<1> DEFINE x == [row[r] EXCEPT !.since = IF row[r].since = "fresh" THEN "due" ELSE row[r].since]
           at == IF Empty(r) THEN "wait" ELSE "exit"
<1>1. row' = [row EXCEPT ![r] = x] /\ SweepTo(r, at)
      /\ UNCHANGED <<place, chan, task, moves, troubles, kept, stray>>
  BY DEF Look, bounds, history
<1>2. CASE row[r] = NoRow
  <2>1. x = NoRow
    BY <1>2 DEF NoRow
  <2> HIDE DEF x
  <2>2. row' = row
    BY <1>1, <1>2, <2>1, RowTyped
  <2> QED BY <1>1, <2>2, RowTyped, SweepMoves DEF SweepStates
<1>3. CASE row[r] # NoRow
  <2>1. x \in [owner : Members, since : {"occupied", "fresh", "due"}]
    BY <1>3, RowTyped DEF Registered
  <2> HIDE DEF x
  <2>2. row' \in [Rooms -> Rows] /\ row'[r] # NoRow /\ \A s \in Rooms \ {r} : row'[s] = row[s]
    BY <1>1, <2>1, RowTyped, NoRowApart DEF Rows
  <2> QED BY <1>1, <1>3, <2>2, SweepMoves DEF SweepStates
<1> QED BY <1>2, <1>3

LEMMA EmptyRegistered ==
  ASSUME NEW r, Empty(r)
  PROVE  Registered(r)
BY DEF Empty, Registered, NoRow

LEMMA RecheckKeeps ==
  ASSUME RoomInv, NEW r \in Rooms, Recheck(r)
  PROVE  RoomInv'
<1>1. UNCHANGED <<place, chan, task, moves, troubles, kept, stray>>
  BY DEF Recheck, bounds, history
<1>2. CASE SweepTo(r, "exit") /\ UNCHANGED row
  BY <1>1, <1>2, RowTyped, SweepMoves DEF SweepStates
<1>3. CASE chan[r] = "gone" /\ FinishRooms({r}) /\ SweepTo(r, "exit")
  <2>1. /\ row' \in [Rooms -> Rows] /\ row'[r] = NoRow
        /\ \A s \in Rooms \ {r} : row'[s] = row[s]
    BY <1>3, Finished
  <2> QED BY <1>1, <1>3, <2>1, SweepMoves DEF SweepStates
<1>4. CASE Empty(r) /\ MarkOccupied(r) /\ SweepTo(r, "exit")
  <2>1. Registered(r)
    BY <1>4, EmptyRegistered
  <2>2. /\ row' \in [Rooms -> Rows] /\ row'[r] # NoRow
        /\ \A s \in Rooms \ {r} : row'[s] = row[s]
    BY <1>4, <2>1, Marked
  <2> QED BY <1>1, <1>4, <2>1, <2>2, SweepMoves DEF SweepStates, Registered
<1>5. CASE Empty(r) /\ chan[r] = "up" /\ SweepTo(r, "prepare") /\ UNCHANGED row
  <2>1. r \notin kept
    BY <1>5, EmptyRegistered, ThisRoomFits DEF RoomFits, Registered
  <2>2. row'[r].since \in {"fresh", "due"}
    BY <1>5 DEF Empty
  <2> QED BY <1>1, <1>5, <2>1, <2>2, RowTyped, SweepMoves DEF SweepStates
<1> QED BY <1>2, <1>3, <1>4, <1>5 DEF Recheck

LEMMA AskDeletionKeeps ==
  ASSUME RoomInv, NEW r \in Rooms, AskDeletion(r)
  PROVE  RoomInv'
<1>1. UNCHANGED <<place, chan, task, moves, troubles, kept, stray>>
  BY DEF AskDeletion, bounds, history
<1>2. CASE (SweepTo(r, "delete") \/ SweepTo(r, "exit")) /\ UNCHANGED row
  BY <1>1, <1>2, RowTyped, SweepMoves DEF SweepStates
<1>3. CASE SweepTo(r, "exit") /\ Registered(r) /\ MarkOccupied(r)
  <2>1. /\ row' \in [Rooms -> Rows] /\ row'[r] # NoRow
        /\ \A s \in Rooms \ {r} : row'[s] = row[s]
    BY <1>3, Marked
  <2> QED BY <1>1, <1>3, <2>1, SweepMoves DEF SweepStates, Registered
<1> QED BY <1>2, <1>3 DEF AskDeletion

\* The channel of a room goes, whoever asked for it.
LEMMA ChannelGoes ==
  ASSUME RoomInv, NEW r \in Rooms, RemoveChannel(r), chan[r] = "up", Deliver(task, Vanished(r)),
         NEW at \in SweepStates \ {"prepare"}, SweepTo(r, at),
         UNCHANGED <<row, troubles, kept, stray>>, moves' \in 0 .. MaxMoves
  PROVE  RoomInv'
<1>1. /\ chan' \in [Rooms -> {"none", "up", "gone"}]
      /\ place' \in [Members -> Rooms \union {Lobby, Away}]
      /\ chan'[r] = "gone"
      /\ \A s \in Rooms \ {r} : chan'[s] = chan[s]
  BY Removed
<1>2. /\ sweep' \in [Rooms -> SweepStates] /\ sweep'[r] = at
      /\ \A s \in Rooms \ {r} : sweep'[s] = sweep[s]
  BY SweepTyped DEF SweepTo
<1>3. RoomTypes'
  BY <1>1, <1>2, Typed DEF RoomTypes
<1>4. Steady /\ NoneLost
  BY <1>1 DEF Steady, NoneLost
<1>5. RoomsFit'
  BY <1>1, <1>2, ThisRoomFits, OneRoomMoves DEF RoomFits
<1>6. TaskMoves
  BY <1>1, VanishedFits, EventMoves
<1> QED BY <1>3, <1>4, <1>5, <1>6, Assemble

LEMMA SweepKeeps ==
  ASSUME RoomInv, NEW r \in Rooms, SweepStep(r)
  PROVE  RoomInv'
<1>1. CASE Deleted(r)
  <2>1. moves' \in 0 .. MaxMoves
    BY <1>1, Typed DEF Deleted, bounds, RoomTypes
  <2> QED BY <1>1, <2>1, ChannelGoes DEF Deleted, bounds, history, SweepStates
<1>2. CASE NotDeleted(r)
  <2>1. /\ sweep' \in [Rooms -> SweepStates] /\ sweep'[r] = "look"
        /\ \A s \in Rooms \ {r} : sweep'[s] = sweep[s]
    BY <1>2, SweepTyped DEF NotDeleted, SweepTo, SweepStates
  <2>2. UNCHANGED <<place, chan, row, task, moves, kept, stray>>
    BY <1>2 DEF NotDeleted, durable, history
  <2>3. RoomTypes'
    BY <1>2, <2>1, <2>2, Typed, Failed DEF RoomTypes, NotDeleted
  <2>4. Steady /\ NoneLost
    BY <2>2 DEF Steady, NoneLost
  <2>5. RoomsFit'
    BY <2>1, <2>2, ThisRoomFits, OneRoomMoves DEF RoomFits
  <2> QED BY <2>2, <2>3, <2>4, <2>5, NobodyMoves, Assemble
<1>3. CASE Finish(r)
  <2>1. /\ row' \in [Rooms -> Rows] /\ row'[r] = NoRow
        /\ \A s \in Rooms \ {r} : row'[s] = row[s]
    BY <1>3, Finished DEF Finish
  <2>2. chan[r] = "gone"
    BY <1>3, ThisRoomFits DEF Finish, RoomFits
  <2> QED BY <1>3, <2>1, <2>2, SweepMoves DEF Finish, bounds, history, SweepStates
<1>4. CASE Exit(r)
  BY <1>4, RowTyped, SweepMoves DEF Exit, durable, bounds, history, SweepStates
<1> QED BY <1>1, <1>2, <1>3, <1>4, LookKeeps, RecheckKeeps, AskDeletionKeeps DEF SweepStep

LEMMA RescheduleKeeps ==
  ASSUME RoomInv, NEW r \in Rooms, Reschedule(r)
  PROVE  RoomInv'
<1>1. moves' \in 0 .. MaxMoves /\ UNCHANGED <<troubles, kept, stray>> /\ SweepTo(r, "look")
  BY Typed, RoomAssumption DEF Reschedule, RoomTypes, history
<1>2. CASE RemoveChannel(r) /\ chan[r] = "up" /\ Deliver(task, Vanished(r)) /\ UNCHANGED row
  BY <1>1, <1>2, ChannelGoes DEF SweepStates
<1>3. CASE UNCHANGED <<place, chan, task>> /\ (UNCHANGED row \/ (sweep[r] = "finish" /\ FinishRooms({r})))
  <2>1. /\ sweep' \in [Rooms -> SweepStates] /\ sweep'[r] = "look"
        /\ \A s \in Rooms \ {r} : sweep'[s] = sweep[s]
    BY <1>1, SweepTyped DEF SweepTo, SweepStates
  <2>2. /\ row' \in [Rooms -> Rows] /\ (row'[r] = NoRow \/ row'[r] = row[r])
        /\ \A s \in Rooms \ {r} : row'[s] = row[s]
        /\ row'[r] # row[r] => chan[r] = "gone"
    BY <1>3, RowTyped, Finished, ThisRoomFits DEF RoomFits
  <2>3. RoomTypes'
    BY <1>1, <1>3, <2>1, <2>2, Typed DEF RoomTypes, Rows
  <2>4. Steady /\ NoneLost
    BY <1>1, <1>3, <2>2 DEF Steady, NoneLost
  <2>5. RoomsFit'
    BY <1>1, <1>3, <2>1, <2>2, ThisRoomFits, OneRoomMoves DEF RoomFits
  <2> QED BY <1>3, <2>3, <2>4, <2>5, NobodyMoves, Assemble
<1> QED BY <1>2, <1>3 DEF Reschedule, durable

\* A new start: everybody is free, and what was being made is a stray.
LEMMA RestartKeeps ==
  ASSUME RoomInv, Restart
  PROVE  RoomInv'
<1>1. UNCHANGED <<place, chan, row, moves, kept>>
  BY DEF Restart, durable
<1>2. /\ sweep' = [r \in Rooms |-> "none"] /\ stray \subseteq stray' /\ stray' \in SUBSET Rooms
      /\ \A r \in Rooms : chan[r] = "up" /\ row[r] = NoRow => r \in kept' \union stray'
  BY Typed DEF Restart, RoomTypes, Registered
<1>3. RoomTypes'
  BY <1>1, <1>2, Typed, Failed DEF RoomTypes, Restart, SweepStates
<1>4. Steady
  BY <1>1, <1>2 DEF Steady
<1>5. RoomsFit'
  BY <1>1, <1>2, ThisRoomFits DEF RoomFits, RoomsFit
<1>6. NoneLost
  BY <1>1, <1>2 DEF NoneLost
<1>7. task' = [t \in RoomTasks |-> Free]
  BY DEF Restart
<1>8. TasksFit' /\ OwnRoom'
  <2>1. Fits(Free, chan', row', kept', stray') /\ Free.at = "free"
    BY FreePlain, PlainFits
  <2> QED BY <1>7, <2>1 DEF TasksFit, OwnRoom, RoomTasks
<1>9. Tracked'
  BY <1>1, <1>2 DEF Tracked, Registered, NoRow
<1>10. RoomTypeOK'
  <2>1. task' \in [RoomTasks -> TaskRecords]
    BY <1>7, FreePlain DEF Plain
  <2> QED BY <1>3, <2>1, TypePartsNext
<1> QED BY <1>5, <1>8, <1>9, <1>10 DEF RoomInv

-------------------------------------------------------------------------------
(* The theorems                                                            *)

LEMMA RoomInitKeeps == RoomInit => RoomInv
<1> SUFFICES ASSUME RoomInit PROVE RoomInv
  OBVIOUS
<1>1. task = [t \in RoomTasks |-> Free] /\ sweep = [r \in Rooms |-> "none"]
      /\ moves = 0 /\ troubles = 0 /\ kept = {} /\ stray = {}
  BY DEF RoomInit
<1>2. Someone \in Members
  BY RoomAssumption DEF Someone
<1>3. PICK known \in SUBSET Rooms :
        /\ chan = [r \in Rooms |-> IF r \in known THEN "up" ELSE "none"]
        /\ row = [r \in Rooms |-> IF r \in known THEN Occupied(Someone) ELSE NoRow]
        /\ place \in [Members -> known \union {Lobby, Away}]
  BY DEF RoomInit
<1>4. Occupied(Someone) \in [owner : Members, since : {"occupied", "fresh", "due"}]
  BY <1>2 DEF Occupied
<1>5. RoomTypes
  BY <1>1, <1>3, <1>4, RoomAssumption DEF RoomTypes, SweepStates
<1>6. RoomTypeOK
  BY <1>1, <1>5, FreePlain, TypeParts DEF Plain
<1>7. TasksFit /\ OwnRoom
  BY <1>1, FreePlain, PlainFits DEF TasksFit, OwnRoom
<1>8. RoomsFit
  BY <1>1, <1>3 DEF RoomsFit, RoomFits
<1>9. Tracked
  BY <1>3, <1>4, NoRowApart DEF Tracked, Registered
<1> QED BY <1>6, <1>7, <1>8, <1>9 DEF RoomInv

LEMMA RoomNextKeeps == RoomInv /\ [RoomNext]_roomVars => RoomInv'
<1> SUFFICES ASSUME RoomInv, [RoomNext]_roomVars PROVE RoomInv'
  OBVIOUS
<1>1. CASE RoomNext
  BY <1>1, MoveKeeps, WreckKeeps, VisitKeeps, RescheduleKeeps, SweepKeeps, AskCreateKeeps,
     AskKeepKeeps, AskHandKeeps, HandlerKeeps, HeirKeeps, DepartKeeps, RestartKeeps
     DEF RoomNext, LockedStep
<1>2. CASE UNCHANGED roomVars
  <2>1. UNCHANGED <<place, chan, row, task, sweep, moves, troubles, kept, stray>>
    BY <1>2 DEF roomVars, durable, bounds, history
  <2>2. RoomTypes'
    BY <2>1, Typed DEF RoomTypes
  <2> QED BY <2>1, <2>2, QuietRooms, NobodyMoves, Assemble
<1> QED BY <1>1, <1>2

\* The rooms' inductive invariant: types, what the tasks rely on, and Tracked.
THEOREM RoomInductive == RoomSpec => []RoomInv
<1>1. RoomInit => RoomInv
  BY RoomInitKeeps
<1>2. RoomInv /\ [RoomNext]_roomVars => RoomInv'
  BY RoomNextKeeps
<1> QED BY <1>1, <1>2, PTL DEF RoomSpec

\* The types of the rooms' registry, tasks and channels, at all times.
THEOREM RoomTypeCorrect == RoomSpec => []RoomTypeOK
<1>1. RoomInv => RoomTypeOK
  BY DEF RoomInv
<1> QED BY <1>1, RoomInductive, PTL

\* A channel the bot has made has a row, somebody who takes care of it, or is
\* accounted for: whatever is missed, fails or is cut off in between.
THEOREM TrackedHolds == RoomSpec => []Tracked
<1>1. RoomInv => Tracked
  BY DEF RoomInv
<1> QED BY <1>1, RoomInductive, PTL

\* Only the step that looks for people again asks for a deletion.
LEMMA OnlyAskDeletionAsks ==
  ASSUME RoomInv, RoomNext, NEW r \in Rooms, AsksDeletion(r)
  PROVE  AskDeletion(r)
<1> SUFFICES ASSUME ~AskDeletion(r) PROVE FALSE
  OBVIOUS
<1>0. sweep \in [Rooms -> SweepStates] /\ sweep[r] # "delete" /\ sweep'[r] = "delete"
  BY Typed DEF RoomTypes, AsksDeletion
<1>1. ASSUME NEW s \in Rooms, SweepStep(s)
      PROVE  FALSE
  BY <1>0, <1>1 DEF SweepStep, Look, Recheck, AskDeletion, Deleted, NotDeleted, Finish, Exit, SweepTo
<1>2. ASSUME NEW h \in Handlers, HandlerStep(h)
      PROVE  FALSE
  BY <1>0, <1>2 DEF HandlerStep, Join, Create, Scan, Recover, MoveBack, MoveMember, Recovered, NotRecovered,
     Make, Register, PlaceOwner, Unmake, Unregister, Vanish, Forget, KeepPermanent, Hand, Cancel, Schedule
<1>3. ASSUME NEW t \in RoomTasks, LockedStep(t)
      PROVE  FALSE
  BY <1>0, <1>3 DEF LockedStep, Heir, Depart, Cancel, Schedule
<1>4. ASSUME NEW s \in Rooms, Wreck(s) \/ Visit(s) \/ Reschedule(s)
      PROVE  FALSE
  BY <1>0, <1>4 DEF Wreck, Visit, Reschedule, SweepTo
<1>5. ASSUME NEW h \in Handlers, NEW m \in Members,
             AskCreate(h, m) \/ AskKeep(h, m) \/ \E to \in Members : AskHand(h, m, to)
      PROVE  FALSE
  BY <1>0, <1>5 DEF AskCreate, AskKeep, AskHand, Command
<1>6. ASSUME NEW m \in Members, NEW to \in Rooms \union {Lobby, Away}, Move(m, to)
      PROVE  FALSE
  BY <1>0, <1>6 DEF Move
<1>7. ~Restart
  BY <1>0 DEF Restart
<1> QED BY <1>1, <1>2, <1>3, <1>4, <1>5, <1>6, <1>7 DEF RoomNext

LEMMA AskedJustified ==
  ASSUME RoomInv, NEW r \in Rooms, AskDeletion(r), AsksDeletion(r)
  PROVE  In(r) = {} /\ r \notin kept /\ (Empty(r) \/ r \in stray)
<1>1. sweep[r] = "prepare" /\ chan[r] = "up"
  BY DEF AskDeletion, AsksDeletion
<1>2. r \notin kept /\ (Empty(r) \/ r \in stray)
  BY <1>1, ThisRoomFits DEF RoomFits, Empty
<1>3. In(r) = {}
  BY <1>1, Typed DEF AskDeletion, AsksDeletion, SweepTo, RoomTypes
<1> QED BY <1>2, <1>3

\* A deletion on expiry is asked for only for a room that nobody is in and that
\* nobody kept, whose row still says it is empty, whoever stepped in between.
THEOREM ExpiryJustifiedHolds == RoomSpec => ExpiryJustified
<1>1. ASSUME RoomInv, [RoomNext]_roomVars
      PROVE  [\A r \in Rooms : AsksDeletion(r) =>
                In(r) = {} /\ r \notin kept /\ (Empty(r) \/ r \in stray)]_roomVars
  <2>1. CASE RoomNext
    BY <1>1, <2>1, OnlyAskDeletionAsks, AskedJustified
  <2>2. CASE UNCHANGED roomVars
    BY <2>2
  <2> QED BY <1>1, <2>1, <2>2
<1> QED BY <1>1, RoomInductive, PTL DEF RoomSpec, ExpiryJustified

===============================================================================
