---------------------------- MODULE ActionUndoProofs ----------------------------
(***************************************************************************)
(* Proofs about ActionUndo for any number of receipts and calls: the       *)
(* types, how often an inverse takes effect, that no receipt stays claimed *)
(* unseen, and that all answers about a receipt agree.                     *)
(***************************************************************************)
EXTENDS ActionUndo, FiniteSetTheorems, TLAPS

Rows == [Actions -> [status : Statuses, by : Undoers \union {None}]]

Calls == [step : Steps, of : Actions \union {None}, answer : Undoers \union {None}]

Busy == {"claimed", "acted", "releasing", "completing", "told"}

\* Whoever claimed a receipt is counted; a call that was given up ends.
CallsOK ==
    \A u \in Undoers :
        /\ undo[u].step \in Busy \/ u \in flying => undo[u].of \in Actions
        /\ Works(u) \/ u \in flying => u \in claimed[undo[u].of]
        /\ u \in flying => undo[u].step \in {"releasing", "over"}
        /\ undo[u].step \in {"acted", "completing"} => u \in ran[undo[u].of]

\* Each claim but one was taken back, and that one only while the row is not
\* offered.
ClaimsOK ==
    \A a \in Actions :
        /\ ran[a] \subseteq claimed[a]
        /\ Cardinality(claimed[a]) <=
              opened[a] + (IF row[a].status \in {"none", "succeeded"} THEN 0 ELSE 1)

\* A row names the undo that completed it, whose inverse took effect.
RowsOK ==
    \A a \in Actions :
        /\ row[a].status = "undone" => row[a].by \in ran[a]
        /\ row[a].status \in {"none", "succeeded", "undoing"} => row[a].by = None

\* The counted half of SameAnswer, in the terms of a call.
AnswersOK ==
    \A u \in Undoers :
        undo[u].step = "told" =>
            /\ undo[u].answer = row[undo[u].of].by
            /\ undo[u].answer \in ran[undo[u].of]
            /\ row[undo[u].of].status \in {"undone", "gone"}

Inner == CallsOK /\ ClaimsOK /\ RowsOK /\ AnswersOK

IInv == TypeOK /\ Inner /\ NotStuck

-------------------------------------------------------------------------------
(* Rows                                                                    *)

\* A row of a later state is the same, or deleted.
Aged(rows, older) ==
    /\ rows \in Rows
    /\ \A a \in Actions :
          /\ rows[a].by = older[a].by
          /\ rows[a].status = older[a].status \/ rows[a].status = "gone"
          /\ older[a].status = "none" => rows[a].status = "none"

\* What the deletion of expired rows and the trimming do.
LEMMA AgedFacts ==
  ASSUME NEW rows \in Rows, NEW oldest \in Actions
  PROVE  Aged(Expired(rows, oldest), rows) /\ Aged(Trimmed(rows), rows)
BY DEF Aged, Expired, Trimmed, Rows, Statuses, Kept

\* What ending a call changes.
LEMMA EndFacts ==
  ASSUME undo \in [Undoers -> Calls], NEW u \in Undoers,
         undo' = [undo EXCEPT ![u].step = "over"]
  PROVE  /\ undo' \in [Undoers -> Calls]
         /\ undo'[u].step = "over" /\ undo'[u].of = undo[u].of
         /\ \A v \in Undoers \ {u} : undo'[v] = undo[v]
BY DEF Calls, Steps

LEMMA InitFact ==
  ASSUME Init
  PROVE  IInv
<1>1. Cardinality({}) = 0
  BY FS_EmptySet
<1> QED
  BY <1>1, UndoAssumption
  DEF Init, IInv, TypeOK, Inner, CallsOK, ClaimsOK, RowsOK, AnswersOK, NotStuck, Works,
      Statuses, Steps, Busy, Actions

\* Adding one member adds one at most.
LEMMA OneMore ==
  ASSUME NEW S \in SUBSET Undoers, NEW u \in Undoers
  PROVE  /\ Cardinality(S) \in Nat
         /\ Cardinality(S \union {u}) \in Nat
         /\ Cardinality(S \union {u}) <= Cardinality(S) + 1
<1>1. IsFiniteSet(S)
  BY UndoAssumption, FS_Subset
<1>2. CASE u \in S
  <2>1. S \union {u} = S
    BY <1>2
  <2>2. Cardinality(S) \in Nat
    BY <1>1, FS_CardinalityType
  <2>3. Cardinality(S \union {u}) = Cardinality(S)
    BY <2>1
  <2> QED
    BY <2>2, <2>3
<1>3. CASE u \notin S
  <2>1. Cardinality(S \union {u}) = Cardinality(S) + 1
    BY <1>1, <1>3, FS_AddElement
  <2> QED
    BY <1>1, <2>1, FS_CardinalityType
<1> QED
  BY <1>2, <1>3

\* When only rows age, the counts stay.
LEMMA AgedCounts ==
  ASSUME IInv, Aged(row', row), UNCHANGED <<claimed, ran, opened>>
  PROVE  ClaimsOK'
<1> SUFFICES ASSUME NEW a \in Actions
             PROVE  Cardinality(claimed[a]) <=
                      opened[a] + (IF row'[a].status \in {"none", "succeeded"} THEN 0 ELSE 1)
  BY DEF IInv, Inner, ClaimsOK
<1>1. Cardinality(claimed[a]) \in Nat /\ opened[a] \in Nat
  BY UndoAssumption, FS_Subset, FS_CardinalityType DEF IInv, TypeOK
<1> QED
  BY <1>1 DEF IInv, Inner, ClaimsOK, Aged

\* When only rows age, the invariant stays.
LEMMA AgedStep ==
  ASSUME IInv, Aged(row', row),
         UNCHANGED <<flying, restarts, diagnoses, claimed, ran, opened, stranded>>,
         NEW u \in Undoers,
         \/ UNCHANGED undo
         \/ /\ undo[u].step \in {"idle", "claiming", "orphan"}
            /\ \E s \in {"claiming", "orphan", "over"}, a \in Actions \union {None} :
                  undo' = [undo EXCEPT ![u] = [step |-> s, of |-> a, answer |-> None]]
         \/ /\ undo[u].step \in {"claiming", "orphan"}
            /\ \E s \in {"orphan", "over"} : undo' = [undo EXCEPT ![u].step = s]
  PROVE  IInv'
<1> USE DEF IInv, TypeOK
<1>1. \A v \in Undoers :
        undo'[v].step \in Busy \/ undo[v].step \in Busy => undo'[v] = undo[v]
  BY DEF Busy, Steps
<1>2. \A v \in Undoers : v \in flying => undo'[v].step \in {"releasing", "over"} /\ undo'[v] = undo[v]
  BY DEF Inner, CallsOK, Steps
<1>3. undo' \in [Undoers -> Calls]
  BY DEF Calls, Steps
<1>4. TypeOK'
  BY <1>3 DEF Calls, Aged, Rows
<1>5. CallsOK'
  BY <1>1, <1>2 DEF Inner, CallsOK, Busy, Works
<1>6. ClaimsOK'
  BY AgedCounts
<1>7. RowsOK'
  BY DEF Inner, RowsOK, Aged
<1>8. AnswersOK'
  BY <1>1 DEF Inner, CallsOK, AnswersOK, Aged, Busy
<1>9. NotStuck'
  BY <1>1 DEF NotStuck, Works, Aged, Busy
<1> QED
  BY <1>4, <1>5, <1>6, <1>7, <1>8, <1>9 DEF Inner

-------------------------------------------------------------------------------
(* The steps of a call                                                     *)

LEMMA RecordStep ==
  ASSUME IInv, NEW a \in Actions, Record(a)
  PROVE  IInv'
<1>1. PICK oldest \in Actions :
        row' = Trimmed([Expired(row, oldest) EXCEPT ![a].status = "succeeded"])
  BY DEF Record
<1> DEFINE old == Expired(row, oldest)
           new == [old EXCEPT ![a].status = "succeeded"]
<1>2. old \in Rows /\ Aged(old, row)
  BY AgedFacts DEF IInv, TypeOK, Rows, Aged
<1>3. new \in Rows
  BY <1>2 DEF Rows, Statuses
<1>4. Aged(row', new)
  BY <1>1, <1>3, AgedFacts
<1> HIDE DEF old, new
<1>5. /\ row' \in Rows
      /\ \A b \in Actions : row'[b].by = row[b].by
      /\ \A b \in Actions \ {a} : row'[b].status = row[b].status \/ row'[b].status = "gone"
      /\ row'[a].status \in {"succeeded", "gone"}
      /\ row[a].status = "none"
      /\ UNCHANGED <<undo, flying, restarts, diagnoses, claimed, ran, opened, stranded>>
      /\ \A b \in Actions \ {a} : row[b].status = "none" => row'[b].status = "none"
  BY <1>2, <1>3, <1>4 DEF Aged, Record, history, Rows, new
<1>6. TypeOK'
  BY <1>5 DEF IInv, TypeOK, Rows
<1>7. ClaimsOK'
  <2> SUFFICES ASSUME NEW b \in Actions
               PROVE  Cardinality(claimed[b]) <=
                        opened[b] + (IF row'[b].status \in {"none", "succeeded"} THEN 0 ELSE 1)
    BY <1>5 DEF IInv, Inner, ClaimsOK
  <2>1. Cardinality(claimed[b]) \in Nat /\ opened[b] \in Nat
    BY UndoAssumption, FS_Subset, FS_CardinalityType DEF IInv, TypeOK
  <2> QED
    BY <1>5, <2>1 DEF IInv, Inner, ClaimsOK
<1>8. CallsOK' /\ RowsOK' /\ AnswersOK'
  BY <1>5 DEF IInv, Inner, CallsOK, RowsOK, AnswersOK, Busy, Works
<1>9. NotStuck'
  BY <1>5 DEF IInv, NotStuck, Works
<1> QED
  BY <1>6, <1>7, <1>8, <1>9 DEF IInv, Inner

\* A transaction that claims nothing: the rows age, the call ends or is told.
LEMMA NotClaimedStep ==
  ASSUME IInv, NEW u \in Undoers, undo[u].step \in {"claiming", "orphan"},
         NEW rows, Aged(rows, row), NotClaimed(u, rows)
  PROVE  IInv'
BY AgedStep DEF NotClaimed, history

LEMMA AlreadyUndoneStep ==
  ASSUME IInv, NEW u \in Undoers, undo[u].step \in {"claiming", "orphan"},
         NEW rows, Aged(rows, row), NEW a \in Actions, AlreadyUndone(u, rows, a)
  PROVE  IInv'
<1>1. CASE undo[u].step = "orphan"
  <2>1. undo' = [undo EXCEPT ![u].step = "over"] /\ row' = rows
    BY <1>1 DEF AlreadyUndone, IInv, TypeOK
  <2> QED
    BY <2>1, AgedStep DEF AlreadyUndone, history
<1>2. CASE undo[u].step = "claiming"
  <2>1. /\ undo' = [undo EXCEPT ![u] = [step |-> "told", of |-> a, answer |-> rows[a].by]]
        /\ row' = rows
        /\ row[a].status = "undone" /\ rows[a].by = row[a].by
        /\ UNCHANGED <<flying, restarts, diagnoses, claimed, ran, opened, stranded>>
        /\ row' \in Rows
    BY <1>2 DEF AlreadyUndone, IInv, TypeOK, Aged, history, Rows, Statuses
  <2>2. row[a].by \in ran[a] /\ ran[a] \subseteq claimed[a]
    BY <2>1 DEF IInv, Inner, RowsOK, ClaimsOK
  <2>3. TypeOK'
    BY <2>1, <2>2 DEF IInv, TypeOK, Rows, Steps
  <2>4. CallsOK'
    BY <2>1 DEF IInv, TypeOK, Inner, CallsOK, Busy, Works
  <2>5. ClaimsOK' /\ RowsOK'
    BY <2>1, AgedCounts DEF IInv, Inner, RowsOK, Aged
  <2>6. AnswersOK'
    BY <2>1, <2>2 DEF IInv, TypeOK, Inner, CallsOK, AnswersOK, Aged, Busy
  <2>7. NotStuck'
    BY <2>1 DEF IInv, TypeOK, NotStuck, Works, Aged
  <2> QED
    BY <2>3, <2>4, <2>5, <2>6, <2>7 DEF IInv, Inner
<1> QED
  BY <1>1, <1>2

LEMMA TakeClaimStep ==
  ASSUME IInv, NEW u \in Undoers, undo[u].step \in {"claiming", "orphan"},
         NEW rows, Aged(rows, row), NEW a \in Actions, TakeClaim(u, rows, a)
  PROVE  IInv'
<1>1. /\ row' = [rows EXCEPT ![a].status = "undoing"]
      /\ rows \in Rows /\ row[a].status = "succeeded" /\ rows[a].by = row[a].by
      /\ claimed' = [claimed EXCEPT ![a] = @ \union {u}]
      /\ UNCHANGED <<flying, restarts, diagnoses, ran, opened>>
  BY DEF TakeClaim, Free, Aged, Rows
<1>2. TypeOK'
  <2>1. row' \in Rows
    BY <1>1 DEF Rows, Statuses
  <2>2. undo' \in [Undoers -> Calls]
    <3>1. undo[u] \in Calls
      BY DEF Calls, IInv, TypeOK
    <3>2. CASE undo[u].step = "claiming"
      <4>1. undo' = [undo EXCEPT ![u] = [undo[u] EXCEPT !.step = "claimed", !.of = a]]
        BY <3>2 DEF TakeClaim, IInv, TypeOK
      <4>2. [undo[u] EXCEPT !.step = "claimed", !.of = a]
              \in Calls
        BY <3>1 DEF Calls, Steps
      <4> QED
        BY <4>1, <4>2 DEF Calls, IInv, TypeOK
    <3>3. CASE undo[u].step = "orphan"
      <4>1. undo' = [undo EXCEPT ![u] = [undo[u] EXCEPT !.step = "over"]]
        BY <3>3 DEF TakeClaim, IInv, TypeOK
      <4>2. [undo[u] EXCEPT !.step = "over"]
              \in Calls
        BY <3>1 DEF Calls, Steps
      <4> QED
        BY <4>1, <4>2 DEF Calls, IInv, TypeOK
    <3> QED
      BY <3>2, <3>3
  <2>3. claimed' \in [Actions -> SUBSET Undoers] /\ stranded' \subseteq Actions
    BY <1>1 DEF TakeClaim, IInv, TypeOK
  <2> QED
    BY <1>1, <2>1, <2>2, <2>3 DEF Calls, IInv, TypeOK, Rows
<1>3. ClaimsOK'
  <2> SUFFICES ASSUME NEW b \in Actions
               PROVE  /\ ran[b] \subseteq claimed'[b]
                      /\ Cardinality(claimed'[b]) <=
                           opened[b] + (IF row'[b].status \in {"none", "succeeded"} THEN 0 ELSE 1)
    BY <1>1 DEF ClaimsOK
  <2>1. Cardinality(claimed[b]) \in Nat /\ opened[b] \in Nat
    BY UndoAssumption, FS_Subset, FS_CardinalityType DEF IInv, TypeOK
  <2>2. CASE b = a
    <3>1. claimed'[a] = claimed[a] \union {u} /\ row'[a].status = "undoing"
      BY <1>1 DEF IInv, TypeOK, Rows
    <3>2. Cardinality(claimed'[a]) <= Cardinality(claimed[a]) + 1
      BY <3>1, OneMore DEF IInv, TypeOK
    <3>3. Cardinality(claimed'[a]) \in Nat
      BY <3>1, OneMore DEF IInv, TypeOK
    <3> QED
      BY <1>1, <2>1, <2>2, <3>1, <3>2, <3>3 DEF IInv, Inner, ClaimsOK
  <2>3. CASE b # a
    <3>1. claimed'[b] = claimed[b] /\ row'[b] = rows[b]
      BY <1>1, <2>3 DEF IInv, TypeOK, Rows
    <3> QED
      BY <2>1, <3>1 DEF IInv, Inner, ClaimsOK, Aged
  <2> QED
    BY <2>2, <2>3
<1>4. /\ \A v \in Undoers \ {u} : undo'[v] = undo[v]
      /\ undo'[u].step \in {"claimed", "over"}
      /\ undo'[u].step = "claimed" => undo'[u].of = a
      /\ u \notin flying
      /\ undo[u].step = "claiming" => undo'[u].step = "claimed"
  BY DEF TakeClaim, IInv, TypeOK, Inner, CallsOK
<1>5. CallsOK'
  BY <1>1, <1>4 DEF IInv, TypeOK, Inner, CallsOK, Busy, Works
<1>6. RowsOK'
  BY <1>1 DEF IInv, Inner, RowsOK, Aged, Rows
<1>8. AnswersOK'
  <2> SUFFICES ASSUME NEW v \in Undoers, undo'[v].step = "told"
               PROVE  /\ undo'[v].answer = row'[undo'[v].of].by
                      /\ undo'[v].answer \in ran[undo'[v].of]
                      /\ row'[undo'[v].of].status \in {"undone", "gone"}
    BY <1>1 DEF AnswersOK
  <2>1. undo'[v] = undo[v]
    BY <1>4
  <2>2. /\ undo[v].of \in Actions
        /\ undo[v].answer = row[undo[v].of].by
        /\ undo[v].answer \in ran[undo[v].of]
        /\ row[undo[v].of].status \in {"undone", "gone"}
    BY <2>1 DEF IInv, Inner, CallsOK, AnswersOK, Busy
  <2>3. undo[v].of # a
    BY <1>1, <2>2
  <2>4. row'[undo[v].of] = rows[undo[v].of]
    BY <1>1, <2>2, <2>3 DEF Rows
  <2> QED
    BY <2>1, <2>2, <2>4 DEF Aged
<1>7. NotStuck'
  <2> SUFFICES ASSUME NEW b \in Actions, row'[b].status = "undoing"
               PROVE  \/ b \in stranded'
                      \/ \E v \in Undoers : Works(v)' /\ undo'[v].of = b
    BY DEF NotStuck
  <2>1. CASE b = a
    BY <1>4, <2>1 DEF TakeClaim, Works, IInv, TypeOK
  <2>2. CASE b # a
    <3>1. row[b].status = "undoing" /\ stranded \subseteq stranded'
      BY <1>1, <2>2 DEF TakeClaim, Aged, Rows
    <3> QED
      BY <1>4, <3>1 DEF IInv, NotStuck, Works
  <2> QED
    BY <2>1, <2>2
<1> QED
  BY <1>2, <1>3, <1>5, <1>6, <1>7, <1>8 DEF IInv, Inner

LEMMA ClaimStep ==
  ASSUME IInv, NEW u \in Undoers, Claim(u)
  PROVE  IInv'
<1>1. PICK oldest \in Actions :
        LET rows == Expired(row, oldest)
            a == IF undo[u].of = None THEN Chosen(rows) ELSE undo[u].of
        IN  IF Kept(rows) = {} \/ a \notin Kept(rows)
            THEN NotClaimed(u, rows)
            ELSE \/ AlreadyUndone(u, rows, a)
                 \/ rows[a].status = "undoing" /\ NotClaimed(u, rows)
                 \/ TakeClaim(u, rows, a)
  BY DEF Claim
<1> DEFINE rows == Expired(row, oldest)
           a == IF undo[u].of = None THEN Chosen(rows) ELSE undo[u].of
<1>2. Aged(rows, row)
  BY AgedFacts DEF IInv, TypeOK, Rows
<1>3. \/ NotClaimed(u, rows)
      \/ a \in Actions /\ AlreadyUndone(u, rows, a)
      \/ a \in Actions /\ TakeClaim(u, rows, a)
  BY <1>1 DEF Kept
<1>4. undo[u].step \in {"claiming", "orphan"}
  BY DEF Claim
<1> HIDE DEF rows, a
<1> QED
  BY <1>2, <1>3, <1>4, NotClaimedStep, AlreadyUndoneStep, TakeClaimStep

\* Before the claim, and a claim that fails.
LEMMA AskStep ==
  ASSUME IInv, NEW u \in Undoers,
         \/ \E a \in Actions \union {None} : Ask(u, a)
         \/ CutClaim(u)
         \/ ClaimFails(u)
  PROVE  IInv'
<1>1. Aged(row, row)
  BY DEF Aged, IInv, TypeOK, Rows
<1>2. CASE \E a \in Actions \union {None} : Ask(u, a)
  BY <1>1, <1>2, AgedStep DEF Ask, history
<1>3. CASE CutClaim(u)
  BY <1>1, <1>3, AgedStep DEF CutClaim, history
<1>4. CASE ClaimFails(u)
  BY <1>1, <1>4, NotClaimedStep DEF ClaimFails
<1> QED
  BY <1>2, <1>3, <1>4

\* The inverse: it takes effect, returns, or is given up.
LEMMA InverseStep ==
  ASSUME IInv, NEW u \in Undoers, Act(u) \/ Land(u) \/ Return(u) \/ Break(u)
  PROVE  IInv'
<1>1. /\ UNCHANGED <<row, restarts, diagnoses, claimed, opened, stranded>>
      /\ undo[u].of \in Actions /\ u \in claimed[undo[u].of]
      /\ ran' \in {ran, [ran EXCEPT ![undo[u].of] = @ \union {u}]}
      /\ flying' \in {flying, flying \ {u}, flying \union {u}}
      /\ flying' = flying \union {u} /\ u \notin flying => undo'[u].step = "releasing"
      /\ \/ UNCHANGED undo
         \/ /\ Works(u)
            /\ \E s \in {"acted", "completing", "releasing"} :
                  undo' = [undo EXCEPT ![u].step = s]
  BY DEF Act, Land, Return, Break, IInv, TypeOK, Inner, CallsOK, Busy, Works, history
<1>2. TypeOK'
  BY <1>1 DEF IInv, TypeOK, Steps
<1>3. \A v \in Undoers :
        /\ undo'[v].of = undo[v].of /\ undo'[v].answer = undo[v].answer
        /\ Works(v)' <=> Works(v)
        /\ undo'[v].step = "told" <=> undo[v].step = "told"
        /\ undo'[v].step \in Busy <=> undo[v].step \in Busy
        /\ v # u => undo'[v] = undo[v]
  BY <1>1 DEF Works, Busy, IInv, TypeOK
<1>4. \A b \in Actions : ran[b] \subseteq ran'[b] /\ ran'[b] \subseteq claimed[b]
  BY <1>1 DEF IInv, TypeOK, Inner, ClaimsOK
<1>5. undo'[u].step \in {"acted", "completing"} => u \in ran'[undo[u].of]
  <2>1. CASE Act(u)
    BY <1>1, <2>1 DEF Act, IInv, TypeOK
  <2>2. CASE Land(u)
    BY <2>2 DEF Land, IInv, TypeOK, Inner, CallsOK
  <2>3. CASE Return(u)
    BY <2>3 DEF Return, IInv, TypeOK, Inner, CallsOK, history
  <2>4. CASE Break(u)
    BY <2>4 DEF Break, IInv, TypeOK
  <2> QED
    BY <2>1, <2>2, <2>3, <2>4
<1>6. u \in flying' => undo'[u].step \in {"releasing", "over"}
  BY DEF Act, Land, Return, Break, IInv, TypeOK, Inner, CallsOK, history
<1>7. CallsOK'
  <2> SUFFICES ASSUME NEW v \in Undoers
               PROVE  /\ undo'[v].step \in Busy \/ v \in flying' => undo'[v].of \in Actions
                      /\ Works(v)' \/ v \in flying' => v \in claimed[undo'[v].of]
                      /\ v \in flying' => undo'[v].step \in {"releasing", "over"}
                      /\ undo'[v].step \in {"acted", "completing"} => v \in ran'[undo'[v].of]
    BY <1>1 DEF CallsOK
  <2>1. CASE v = u
    BY <1>1, <1>3, <1>5, <1>6, <2>1
  <2>2. CASE v # u
    <3>1. /\ undo'[v] = undo[v]
          /\ v \in flying' <=> v \in flying
      BY <1>1, <1>3, <2>2
    <3>2. undo[v].step \in {"acted", "completing"} => undo[v].of \in Actions
      BY DEF IInv, Inner, CallsOK, Busy
    <3> QED
      BY <1>3, <1>4, <3>1, <3>2 DEF IInv, Inner, CallsOK
  <2> QED
    BY <2>1, <2>2
<1>8. ClaimsOK' /\ RowsOK'
  BY <1>1, <1>4 DEF IInv, Inner, ClaimsOK, RowsOK
<1>9. AnswersOK'
  BY <1>1, <1>3, <1>4 DEF IInv, Inner, CallsOK, AnswersOK, Busy
<1>10. NotStuck'
  BY <1>1, <1>3 DEF IInv, NotStuck
<1> QED
  BY <1>2, <1>7, <1>8, <1>9, <1>10 DEF IInv, Inner

\* The last transaction of a call.
LEMMA SettleStep ==
  ASSUME IInv, NEW u \in Undoers, Release(u) \/ Complete(u) \/ SettleFails(u)
  PROVE  IInv'
<1> DEFINE a == undo[u].of
<1>1. /\ undo[u].step \in {"releasing", "completing"}
      /\ a \in Actions
      /\ UNCHANGED <<flying, restarts, diagnoses, claimed, ran>>
  BY DEF Release, Complete, SettleFails, IInv, Inner, CallsOK, Busy
<1>2. /\ \A v \in Undoers \ {u} : undo'[v] = undo[v]
      /\ undo'[u].step \in {"over", "told"}
      /\ undo'[u].of = a
      /\ undo' \in [Undoers -> Calls]
  <2>0. undo \in [Undoers -> Calls]
    BY DEF Calls, IInv, TypeOK
  <2>1. CASE undo' = [undo EXCEPT ![u].step = "over"]
    BY <2>0, <2>1, EndFacts
  <2>2. CASE undo' = [undo EXCEPT ![u] = [step |-> "told", of |-> a, answer |-> u]]
    <3>1. [step |-> "told", of |-> a, answer |-> u] \in Calls
      BY <1>1 DEF Calls, Steps
    <3> QED
      BY <2>0, <2>2, <3>1
  <2> QED
    BY <2>1, <2>2 DEF Release, SettleFails, Complete
\* What becomes of the row: taken back, completed, or as it was.
<1>3. \/ /\ row[a].status = "undoing" /\ row' = [row EXCEPT ![a].status = "succeeded"]
         /\ opened' = [opened EXCEPT ![a] = @ + 1] /\ stranded' = stranded \ {a}
         /\ undo'[u].step = "over"
      \/ /\ row[a].status = "undoing" /\ row' = [row EXCEPT ![a] = [status |-> "undone", by |-> u]]
         /\ opened' = opened /\ stranded' = stranded \ {a}
         /\ undo'[u].step = "told" => undo'[u].answer = u
         /\ u \in ran[a]
      \/ /\ row' = row /\ opened' = opened /\ undo'[u].step = "over"
         /\ row[a].status = "undoing" => a \in stranded'
         /\ stranded \subseteq stranded' /\ stranded' \subseteq Actions
  <2>1. CASE Release(u)
    BY <1>1, <2>1 DEF Release, IInv, TypeOK
  <2>2. CASE Complete(u)
    <3>1. CASE row[a].status = "undoing"
      <4>1. u \in ran[a]
        BY <2>2 DEF Complete, IInv, Inner, CallsOK
      <4>2. /\ row' = [row EXCEPT ![a] = [status |-> "undone", by |-> u]]
            /\ opened' = opened /\ stranded' = stranded \ {a}
            /\ undo'[u].step = "told" => undo'[u].answer = u
        BY <2>2, <3>1 DEF Complete, IInv, TypeOK
      <4> QED
        BY <3>1, <4>1, <4>2
    <3>2. CASE row[a].status # "undoing"
      BY <1>1, <2>2, <3>2 DEF Complete, IInv, TypeOK
    <3> QED
      BY <3>1, <3>2
  <2>3. CASE SettleFails(u)
    BY <1>1, <2>3 DEF SettleFails, IInv, TypeOK
  <2> QED
    BY <2>1, <2>2, <2>3
<1> HIDE DEF a
<1>4. TypeOK'
  <2>1. row' \in Rows
    BY <1>1, <1>3 DEF IInv, TypeOK, Rows, Statuses
  <2>2. opened' \in [Actions -> Nat] /\ stranded' \subseteq Actions
    BY <1>1, <1>3 DEF IInv, TypeOK
  <2> QED
    BY <1>1, <1>2, <2>1, <2>2 DEF IInv, TypeOK, Rows, Calls
<1>5. CallsOK'
  <2>1. u \in flying => undo'[u].step = "over"
    BY <1>1, <1>3 DEF Complete, Release, SettleFails, IInv, TypeOK, Inner, CallsOK, a
  <2> QED
    BY <1>1, <1>2, <2>1 DEF IInv, Inner, CallsOK, Busy, Works, a
<1>6. ClaimsOK'
  <2> SUFFICES ASSUME NEW b \in Actions
               PROVE  Cardinality(claimed[b]) <=
                        opened'[b] + (IF row'[b].status \in {"none", "succeeded"} THEN 0 ELSE 1)
    BY <1>1 DEF IInv, Inner, ClaimsOK
  <2>1. Cardinality(claimed[b]) \in Nat /\ opened[b] \in Nat
    BY UndoAssumption, FS_Subset, FS_CardinalityType DEF IInv, TypeOK
  <2> QED
    BY <1>1, <1>3, <2>1 DEF IInv, TypeOK, Inner, ClaimsOK
<1>7. RowsOK'
  BY <1>1, <1>3 DEF IInv, TypeOK, Inner, RowsOK
<1>8. AnswersOK'
  <2> SUFFICES ASSUME NEW v \in Undoers, undo'[v].step = "told"
               PROVE  /\ undo'[v].answer = row'[undo'[v].of].by
                      /\ undo'[v].answer \in ran[undo'[v].of]
                      /\ row'[undo'[v].of].status \in {"undone", "gone"}
    BY <1>1 DEF AnswersOK
  <2>1. CASE v = u
    BY <1>1, <1>2, <1>3, <2>1 DEF IInv, TypeOK
  <2>2. CASE v # u
    <3>1. /\ undo'[v] = undo[v] /\ undo[v].of \in Actions
          /\ undo[v].answer = row[undo[v].of].by
          /\ undo[v].answer \in ran[undo[v].of]
          /\ row[undo[v].of].status \in {"undone", "gone"}
      BY <1>2, <2>2 DEF IInv, Inner, CallsOK, AnswersOK, Busy
    <3>2. row'[undo[v].of] = row[undo[v].of]
      BY <1>1, <1>3, <3>1 DEF IInv, TypeOK
    <3> QED
      BY <3>1, <3>2
  <2> QED
    BY <2>1, <2>2
<1>9. NotStuck'
  <2> SUFFICES ASSUME NEW b \in Actions, row'[b].status = "undoing"
               PROVE  \/ b \in stranded'
                      \/ \E v \in Undoers : Works(v)' /\ undo'[v].of = b
    BY DEF NotStuck
  <2>1. row[b].status = "undoing" /\ (b \in stranded => b \in stranded')
    BY <1>1, <1>3 DEF IInv, TypeOK
  <2>2. CASE b = a
    BY <1>1, <1>3, <2>1, <2>2 DEF IInv, TypeOK
  <2>3. CASE b # a
    BY <1>2, <2>1, <2>3 DEF IInv, NotStuck, Works, a
  <2> QED
    BY <2>2, <2>3
<1> QED
  BY <1>4, <1>5, <1>6, <1>7, <1>8, <1>9 DEF IInv, Inner

-------------------------------------------------------------------------------
(* The process                                                             *)

LEMMA ReopenStep ==
  ASSUME IInv, Restart \/ Diagnose
  PROVE  IInv'
<1>1. Reopen /\ UNCHANGED <<claimed, ran>> /\ stranded' = {}
  BY DEF Restart, Diagnose, Reopen
<1> PICK oldest \in Actions : row' = Opened(Expired(row, oldest))
  BY <1>1 DEF Reopen
<1> DEFINE old == Expired(row, oldest)
<1>a. Aged(old, row)
  BY AgedFacts DEF IInv, TypeOK, Rows
<1>b. /\ row' \in Rows
      /\ \A b \in Actions :
            /\ row'[b].by = old[b].by
            /\ old[b].status = "undoing" => row'[b].status = "succeeded"
            /\ old[b].status # "undoing" => row'[b] = old[b]
  BY <1>a DEF Opened, Aged, Rows, Statuses
<1> HIDE DEF old
<1>2. \A b \in Actions :
        /\ row'[b].by = row[b].by
        /\ row[b].status = "undoing" =>
              \/ row'[b].status = "succeeded" /\ opened'[b] = opened[b] + 1
              \/ row'[b].status = "gone" /\ opened'[b] = opened[b]
        /\ row[b].status # "undoing" =>
              /\ row'[b].status = row[b].status \/ row'[b].status = "gone"
              /\ row[b].status = "none" => row'[b].status = "none"
              /\ opened'[b] = opened[b]
  BY <1>1, <1>a, <1>b DEF Aged, Reopen, IInv, TypeOK
<1>3. /\ row' \in Rows /\ opened' \in [Actions -> Nat]
      /\ restarts' \in 0 .. MaxRestarts /\ diagnoses' \in 0 .. MaxDiagnoses
  BY <1>b, UndoAssumption DEF Restart, Diagnose, Reopen, IInv, TypeOK
<1>4. \A v \in Undoers :
        /\ undo'[v].of = undo[v].of /\ undo'[v].answer = undo[v].answer
        /\ undo'[v].step = undo[v].step \/ undo'[v].step = "over"
        /\ v \in flying' => v \in flying \/ (Works(v) /\ undo'[v].step = "over")
        /\ undo'[v].step = "over" \/ undo'[v] = undo[v]
  BY DEF Restart, Diagnose, IInv, TypeOK, Works
<1>5. /\ undo' \in [Undoers -> Calls]
      /\ flying' \subseteq Undoers
  <2>1. CASE Restart
    <3>1. \A v \in Undoers : undo[v] \in Calls /\ [undo[v] EXCEPT !.step = "over"] \in Calls
      BY DEF IInv, TypeOK, Calls, Steps
    <3> QED
      BY <2>1, <3>1 DEF Restart, IInv, TypeOK
  <2>2. CASE Diagnose
    BY <2>2 DEF Diagnose, IInv, TypeOK, Calls
  <2> QED
    BY <2>1, <2>2
<1>6. TypeOK'
  BY <1>1, <1>3, <1>5 DEF IInv, TypeOK, Calls, Rows
<1>7. CallsOK'
  BY <1>1, <1>4 DEF IInv, Inner, CallsOK, Busy, Works
<1>8. ClaimsOK'
  <2> SUFFICES ASSUME NEW b \in Actions
               PROVE  Cardinality(claimed[b]) <=
                        opened'[b] + (IF row'[b].status \in {"none", "succeeded"} THEN 0 ELSE 1)
    BY <1>1 DEF IInv, Inner, ClaimsOK
  <2>1. Cardinality(claimed[b]) \in Nat /\ opened[b] \in Nat
    BY UndoAssumption, FS_Subset, FS_CardinalityType DEF IInv, TypeOK
  <2> QED
    BY <1>2, <2>1 DEF IInv, Inner, ClaimsOK
<1>9. RowsOK'
  BY <1>1, <1>2 DEF IInv, Inner, RowsOK
<1>10. AnswersOK'
  BY <1>1, <1>2, <1>4 DEF IInv, Inner, CallsOK, AnswersOK, Busy
<1>11. NotStuck'
  <2>1. \A b \in Actions : row[b].status # "undoing" => row'[b].status # "undoing"
    BY <1>2
  <2> QED
    BY <1>2, <2>1 DEF NotStuck
<1> QED
  BY <1>6, <1>7, <1>8, <1>9, <1>10, <1>11 DEF IInv, Inner

-------------------------------------------------------------------------------
(* Theorems                                                                *)

LEMMA StepFact ==
  ASSUME IInv, [Next]_vars
  PROVE  IInv'
<1>1. CASE UNCHANGED vars
  BY <1>1 DEF vars, IInv, TypeOK, Inner, CallsOK, ClaimsOK, RowsOK, AnswersOK, NotStuck,
              Works
<1>2. CASE Next
  BY <1>2, RecordStep, AskStep, ClaimStep, InverseStep, SettleStep, ReopenStep
  DEF Next, Step
<1> QED
  BY <1>1, <1>2

THEOREM Invariance == Spec => []IInv
BY InitFact, StepFact, PTL DEF Spec

\* The state variables keep their types (the rows, the calls of undo() and
\* the histories).
THEOREM TypeCorrect == Spec => []TypeOK
<1>1. IInv => TypeOK
  BY DEF IInv
<1> QED
  BY <1>1, Invariance, PTL

\* An inverse takes effect at most once and once more for each time a claim
\* was taken back, whatever is cancelled, fails or restarts (undo()).
THEOREM AtMostOnceHolds == Spec => []AtMostOnce
<1>1. ASSUME IInv
      PROVE  AtMostOnce
  <2> SUFFICES ASSUME NEW a \in Actions
               PROVE  Cardinality(ran[a]) <= 1 + opened[a]
    BY DEF AtMostOnce
  <2>1. IsFiniteSet(claimed[a])
    BY <1>1, UndoAssumption, FS_Subset DEF IInv, TypeOK
  <2>2. /\ Cardinality(ran[a]) <= Cardinality(claimed[a])
        /\ Cardinality(ran[a]) \in Nat /\ Cardinality(claimed[a]) \in Nat
    BY <1>1, <2>1, FS_Subset, FS_CardinalityType DEF IInv, Inner, ClaimsOK
  <2> QED
    BY <1>1, <2>2 DEF IInv, TypeOK, Inner, ClaimsOK
<1> QED
  BY <1>1, Invariance, PTL

\* A claimed receipt has a call that will settle it, unless its claim was
\* cancelled under way or its last transaction failed (undo(), 2250-2336).
THEOREM NotStuckHolds == Spec => []NotStuck
<1>1. IInv => NotStuck
  BY DEF IInv
<1> QED
  BY <1>1, Invariance, PTL

\* All that are told of a receipt's undo are told of the same one, whose
\* inverse took effect (claim_latest_or_id and complete).
THEOREM SameAnswerHolds == Spec => []SameAnswer
<1>1. IInv => SameAnswer
  BY DEF IInv, Inner, AnswersOK, SameAnswer
<1> QED
  BY <1>1, Invariance, PTL

\* Both together.
THEOREM SettledOnceHolds == Spec => []SettledOnce
BY NotStuckHolds, SameAnswerHolds, PTL DEF SettledOnce

=================================================================================
