------------------------------ MODULE ActionUndo ------------------------------
(***************************************************************************)
(* Action receipts and Undo (agent/actions.py).  A receipt is a row; an    *)
(* undo claims it in one transaction, runs the recorded inverse through    *)
(* the capability registry, and completes or releases the row in another.  *)
(* Every transaction runs in a thread that goes on when its caller is      *)
(* cancelled, and the claim (2257) and the completion (2315) lie outside   *)
(* the try block that releases.                                            *)
(*                                                                         *)
(* Only the receipts of undoable actions of one actor are modelled, numbe- *)
(* red in the order of their creation.                                     *)
(***************************************************************************)
EXTENDS Integers, FiniteSets

CONSTANTS
    Undoers,       \* calls of action.undo
    None,
    NumActions,    \* actions that are recorded, 1 .. NumActions
    Host,          \* those that are the host's posting of an answer
    Turn,          \* the request in which each was performed
    MaxRecords,    \* receipts kept per actor
    MaxRestarts,   \* bound: restarts of the process
    MaxDiagnoses   \* bound: openings of the database by the diagnosis

Actions == 1 .. NumActions

ASSUME UndoAssumption ==
    /\ IsFiniteSet(Undoers)
    /\ None \notin Undoers /\ None \notin Actions
    /\ NumActions \in Nat
    /\ Host \subseteq Actions
    /\ MaxRecords \in Nat /\ MaxRestarts \in Nat /\ MaxDiagnoses \in Nat

VARIABLES
    row,           \* status of each receipt, and the undo that completed it
    undo,          \* what each call does, for which receipt, what it answered
    flying,        \* calls given up whose inverse may still take effect
    restarts, diagnoses,
    claimed,       \* history: the calls that claimed each receipt
    ran,           \* history: the calls whose inverse took effect
    opened,        \* history: how often a claim was taken back
    stranded       \* history: claimed receipts nobody will settle

vars == <<row, undo, flying, restarts, diagnoses, claimed, ran, opened, stranded>>
history == <<claimed, ran, opened, stranded>>

Statuses == {"none", "succeeded", "undoing", "undone", "gone"}
Steps == {"idle", "claiming", "orphan", "claimed", "acted", "releasing",
          "completing", "told", "over"}

TypeOK ==
    /\ row \in [Actions -> [status : Statuses, by : Undoers \union {None}]]
    /\ undo \in [Undoers -> [step : Steps, of : Actions \union {None},
                             answer : Undoers \union {None}]]
    /\ flying \subseteq Undoers
    /\ restarts \in 0 .. MaxRestarts /\ diagnoses \in 0 .. MaxDiagnoses
    /\ claimed \in [Actions -> SUBSET Undoers]
    /\ ran \in [Actions -> SUBSET Undoers]
    /\ opened \in [Actions -> Nat]
    /\ stranded \subseteq Actions

Init ==
    /\ row = [a \in Actions |-> [status |-> "none", by |-> None]]
    /\ undo = [u \in Undoers |-> [step |-> "idle", of |-> None, answer |-> None]]
    /\ flying = {}
    /\ restarts = 0 /\ diagnoses = 0
    /\ claimed = [a \in Actions |-> {}]
    /\ ran = [a \in Actions |-> {}]
    /\ opened = [a \in Actions |-> 0]
    /\ stranded = {}

-------------------------------------------------------------------------------
(* The rows                                                                *)

Kept(rows) == {a \in Actions : rows[a].status \notin {"none", "gone"}}

\* Rows expire in the order of their creation; the claim and the insertion
\* delete the expired ones first.
Expired(rows, oldest) ==
    [a \in Actions |-> IF a \in Kept(rows) /\ a < oldest
                       THEN [rows[a] EXCEPT !.status = "gone"] ELSE rows[a]]

\* The receipts beyond the newest MaxRecords go, whatever their status. (Those
\* of other actions, which count as well, make more of them go: that is a
\* later "oldest".)
Trimmed(rows) ==
    [a \in Actions |->
        IF a \in Kept(rows) /\ Cardinality({b \in Kept(rows) : b > a}) >= MaxRecords
        THEN [rows[a] EXCEPT !.status = "gone"] ELSE rows[a]]

Record(a) ==
    /\ row[a].status = "none"
    /\ \A b \in Actions : b < a => row[b].status # "none"
    /\ \E oldest \in Actions :
         row' = Trimmed([Expired(row, oldest) EXCEPT ![a].status = "succeeded"])
    /\ UNCHANGED <<undo, flying, restarts, diagnoses, history>>

Newest(set) == CHOOSE a \in set : \A b \in set : b <= a

\* An undo without an id takes the newest receipt, but for the posting of an
\* answer rather an action of the same turn.
Chosen(rows) ==
    LET last == Newest(Kept(rows))
        others == {a \in Kept(rows) : a \notin Host /\ Turn[a] = Turn[last]}
    IN  IF last \in Host /\ others # {} THEN Newest(others) ELSE last

\* A mistake to rule out: completed receipts are offered again as well.
OpenedAll(rows) ==
    [a \in Actions |-> IF rows[a].status \in {"undoing", "undone"}
                       THEN [rows[a] EXCEPT !.status = "succeeded"] ELSE rows[a]]

\* _initialize() takes every claim back that has not expired.
Opened(rows) ==
    [a \in Actions |-> IF rows[a].status = "undoing"
                       THEN [rows[a] EXCEPT !.status = "succeeded"] ELSE rows[a]]

Reopen ==
    /\ \E oldest \in Actions : row' = Opened(Expired(row, oldest))
    /\ opened' = [a \in Actions |->
                    IF row[a].status = "undoing" /\ row'[a].status = "succeeded"
                    THEN opened[a] + 1 ELSE opened[a]]
    /\ stranded' = {}
    /\ UNCHANGED <<claimed, ran>>

-------------------------------------------------------------------------------
(* One undo                                                                *)

Ask(u, a) ==
    /\ undo[u].step = "idle"
    /\ undo' = [undo EXCEPT ![u] = [step |-> "claiming", of |-> a, answer |-> None]]
    /\ UNCHANGED <<row, flying, restarts, diagnoses, history>>

\* The call is cancelled while its thread is still to claim.
CutClaim(u) ==
    /\ undo[u].step = "claiming"
    /\ \E s \in {"orphan", "over"} : undo' = [undo EXCEPT ![u].step = s]
    /\ UNCHANGED <<row, flying, restarts, diagnoses, history>>

\* No such receipt, one that is being undone, or a failure of the database.
NotClaimed(u, rows) ==
    /\ row' = rows
    /\ undo' = [undo EXCEPT ![u].step = "over"]
    /\ UNCHANGED <<flying, restarts, diagnoses, history>>

AlreadyUndone(u, rows, a) ==
    /\ rows[a].status = "undone"
    /\ row' = rows
    /\ undo' = [undo EXCEPT ![u] =
         IF @.step = "claiming"
         THEN [step |-> "told", of |-> a, answer |-> rows[a].by]
         ELSE [@ EXCEPT !.step = "over"]]
    /\ UNCHANGED <<flying, restarts, diagnoses, history>>

\* A mistake to rule out: the claim does not ask for the status.
FreeAlways(rows, a) == rows[a].status \in {"succeeded", "undoing"}

Free(rows, a) == rows[a].status = "succeeded"

TakeClaim(u, rows, a) ==
    /\ Free(rows, a)
    /\ row' = [rows EXCEPT ![a].status = "undoing"]
    /\ claimed' = [claimed EXCEPT ![a] = @ \union {u}]
    /\ undo' = [undo EXCEPT ![u] =
         IF @.step = "claiming" THEN [@ EXCEPT !.step = "claimed", !.of = a]
                                ELSE [@ EXCEPT !.step = "over"]]
    /\ stranded' = IF undo[u].step = "claiming" THEN stranded ELSE stranded \union {a}
    /\ UNCHANGED <<flying, restarts, diagnoses, ran, opened>>

Claim(u) ==
    /\ undo[u].step \in {"claiming", "orphan"}
    /\ \E oldest \in Actions :
         LET rows == Expired(row, oldest)
             a == IF undo[u].of = None THEN Chosen(rows) ELSE undo[u].of
         IN  IF Kept(rows) = {} \/ a \notin Kept(rows)
             THEN NotClaimed(u, rows)
             ELSE \/ AlreadyUndone(u, rows, a)
                  \/ rows[a].status = "undoing" /\ NotClaimed(u, rows)
                  \/ TakeClaim(u, rows, a)

ClaimFails(u) ==
    /\ undo[u].step \in {"claiming", "orphan"}
    /\ NotClaimed(u, row)

\* The inverse takes effect; it may do so after its caller gave it up.
Act(u) ==
    /\ undo[u].step = "claimed"
    /\ undo' = [undo EXCEPT ![u].step = "acted"]
    /\ ran' = [ran EXCEPT ![undo[u].of] = @ \union {u}]
    /\ UNCHANGED <<row, flying, restarts, diagnoses, claimed, opened, stranded>>

Land(u) ==
    /\ u \in flying
    /\ flying' = flying \ {u}
    /\ ran' = [ran EXCEPT ![undo[u].of] = @ \union {u}]
    /\ UNCHANGED <<row, undo, restarts, diagnoses, claimed, opened, stranded>>

\* The inverse returns.
Return(u) ==
    /\ undo[u].step = "acted"
    /\ undo' = [undo EXCEPT ![u].step = "completing"]
    /\ UNCHANGED <<row, flying, restarts, diagnoses, history>>

\* A mistake to rule out: only exceptions, not cancellations, release.
BreakUnhandled(u) ==
    /\ undo[u].step \in {"claimed", "acted"}
    /\ undo' = [undo EXCEPT ![u].step = "over"]
    /\ UNCHANGED <<row, flying, restarts, diagnoses, history>>

\* It raises, or the call is cancelled: before, while or after it acts.
Break(u) ==
    /\ undo[u].step \in {"claimed", "acted"}
    /\ undo' = [undo EXCEPT ![u].step = "releasing"]
    /\ \/ UNCHANGED flying
       \/ undo[u].step = "claimed" /\ flying' = flying \union {u}
    /\ UNCHANGED <<row, restarts, diagnoses, history>>

Release(u) ==
    /\ undo[u].step = "releasing"
    /\ undo' = [undo EXCEPT ![u].step = "over"]
    /\ LET a == undo[u].of
           held == row[a].status = "undoing"
       IN  /\ row' = IF held THEN [row EXCEPT ![a].status = "succeeded"] ELSE row
           /\ opened' = IF held THEN [opened EXCEPT ![a] = @ + 1] ELSE opened
           /\ stranded' = IF held THEN stranded \ {a} ELSE stranded
    /\ UNCHANGED <<flying, restarts, diagnoses, claimed, ran>>

Complete(u) ==
    /\ undo[u].step = "completing"
    /\ LET a == undo[u].of
       IN  IF row[a].status = "undoing"
           THEN /\ row' = [row EXCEPT ![a] = [status |-> "undone", by |-> u]]
                /\ \/ undo' = [undo EXCEPT ![u].step = "over"]   \* cancelled
                   \/ undo' = [undo EXCEPT ![u] = [step |-> "told", of |-> a, answer |-> u]]
                /\ stranded' = stranded \ {a}
           ELSE /\ undo' = [undo EXCEPT ![u].step = "over"]
                /\ UNCHANGED <<row, stranded>>
    /\ UNCHANGED <<flying, restarts, diagnoses, claimed, ran, opened>>

\* The last transaction fails, or is cancelled before its thread begins.
SettleFails(u) ==
    /\ undo[u].step \in {"releasing", "completing"}
    /\ undo' = [undo EXCEPT ![u].step = "over"]
    /\ stranded' = IF row[undo[u].of].status = "undoing"
                   THEN stranded \union {undo[u].of} ELSE stranded
    /\ UNCHANGED <<row, flying, restarts, diagnoses, claimed, ran, opened>>

-------------------------------------------------------------------------------
(* The process                                                             *)

\* The process starts again: no call survives.
Restart ==
    /\ restarts < MaxRestarts
    /\ restarts' = restarts + 1
    /\ undo' = [u \in Undoers |->
         IF undo[u].step \in {"idle", "told", "over"} THEN undo[u]
         ELSE [undo[u] EXCEPT !.step = "over"]]
    /\ flying' = flying \union {u \in Undoers : undo[u].step = "claimed"}
    /\ Reopen
    /\ UNCHANGED diagnoses

\* Listing the effects of a running process opens its database.
Diagnose ==
    /\ diagnoses < MaxDiagnoses
    /\ diagnoses' = diagnoses + 1
    /\ Reopen
    /\ UNCHANGED <<undo, flying, restarts>>

Step(u) ==
    \/ \E a \in Actions \union {None} : Ask(u, a)
    \/ CutClaim(u) \/ Claim(u) \/ ClaimFails(u)
    \/ Act(u) \/ Land(u) \/ Return(u) \/ Break(u)
    \/ Release(u) \/ Complete(u) \/ SettleFails(u)

Next ==
    \/ \E a \in Actions : Record(a)
    \/ \E u \in Undoers : Step(u)
    \/ Restart
    \/ Diagnose

Spec == Init /\ [][Next]_vars

-------------------------------------------------------------------------------
(* Properties                                                              *)

\* The inverse of an action takes effect at most once, and once more for each
\* time its claim was taken back: by a release after a failure, by a start of
\* the process or by the diagnosis ("at most once", actions.py:2483, holds no
\* further).
AtMostOnce == \A a \in Actions : Cardinality(ran[a]) <= 1 + opened[a]

\* The claim without taking back, which a release or a start refutes.
StrictlyOnce == \A a \in Actions : Cardinality(ran[a]) <= 1

Works(u) == undo[u].step \in {"claimed", "acted", "releasing", "completing"}

\* No receipt stays claimed with nobody to settle it, except when the claim
\* itself was cancelled under way or the settling transaction failed.
NotStuck ==
    \A a \in Actions :
        row[a].status = "undoing" => \/ a \in stranded
                                     \/ \E u \in Undoers : Works(u) /\ undo[u].of = a

\* Whoever is told that an action is undone is told of the same undo, whose
\* inverse took effect; while the receipt is kept, its row says the same.
SameAnswer ==
    \A u \in Undoers :
        undo[u].step = "told" =>
            LET a == undo[u].of
            IN  /\ row[a].by = undo[u].answer
                /\ row[a].status \in {"undone", "gone"}
                /\ undo[u].answer \in ran[a]

\* A claim is settled, and as one undo for all: it has somebody who will settle it
\* until it is, and nobody is told of another.
SettledOnce == NotStuck /\ SameAnswer
===============================================================================
