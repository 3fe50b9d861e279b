---------------------------- MODULE ReadAloudProofs ----------------------------
(***************************************************************************)
(* Reading aloud.  No focus session leaves its mode behind, and the mode   *)
(* in force before the first of them is back after the last, for any       *)
(* number of timers and policy changes, when creations and cancellations   *)
(* are not cut short.  The speech scheduler's ring is exact and a call is  *)
(* its caller's affair, for any number of guilds, requests and workers.    *)
(***************************************************************************)
EXTENDS FocusSession, SpeechScheduler, TLAPS

\* The operations that put no mode back in their last step may be cut short.
NotCut == Faults \subseteq {"restore", "complete"}

\* The events-only mode is one that people chose.
Owned == Mode(policy) = "events" => "events" \in chosen

\* The steps each operation goes through.
StepOK ==
    /\ op.kind = "create" => op.step \in {"enter", "insert", "undo"}
    /\ op.kind = "cancel" => op.step = "leave"
    /\ op.kind = "restore" => op.step \in {"row", "note", "enter"}
    /\ op.kind = "complete" => op.step \in {"leave", "finish"}

\* What is put back was in force once by somebody's choice.
Noted ==
    /\ \A t \in Timers : status[t] # "none" => restore[t] # None
    /\ \A t \in Timers : restore[t] = "events" => "events" \in chosen
    /\ op.mode = "events" => "events" \in chosen

\* Where the row of the operation's timer is.
RowOK ==
    /\ op.kind = "restore" =>
        IF op.step = "row" THEN status[op.timer] = "cancelled" ELSE op.timer \in Active
    /\ op.kind = "complete" => status[op.timer] = "delivering"

\* The mode in force whenever the running operation may leave no session.
LastOK ==
    /\ (op = Idle \/ At("create", "enter")) /\ Active = {} => Owned
    /\ At("create", "enter") => op.first
    /\ At("create", "insert") /\ Active = {} => op.first
    /\ At("restore", "row") /\ Others(op.timer) = {} => Owned
    /\ At("restore", "note") /\ Others(op.timer) = {} => Owned
    /\ At("complete", "finish") /\ Others(op.timer) = {} => Owned

IInv == TypeOK /\ StepOK /\ Noted /\ RowOK /\ LastOK

-------------------------------------------------------------------------------
(* Policies and modes                                                      *)

\* Every policy has a mode.
LEMMA ModeType ==
  ASSUME NEW p \in Policies
  PROVE  Mode(p) \in Modes
  BY DEF Mode, Modes

\* A preset is a policy with the mode it is for.
LEMMA ModeOfPreset ==
  ASSUME NEW m \in Modes
  PROVE  Preset(m) \in Policies /\ Mode(Preset(m)) = m
  <1>1. Preset(m) \in Policies
    BY DEF Preset, Policies
  <1>2. Mode(Preset(m)) = m
    BY FocusAssumption DEF Mode, Preset, Modes
  <1> QED
    BY <1>1, <1>2

\* Putting a mode back leaves the events-only mode only if that was chosen.
LEMMA SwapOwned ==
  ASSUME NEW m \in Modes, policy \in Policies, Swap(m),
         m = "events" => "events" \in chosen, UNCHANGED chosen
  PROVE  policy' \in Policies /\ Owned'
  BY ModeOfPreset DEF Swap, Owned

\* A row that is to be put back notes a mode.
LEMMA NoneNotMode == None \notin Modes
  BY FocusAssumption DEF Modes

\* An operation that begins with a mode is of its type.
LEMMA BeginType ==
  ASSUME NEW k \in {"create", "cancel", "restore", "complete"}, NEW t \in Timers,
         NEW s \in Steps, NEW m \in Modes, Begin(k, t, s, m)
  PROVE  op' \in [kind : {"create", "cancel", "restore", "complete"}, timer : Timers,
                  step : Steps, first : BOOLEAN, mode : Modes]
  <1>1. (Others(t) = {}) \in BOOLEAN
    OBVIOUS
  <1> QED
    BY <1>1 DEF Begin

-------------------------------------------------------------------------------
(* The invariant                                                           *)

\* It holds before the first session.
LEMMA InitIInv == Init => IInv
  <1> SUFFICES ASSUME Init PROVE IInv
    OBVIOUS
  <1>1. TypeOK
    BY ModeType, FocusAssumption DEF Init, TypeOK, Statuses
  <1>2. StepOK /\ RowOK
    BY DEF Init, StepOK, RowOK, Idle
  <1>3. Noted
    BY NoneNotMode DEF Init, Noted, Idle, Modes
  <1>4. LastOK
    BY DEF Init, LastOK, Idle, At, Owned
  <1> QED
    BY <1>1, <1>2, <1>3, <1>4 DEF IInv

\* A session begins with the mode in force, or that of the one it joins.
LEMMA CreateIInv ==
  ASSUME IInv, NEW t \in Timers, Create(t)
  PROVE  IInv'
  <1> USE DEF IInv, Create, humanVars
  <1> PICK m \in Modes :
        /\ Inherited(t, m)
        /\ Begin("create", t, IF Others(t) = {} THEN "enter" ELSE "insert", m)
    OBVIOUS
  <1>1. TypeOK'
    BY BeginType DEF TypeOK, Steps, Remember
  <1>2. StepOK'
    BY DEF TypeOK, StepOK, Begin, Idle
  <1>3. Noted'
    BY NoneNotMode, ModeType DEF TypeOK, RowOK, Noted, Begin, Idle, Inherited,
          Others, Active, Modes, Owned, LastOK
  <1>4. RowOK'
    BY DEF TypeOK, RowOK, StepOK, Begin, Idle, Active
  <1>5. LastOK'
    <2>1. op'.first <=> Others(t) = {}
      BY DEF Begin
    <2>2. At("create", "enter")' <=> Others(t) = {}
      BY DEF Begin, At
    <2>3. At("create", "insert")' <=> Others(t) # {}
      BY DEF Begin, At
    <2>4. Active' = Active /\ Owned' = Owned
      BY DEF Active, Owned, Mode
    <2>5. Active = {} => Others(t) = {}
      BY DEF Others
    <2>6. op'.kind = "create"
      BY DEF Begin
    <2>7. op' # Idle
      BY <2>6 DEF Idle
    <2> QED
      BY <2>1, <2>2, <2>3, <2>4, <2>5, <2>6, <2>7 DEF LastOK, At
  <1> QED
    BY <1>1, <1>2, <1>3, <1>4, <1>5

\* The first session goes on to write its row.
LEMMA EnterNewIInv ==
  ASSUME IInv, EnterNew
  PROVE  IInv'
  <1> USE DEF IInv, EnterNew, humanVars
  <1>1. TypeOK'
    BY ModeOfPreset, SwapOwned DEF TypeOK, Goto, At, Silence, Idle, Statuses,
          Steps, Modes
  <1>2. StepOK'
    BY DEF TypeOK, StepOK, Goto, At
  <1>3. Noted'
    BY NoneNotMode DEF TypeOK, RowOK, Noted, Goto, At, Idle, Modes, Active
  <1>4. RowOK'
    BY DEF TypeOK, RowOK, StepOK, Goto, At, Idle, Active
  <1>5. LastOK'
    BY DEF TypeOK, LastOK, StepOK, RowOK, Noted, Owned, Goto, At, Idle, Active,
          Others
  <1> QED
    BY <1>1, <1>2, <1>3, <1>4, <1>5

\* An operation that changed nothing yet goes.
LEMMA RefuseIInv ==
  ASSUME IInv, Refuse
  PROVE  IInv'
  <1> USE DEF IInv, Refuse, humanVars
  <1>1. TypeOK'
    BY DEF TypeOK, At, Idle, Statuses, Modes
  <1>2. StepOK'
    BY DEF TypeOK, StepOK, At, Idle
  <1>3. Noted'
    BY NoneNotMode DEF TypeOK, RowOK, Noted, At, Idle, Modes, Active
  <1>4. RowOK'
    BY DEF TypeOK, RowOK, StepOK, At, Idle, Active
  <1>5. LastOK'
    BY DEF TypeOK, LastOK, StepOK, RowOK, Noted, Owned, At, Idle, Active, Others
  <1> QED
    BY <1>1, <1>2, <1>3, <1>4, <1>5

\* The new row is an active one.
LEMMA InsertIInv ==
  ASSUME IInv, Insert
  PROVE  IInv'
  <1> USE DEF IInv, Insert, humanVars
  <1>1. TypeOK'
    BY DEF TypeOK, StepOK, Noted, At, Idle, Statuses, Modes
  <1>2. StepOK'
    BY DEF TypeOK, StepOK, At, Idle
  <1>3. Noted'
    BY NoneNotMode DEF TypeOK, RowOK, Noted, At, Idle, Modes, Active
  <1>4. RowOK'
    BY DEF TypeOK, RowOK, StepOK, At, Idle, Active
  <1>5. LastOK'
    BY DEF TypeOK, LastOK, StepOK, RowOK, Noted, Owned, At, Idle, Active, Others
  <1> QED
    BY <1>1, <1>2, <1>3, <1>4, <1>5

\* Only the first session has anything to take back.
LEMMA InsertFailsIInv ==
  ASSUME IInv, InsertFails
  PROVE  IInv'
  <1> USE DEF IInv, InsertFails, humanVars
  <1>1. TypeOK'
    BY DEF TypeOK, Goto, At, Idle, Statuses, Steps, Modes
  <1>2. StepOK'
    BY DEF TypeOK, StepOK, Goto, At, Idle
  <1>3. Noted'
    BY NoneNotMode DEF TypeOK, RowOK, Noted, Goto, At, Idle, Modes, Active
  <1>4. RowOK'
    BY DEF TypeOK, RowOK, StepOK, Goto, At, Idle, Active
  <1>5. LastOK'
    BY DEF TypeOK, LastOK, StepOK, RowOK, Noted, Owned, Goto, At, Idle, Active,
          Others
  <1> QED
    BY <1>1, <1>2, <1>3, <1>4, <1>5

\* The mode the operation began with is back.
LEMMA UndoIInv ==
  ASSUME IInv, Undo
  PROVE  IInv'
  <1> USE DEF IInv, Undo, humanVars
  <1>1. TypeOK'
    BY SwapOwned DEF TypeOK, StepOK, Noted, At, Idle, Statuses, Modes
  <1>2. StepOK'
    BY DEF TypeOK, StepOK, At, Idle
  <1>3. Noted'
    BY NoneNotMode DEF TypeOK, RowOK, Noted, At, Idle, Modes, Active
  <1>4. RowOK'
    BY DEF TypeOK, RowOK, StepOK, At, Idle, Active
  <1>5. LastOK'
    BY SwapOwned DEF TypeOK, LastOK, StepOK, RowOK, Noted, Owned, At, Idle,
          Active, Others, Modes
  <1> QED
    BY <1>1, <1>2, <1>3, <1>4, <1>5

\* The last session has its mode put back in a later step.
LEMMA CancelIInv ==
  ASSUME IInv, NEW t \in Timers, Cancel(t)
  PROVE  IInv'
  <1> USE DEF IInv, Cancel, humanVars
  <1>1. TypeOK'
    <2>1. status' \in [Timers -> Statuses]
      BY DEF TypeOK, Statuses
    <2>2. op' = Idle \/ op' \in
             [kind : {"create", "cancel", "restore", "complete"}, timer : Timers,
              step : Steps, first : BOOLEAN, mode : Modes]
      <3>1. CASE restore[t] # None /\ Others(t) = {}
        <4>1. restore[t] \in Modes
          BY <3>1 DEF TypeOK
        <4> QED
          BY <3>1, <4>1, BeginType DEF Steps
      <3>2. CASE ~(restore[t] # None /\ Others(t) = {})
        BY <3>2
      <3> QED
        BY <3>1, <3>2
    <2> QED
      BY <2>1, <2>2 DEF TypeOK
  <1>2. StepOK'
    BY DEF TypeOK, StepOK, Begin, Idle
  <1>3. Noted'
    BY NoneNotMode DEF TypeOK, RowOK, Noted, Begin, Idle, Others, Active, Modes
  <1>4. RowOK'
    BY DEF TypeOK, RowOK, StepOK, Begin, Idle, Active
  <1>5. LastOK'
    BY DEF TypeOK, LastOK, StepOK, RowOK, Noted, Owned, Begin, Idle, Others,
          Active, At
  <1> QED
    BY <1>1, <1>2, <1>3, <1>4, <1>5

\* The mode of the last session is back.
LEMMA LeaveIInv ==
  ASSUME IInv, Leave
  PROVE  IInv'
  <1> USE DEF IInv, Leave, humanVars
  <1>1. TypeOK'
    BY SwapOwned DEF TypeOK, StepOK, Noted, Goto, Idle, Statuses, Steps, Modes
  <1>2. StepOK'
    BY DEF TypeOK, StepOK, Goto, Idle
  <1>3. Noted'
    BY NoneNotMode DEF TypeOK, RowOK, Noted, Goto, Idle, Modes, Active
  <1>4. RowOK'
    BY DEF TypeOK, RowOK, StepOK, Goto, Idle, Active
  <1>5. LastOK'
    BY SwapOwned DEF TypeOK, LastOK, StepOK, RowOK, Noted, Owned, Goto, Idle,
          At, Active, Others, Modes
  <1> QED
    BY <1>1, <1>2, <1>3, <1>4, <1>5

\* The mode in force without the session is somebody's choice.
LEMMA RestoreIInv ==
  ASSUME IInv, NEW t \in Timers, Restore(t)
  PROVE  IInv'
  <1> USE DEF IInv, Restore, humanVars
  <1>1. TypeOK'
    BY ModeType DEF TypeOK, Begin, Idle, Inherited, Others, Active, Statuses,
          Steps, Modes, Remember
  <1>2. StepOK'
    BY DEF TypeOK, StepOK, Begin, Idle
  <1>3. Noted'
    BY NoneNotMode, ModeType DEF TypeOK, RowOK, Noted, Begin, Idle, Inherited,
          Others, Active, Modes, Owned, LastOK
  <1>4. RowOK'
    BY DEF TypeOK, RowOK, StepOK, Begin, Idle, Active
  <1>5. LastOK'
    BY DEF TypeOK, LastOK, StepOK, RowOK, Noted, Owned, Begin, Idle, Others,
          Active, At
  <1> QED
    BY <1>1, <1>2, <1>3, <1>4, <1>5

\* The row is active before the mode is noted.
LEMMA RestoreRowIInv ==
  ASSUME IInv, RestoreRow
  PROVE  IInv'
  <1> USE DEF IInv, RestoreRow, humanVars
  <1>1. TypeOK'
    BY DEF TypeOK, Goto, At, Idle, Statuses, Steps, Modes
  <1>2. StepOK'
    BY DEF TypeOK, StepOK, Goto, At
  <1>3. Noted'
    BY NoneNotMode DEF TypeOK, RowOK, Noted, Goto, At, Idle, Modes, Active
  <1>4. RowOK'
    BY DEF TypeOK, RowOK, StepOK, Goto, At, Idle, Active
  <1>5. LastOK'
    BY DEF TypeOK, LastOK, StepOK, RowOK, Noted, Owned, Goto, At, Idle, Active,
          Others
  <1> QED
    BY <1>1, <1>2, <1>3, <1>4, <1>5

\* The noted mode is the one that was in force.
LEMMA NoteIInv ==
  ASSUME IInv, Note
  PROVE  IInv'
  <1> USE DEF IInv, Note, humanVars
  <1>1. TypeOK'
    BY DEF TypeOK, StepOK, Noted, Goto, At, Idle, Statuses, Steps, Modes
  <1>2. StepOK'
    BY DEF TypeOK, StepOK, Goto, At, Idle
  <1>3. Noted'
    BY NoneNotMode DEF TypeOK, RowOK, Noted, Goto, At, Idle, Modes, Active
  <1>4. RowOK'
    BY DEF TypeOK, RowOK, StepOK, Goto, At, Idle, Active
  <1>5. LastOK'
    BY DEF TypeOK, LastOK, StepOK, RowOK, Noted, Owned, Goto, At, Idle, Active,
          Others
  <1> QED
    BY <1>1, <1>2, <1>3, <1>4, <1>5

\* The restored session is active.
LEMMA EnterAgainIInv ==
  ASSUME IInv, EnterAgain
  PROVE  IInv'
  <1> USE DEF IInv, EnterAgain, humanVars
  <1>1. TypeOK'
    BY ModeOfPreset, SwapOwned DEF TypeOK, At, Idle, Silence, Statuses, Modes
  <1>2. StepOK'
    BY DEF TypeOK, StepOK, At, Idle
  <1>3. Noted'
    BY NoneNotMode DEF TypeOK, RowOK, Noted, At, Idle, Modes, Active
  <1>4. RowOK'
    BY DEF TypeOK, RowOK, StepOK, At, Idle, Active
  <1>5. LastOK'
    BY DEF TypeOK, LastOK, StepOK, RowOK, Noted, Owned, At, Idle, Active, Others
  <1> QED
    BY <1>1, <1>2, <1>3, <1>4, <1>5

\* The row is cancelled again and nothing was silenced.
LEMMA NoteFailsIInv ==
  ASSUME IInv, NoteFails
  PROVE  IInv'
  <1> USE DEF IInv, NoteFails, humanVars
  <1>1. TypeOK'
    BY DEF TypeOK, At, Idle, Statuses, Modes
  <1>2. StepOK'
    BY DEF TypeOK, StepOK, At, Idle
  <1>3. Noted'
    BY NoneNotMode DEF TypeOK, RowOK, Noted, At, Idle, Modes, Active
  <1>4. RowOK'
    BY DEF TypeOK, RowOK, StepOK, At, Idle, Active
  <1>5. LastOK'
    BY DEF TypeOK, LastOK, StepOK, RowOK, Noted, Owned, At, Idle, Active, Others
  <1> QED
    BY <1>1, <1>2, <1>3, <1>4, <1>5

\* A claimed timer is as active as it was.
LEMMA ClaimIInv ==
  ASSUME IInv, NEW t \in Timers, Claim(t)
  PROVE  IInv'
  <1> USE DEF IInv, Claim, humanVars
  <1>1. TypeOK'
    BY DEF TypeOK, Statuses
  <1>2. StepOK'
    BY DEF TypeOK, StepOK
  <1>3. Noted'
    BY NoneNotMode DEF TypeOK, RowOK, Noted, Idle, Modes, Active
  <1>4. RowOK'
    BY DEF TypeOK, RowOK, StepOK, Idle, Active
  <1>5. LastOK'
    BY DEF TypeOK, LastOK, StepOK, RowOK, Noted, Owned, At, Idle, Active, Others
  <1> QED
    BY <1>1, <1>2, <1>3, <1>4, <1>5

\* So is one that is retried.
LEMMA RetryIInv ==
  ASSUME IInv, NEW t \in Timers, Retry(t)
  PROVE  IInv'
  <1> USE DEF IInv, Retry, humanVars
  <1>1. TypeOK'
    BY DEF TypeOK, Statuses
  <1>2. StepOK'
    BY DEF TypeOK, StepOK
  <1>3. Noted'
    BY NoneNotMode DEF TypeOK, RowOK, Noted, Idle, Modes, Active
  <1>4. RowOK'
    BY DEF TypeOK, RowOK, StepOK, Idle, Active
  <1>5. LastOK'
    BY DEF TypeOK, LastOK, StepOK, RowOK, Noted, Owned, At, Idle, Active, Others
  <1> QED
    BY <1>1, <1>2, <1>3, <1>4, <1>5

\* A completion puts the mode back before the row is completed.
LEMMA CompleteIInv ==
  ASSUME IInv, NEW t \in Timers, Complete(t)
  PROVE  IInv'
  <1> USE DEF IInv, Complete, humanVars
  <1>1. TypeOK'
    <2>1. PICK s \in Steps, m \in Modes : Begin("complete", t, s, m)
      <3>1. CASE restore[t] # None
        <4>1. restore[t] \in Modes
          BY <3>1 DEF TypeOK
        <4> QED
          BY <3>1, <4>1 DEF Steps
      <3>2. CASE restore[t] = None
        BY <3>2, ModeType DEF TypeOK, Steps
      <3> QED
        BY <3>1, <3>2
    <2>2. op' \in [kind : {"create", "cancel", "restore", "complete"}, timer : Timers,
                  step : Steps, first : BOOLEAN, mode : Modes]
      BY <2>1, BeginType
    <2> QED
      BY <2>2 DEF TypeOK
  <1>2. StepOK'
    BY DEF TypeOK, StepOK, Begin, Idle
  <1>3. Noted'
    BY NoneNotMode, ModeType DEF TypeOK, RowOK, Noted, Begin, Idle, Others,
          Active, Modes, Owned, LastOK
  <1>4. RowOK'
    BY DEF TypeOK, RowOK, StepOK, Begin, Idle, Active
  <1>5. LastOK'
    BY DEF TypeOK, LastOK, StepOK, RowOK, Noted, Owned, Begin, Idle, Others,
          Active, At
  <1> QED
    BY <1>1, <1>2, <1>3, <1>4, <1>5

\* When the last row is completed the mode is back.
LEMMA FinishIInv ==
  ASSUME IInv, Finish
  PROVE  IInv'
  <1> USE DEF IInv, Finish, humanVars
  <1>1. TypeOK'
    BY DEF TypeOK, At, Idle, Statuses, Modes
  <1>2. StepOK'
    BY DEF TypeOK, StepOK, At, Idle
  <1>3. Noted'
    BY NoneNotMode DEF TypeOK, RowOK, Noted, At, Idle, Modes, Active
  <1>4. RowOK'
    BY DEF TypeOK, RowOK, StepOK, At, Idle, Active
  <1>5. LastOK'
    BY DEF TypeOK, LastOK, StepOK, RowOK, Noted, Owned, At, Idle, Active, Others
  <1> QED
    BY <1>1, <1>2, <1>3, <1>4, <1>5

\* A completion that fails leaves its timer active.
LEMMA FinishFailsIInv ==
  ASSUME IInv, FinishFails
  PROVE  IInv'
  <1> USE DEF IInv, FinishFails, humanVars
  <1>1. TypeOK'
    BY DEF TypeOK, At, Idle, Statuses, Modes
  <1>2. StepOK'
    BY DEF TypeOK, StepOK, At, Idle
  <1>3. Noted'
    BY NoneNotMode DEF TypeOK, RowOK, Noted, At, Idle, Modes, Active
  <1>4. RowOK'
    BY DEF TypeOK, RowOK, StepOK, At, Idle, Active
  <1>5. LastOK'
    BY DEF TypeOK, LastOK, StepOK, RowOK, Noted, Owned, At, Idle, Active, Others
  <1> QED
    BY <1>1, <1>2, <1>3, <1>4, <1>5

\* A restoration that is cut short leaves an active row, or nothing changed.
LEMMA InterruptIInv ==
  ASSUME IInv, NotCut, Interrupt
  PROVE  IInv'
  <1> USE DEF IInv, Interrupt, humanVars
  <1>1. TypeOK'
    BY DEF TypeOK, Idle, Statuses, Modes, Kept
  <1>2. StepOK'
    BY DEF TypeOK, StepOK, Idle
  <1>3. Noted'
    BY NoneNotMode DEF TypeOK, RowOK, Noted, Idle, Modes, Active
  <1>4. RowOK'
    BY DEF TypeOK, RowOK, StepOK, Idle, Active
  <1>5. LastOK'
    BY DEF TypeOK, LastOK, StepOK, RowOK, Noted, Owned, Idle, At, Active,
          Others, NotCut
  <1> QED
    BY <1>1, <1>2, <1>3, <1>4, <1>5

\* A restart keeps every active row active.
LEMMA RestartIInv ==
  ASSUME IInv, NotCut, Restart
  PROVE  IInv'
  <1> USE DEF IInv, Restart, humanVars
  <1>1. TypeOK'
    BY DEF TypeOK, Idle, Statuses, Modes, Kept
  <1>2. StepOK'
    BY DEF TypeOK, StepOK, Idle
  <1>3. Noted'
    BY NoneNotMode DEF TypeOK, RowOK, Noted, Idle, Modes, Active
  <1>4. RowOK'
    BY DEF TypeOK, RowOK, StepOK, Idle, Active
  <1>5. LastOK'
    BY DEF TypeOK, LastOK, StepOK, RowOK, Noted, Owned, Idle, At, Active,
          Others, NotCut
  <1> QED
    BY <1>1, <1>2, <1>3, <1>4, <1>5

\* A policy that people choose is one of theirs.
LEMMA ChangeIInv ==
  ASSUME IInv, NEW p \in Policies, Change(p)
  PROVE  IInv'
  <1> USE DEF IInv, Change
  <1>1. TypeOK'
    BY ModeType, FocusAssumption DEF TypeOK
  <1>2. StepOK' /\ RowOK'
    BY DEF StepOK, RowOK, Active
  <1>3. Noted'
    BY DEF Noted
  <1>4. Owned' /\ Active' = Active
    BY DEF Owned, Active
  <1>5. LastOK'
    BY <1>4 DEF LastOK, At, Others
  <1> QED
    BY <1>1, <1>2, <1>3, <1>5

\* Every step preserves the invariant.
LEMMA NextIInv ==
  ASSUME IInv, NotCut, [Next]_vars
  PROVE  IInv'
  <1>1. CASE \E t \in Timers : Create(t) \/ Cancel(t) \/ Restore(t)
                            \/ Claim(t) \/ Retry(t) \/ Complete(t)
    BY <1>1, CreateIInv, CancelIInv, RestoreIInv, ClaimIInv, RetryIInv, CompleteIInv
  <1>2. CASE EnterNew \/ Refuse \/ Insert \/ InsertFails \/ Undo \/ Leave
    BY <1>2, EnterNewIInv, RefuseIInv, InsertIInv, InsertFailsIInv, UndoIInv, LeaveIInv
  <1>3. CASE RestoreRow \/ Note \/ EnterAgain \/ NoteFails
    BY <1>3, RestoreRowIInv, NoteIInv, EnterAgainIInv, NoteFailsIInv
  <1>4. CASE Finish \/ FinishFails \/ Interrupt \/ Restart
    BY <1>4, FinishIInv, FinishFailsIInv, InterruptIInv, RestartIInv
  <1>5. CASE \E p \in Policies : Change(p)
    BY <1>5, ChangeIInv
  <1>6. CASE UNCHANGED vars
    BY <1>6 DEF IInv, TypeOK, StepOK, Noted, RowOK, LastOK, Owned, At, Active, Others,
                vars, humanVars
  <1> QED
    BY <1>1, <1>2, <1>3, <1>4, <1>5, <1>6 DEF Next

-------------------------------------------------------------------------------
(* The mode that is restored                                               *)

\* Whether the operation's session is the only one.
FirstOK ==
    op # Idle =>
        /\ op.first <=> Others(op.timer) = {}
        /\ op.step \in {"undo", "leave"} => op.first

\* Where the mode that was in force before the sessions is, or is on its way.
Back ==
    \/ op = Idle /\ Active = {}
    \/ At("create", "enter")
    \/ op.first /\ (At("restore", "row") \/ At("restore", "note") \/ At("complete", "finish"))

BackOK ==
    before # None =>
        /\ Mode(policy) \in {"events", Mode(before)}
        /\ \A t \in Active : restore[t] = Mode(before) \/ (At("restore", "note") /\ t = op.timer)
        /\ op # Idle => op.mode = Mode(before)
        /\ Back => Mode(policy) = Mode(before)

SInv == IInv /\ FirstOK /\ BackOK

LEMMA CreateBack ==
  ASSUME SInv, NEW t \in Timers, Create(t)
  PROVE  FirstOK' /\ BackOK'
  <1> USE NoneNotMode DEF SInv, IInv, Create, humanVars, TypeOK
  <1>1. PICK m \in Modes, s \in {"enter", "insert"} :
          /\ Inherited(t, m) /\ Begin("create", t, s, m)
          /\ s = "enter" <=> Others(t) = {}
    OBVIOUS
  <1>2. /\ op'.kind = "create" /\ op'.timer = t /\ op'.step = s /\ op'.mode = m
        /\ op'.first <=> Others(t) = {}
    BY <1>1 DEF Begin
  <1>3. Active' = Active /\ Others(t)' = Others(t)
    BY DEF Active, Others
  <1>4. FirstOK'
    BY <1>1, <1>2, <1>3 DEF FirstOK, Others
  <1>5. BackOK'
    BY <1>1, <1>2, <1>3, ModeType DEF BackOK, Back, Noted, At, Idle, Inherited, Remember, Others, Active, Modes
  <1> QED
    BY <1>4, <1>5

LEMMA EnterNewBack ==
  ASSUME SInv, EnterNew
  PROVE  FirstOK' /\ BackOK'
  <1> USE NoneNotMode DEF SInv, IInv, EnterNew, humanVars, TypeOK
  <1>1. FirstOK'
    BY DEF FirstOK, StepOK, RowOK, At, Idle, Active, Others, Silence, Goto
  <1>2. BackOK'
    BY ModeOfPreset, ModeType DEF BackOK, Back, FirstOK, StepOK, RowOK, Noted, At, Idle, Active, Others, Modes, Silence, Goto
  <1> QED
    BY <1>1, <1>2

LEMMA RefuseBack ==
  ASSUME SInv, Refuse
  PROVE  FirstOK' /\ BackOK'
  <1> USE NoneNotMode DEF SInv, IInv, Refuse, humanVars, TypeOK
  <1>1. FirstOK'
    BY DEF FirstOK, StepOK, RowOK, At, Idle, Active, Others
  <1>2. BackOK'
    BY ModeOfPreset, ModeType DEF BackOK, Back, FirstOK, StepOK, RowOK, Noted, At, Idle, Active, Others, Modes
  <1> QED
    BY <1>1, <1>2

LEMMA InsertBack ==
  ASSUME SInv, Insert
  PROVE  FirstOK' /\ BackOK'
  <1> USE NoneNotMode DEF SInv, IInv, Insert, humanVars, TypeOK
  <1>1. FirstOK'
    BY DEF FirstOK, StepOK, RowOK, At, Idle, Active, Others
  <1>2. BackOK'
    BY ModeOfPreset, ModeType DEF BackOK, Back, FirstOK, StepOK, RowOK, Noted, At, Idle, Active, Others, Modes
  <1> QED
    BY <1>1, <1>2

LEMMA InsertFailsBack ==
  ASSUME SInv, InsertFails
  PROVE  FirstOK' /\ BackOK'
  <1> USE NoneNotMode DEF SInv, IInv, InsertFails, humanVars, TypeOK
  <1>1. FirstOK'
    BY DEF FirstOK, StepOK, RowOK, At, Idle, Active, Others, Goto
  <1>2. BackOK'
    BY ModeOfPreset, ModeType DEF BackOK, Back, FirstOK, StepOK, RowOK, Noted, At, Idle, Active, Others, Modes, Goto
  <1> QED
    BY <1>1, <1>2

LEMMA UndoBack ==
  ASSUME SInv, Undo
  PROVE  FirstOK' /\ BackOK'
  <1> USE NoneNotMode DEF SInv, IInv, Undo, humanVars, TypeOK
  <1>1. FirstOK'
    BY DEF FirstOK, StepOK, RowOK, At, Idle, Active, Others, Swap
  <1>2. BackOK'
    BY ModeOfPreset, ModeType DEF BackOK, Back, FirstOK, StepOK, RowOK, Noted, At, Idle, Active, Others, Modes, Swap
  <1> QED
    BY <1>1, <1>2

LEMMA CancelBack ==
  ASSUME SInv, NEW t \in Timers, Cancel(t)
  PROVE  FirstOK' /\ BackOK'
  <1> USE NoneNotMode DEF SInv, IInv, Cancel, humanVars, TypeOK
  <1>1. Others(t)' = Others(t)
    BY DEF Active, Others
  <1>2. FirstOK'
    <2>1. CASE restore[t] # None /\ Others(t) = {}
      <3>1. op' = [kind |-> "cancel", timer |-> t, step |-> "leave",
                   first |-> Others(t) = {}, mode |-> restore[t]]
        BY <2>1 DEF Begin
      <3>2. op'.timer = t /\ op'.first = (Others(t) = {}) /\ op'.kind = "cancel"
        BY <3>1
      <3>3. Others(op.timer)' = Others(t)
        BY <1>1, <3>2 DEF Others
      <3> QED
        BY <2>1, <3>2, <3>3 DEF FirstOK
    <2>2. CASE ~(restore[t] # None /\ Others(t) = {})
      BY <2>2 DEF FirstOK
    <2> QED
      BY <2>1, <2>2
  <1>3. BackOK'
    BY ModeOfPreset, ModeType DEF BackOK, Back, FirstOK, StepOK, RowOK, Noted, At, Idle, Active, Others, Modes, Begin
  <1> QED
    BY <1>2, <1>3

LEMMA LeaveBack ==
  ASSUME SInv, Leave
  PROVE  FirstOK' /\ BackOK'
  <1> USE NoneNotMode DEF SInv, IInv, Leave, humanVars, TypeOK
  <1>1. FirstOK'
    BY DEF FirstOK, StepOK, RowOK, At, Idle, Active, Others, Swap, Goto
  <1>2. BackOK'
    BY ModeOfPreset, ModeType DEF BackOK, Back, FirstOK, StepOK, RowOK, Noted, At, Idle, Active, Others, Modes, Swap, Goto
  <1> QED
    BY <1>1, <1>2

LEMMA RestoreBack ==
  ASSUME SInv, NEW t \in Timers, Restore(t)
  PROVE  FirstOK' /\ BackOK'
  <1> USE NoneNotMode DEF SInv, IInv, Restore, humanVars, TypeOK
  <1>1. PICK m \in Modes : Inherited(t, m) /\ Begin("restore", t, "row", m)
    OBVIOUS
  <1>2. /\ op'.kind = "restore" /\ op'.timer = t /\ op'.step = "row" /\ op'.mode = m
        /\ op'.first <=> Others(t) = {}
    BY <1>1 DEF Begin
  <1>3. Active' = Active /\ Others(t)' = Others(t) /\ t \notin Active
    BY DEF Active, Others
  <1>4. FirstOK'
    BY <1>2, <1>3 DEF FirstOK, Others
  <1>5. BackOK'
    <2>1. CASE Others(t) = {}
      <3>1. before' = policy /\ m = Mode(policy) /\ Active = {}
        BY <1>1, <1>3, <2>1 DEF Remember, Inherited, Others
      <3> QED
        BY <1>2, <1>3, <3>1 DEF BackOK, Back
    <2>2. CASE Others(t) # {}
      <3>1. before' = before
        BY <2>2 DEF Remember
      <3>2. before # None => m = Mode(before)
        BY <1>1, <2>2 DEF Inherited, BackOK, Noted, Others, Active, At, Idle
      <3>3. ~Back'
        BY <1>2, <2>2 DEF Back, At, Idle
      <3> QED
        BY <1>2, <1>3, <3>1, <3>2, <3>3 DEF BackOK, At, Idle
    <2> QED
      BY <2>1, <2>2
  <1> QED
    BY <1>4, <1>5

LEMMA RestoreRowBack ==
  ASSUME SInv, RestoreRow
  PROVE  FirstOK' /\ BackOK'
  <1> USE NoneNotMode DEF SInv, IInv, RestoreRow, humanVars, TypeOK
  <1>1. FirstOK'
    BY DEF FirstOK, StepOK, RowOK, At, Idle, Active, Others, Goto
  <1>2. BackOK'
    BY ModeOfPreset, ModeType DEF BackOK, Back, FirstOK, StepOK, RowOK, Noted, At, Idle, Active, Others, Modes, Goto
  <1> QED
    BY <1>1, <1>2

LEMMA NoteBack ==
  ASSUME SInv, Note
  PROVE  FirstOK' /\ BackOK'
  <1> USE NoneNotMode DEF SInv, IInv, Note, humanVars, TypeOK
  <1>1. FirstOK'
    BY DEF FirstOK, StepOK, RowOK, At, Idle, Active, Others, Goto
  <1>2. BackOK'
    BY ModeOfPreset, ModeType DEF BackOK, Back, FirstOK, StepOK, RowOK, Noted, At, Idle, Active, Others, Modes, Goto
  <1> QED
    BY <1>1, <1>2

LEMMA EnterAgainBack ==
  ASSUME SInv, EnterAgain
  PROVE  FirstOK' /\ BackOK'
  <1> USE NoneNotMode DEF SInv, IInv, EnterAgain, humanVars, TypeOK
  <1>1. FirstOK'
    BY DEF FirstOK, StepOK, RowOK, At, Idle, Active, Others, Silence
  <1>2. BackOK'
    BY ModeOfPreset, ModeType DEF BackOK, Back, FirstOK, StepOK, RowOK, Noted, At, Idle, Active, Others, Modes, Silence
  <1> QED
    BY <1>1, <1>2

LEMMA NoteFailsBack ==
  ASSUME SInv, NoteFails
  PROVE  FirstOK' /\ BackOK'
  <1> USE NoneNotMode DEF SInv, IInv, NoteFails, humanVars, TypeOK
  <1>1. FirstOK'
    BY DEF FirstOK, StepOK, RowOK, At, Idle, Active, Others
  <1>2. BackOK'
    BY ModeOfPreset, ModeType DEF BackOK, Back, FirstOK, StepOK, RowOK, Noted, At, Idle, Active, Others, Modes
  <1> QED
    BY <1>1, <1>2

LEMMA ClaimBack ==
  ASSUME SInv, NEW t \in Timers, Claim(t)
  PROVE  FirstOK' /\ BackOK'
  <1> USE NoneNotMode DEF SInv, IInv, Claim, humanVars, TypeOK
  <1>1. FirstOK'
    BY DEF FirstOK, StepOK, RowOK, At, Idle, Active, Others
  <1>2. BackOK'
    BY ModeOfPreset, ModeType DEF BackOK, Back, FirstOK, StepOK, RowOK, Noted, At, Idle, Active, Others, Modes
  <1> QED
    BY <1>1, <1>2

LEMMA RetryBack ==
  ASSUME SInv, NEW t \in Timers, Retry(t)
  PROVE  FirstOK' /\ BackOK'
  <1> USE NoneNotMode DEF SInv, IInv, Retry, humanVars, TypeOK
  <1>1. FirstOK'
    BY DEF FirstOK, StepOK, RowOK, At, Idle, Active, Others
  <1>2. BackOK'
    BY ModeOfPreset, ModeType DEF BackOK, Back, FirstOK, StepOK, RowOK, Noted, At, Idle, Active, Others, Modes
  <1> QED
    BY <1>1, <1>2

LEMMA CompleteBack ==
  ASSUME SInv, NEW t \in Timers, Complete(t)
  PROVE  FirstOK' /\ BackOK'
  <1> USE NoneNotMode DEF SInv, IInv, Complete, humanVars, TypeOK
  <1>1. restore[t] # None /\ t \in Active
    BY DEF Noted, Active
  <1>2. PICK s \in {"leave", "finish"} :
          /\ s = "leave" <=> Others(t) = {}
          /\ Begin("complete", t, s, restore[t])
    BY <1>1
  <1>3. /\ op'.kind = "complete" /\ op'.timer = t /\ op'.step = s /\ op'.mode = restore[t]
        /\ op'.first <=> Others(t) = {}
    BY <1>2 DEF Begin
  <1>4. Active' = Active /\ Others(t)' = Others(t)
    BY DEF Active, Others
  <1>5. FirstOK'
    BY <1>2, <1>3, <1>4 DEF FirstOK, Others
  <1>6. ~Back'
    BY <1>2, <1>3 DEF Back, At, Idle
  <1>7. BackOK'
    BY <1>1, <1>3, <1>4, <1>6 DEF BackOK, At, Idle
  <1> QED
    BY <1>5, <1>7

LEMMA FinishBack ==
  ASSUME SInv, Finish
  PROVE  FirstOK' /\ BackOK'
  <1> USE NoneNotMode DEF SInv, IInv, Finish, humanVars, TypeOK
  <1>1. FirstOK'
    BY DEF FirstOK, StepOK, RowOK, At, Idle, Active, Others
  <1>2. BackOK'
    BY ModeOfPreset, ModeType DEF BackOK, Back, FirstOK, StepOK, RowOK, Noted, At, Idle, Active, Others, Modes
  <1> QED
    BY <1>1, <1>2

LEMMA FinishFailsBack ==
  ASSUME SInv, FinishFails
  PROVE  FirstOK' /\ BackOK'
  <1> USE NoneNotMode DEF SInv, IInv, FinishFails, humanVars, TypeOK
  <1>1. FirstOK'
    BY DEF FirstOK, StepOK, RowOK, At, Idle, Active, Others
  <1>2. BackOK'
    BY ModeOfPreset, ModeType DEF BackOK, Back, FirstOK, StepOK, RowOK, Noted, At, Idle, Active, Others, Modes
  <1> QED
    BY <1>1, <1>2

LEMMA InterruptBack ==
  ASSUME SInv, NotCut, Interrupt
  PROVE  FirstOK' /\ BackOK'
  <1> USE NoneNotMode DEF SInv, IInv, Interrupt, humanVars, TypeOK
  <1>1. FirstOK'
    BY DEF FirstOK, StepOK, RowOK, At, Idle, Active, Others, Kept, NotCut
  <1>2. BackOK'
    BY ModeOfPreset, ModeType DEF BackOK, Back, FirstOK, StepOK, RowOK, Noted, At, Idle, Active, Others, Modes, Kept, NotCut
  <1> QED
    BY <1>1, <1>2

LEMMA RestartBack ==
  ASSUME SInv, NotCut, Restart
  PROVE  FirstOK' /\ BackOK'
  <1> USE NoneNotMode DEF SInv, IInv, Restart, humanVars, TypeOK
  <1>1. FirstOK'
    BY DEF FirstOK, StepOK, RowOK, At, Idle, Active, Others, Kept, NotCut
  <1>2. BackOK'
    BY ModeOfPreset, ModeType DEF BackOK, Back, FirstOK, StepOK, RowOK, Noted, At, Idle, Active, Others, Modes, Kept, NotCut
  <1> QED
    BY <1>1, <1>2

LEMMA ChangeBack ==
  ASSUME SInv, NEW p \in Policies, Change(p)
  PROVE  FirstOK' /\ BackOK'
  <1> USE NoneNotMode DEF SInv, IInv, Change, humanVars, TypeOK
  <1>1. FirstOK'
    BY DEF FirstOK, StepOK, RowOK, At, Idle, Active, Others
  <1>2. BackOK'
    BY ModeOfPreset, ModeType DEF BackOK, Back, FirstOK, StepOK, RowOK, Noted, At, Idle, Active, Others, Modes
  <1> QED
    BY <1>1, <1>2

LEMMA InitSInv == Init => SInv
  <1> SUFFICES ASSUME Init PROVE SInv
    OBVIOUS
  <1>1. FirstOK /\ BackOK
    BY DEF Init, FirstOK, BackOK
  <1> QED
    BY <1>1, InitIInv DEF SInv

LEMMA NextSInv ==
  ASSUME SInv, NotCut, [Next]_vars
  PROVE  SInv'
  <1> IInv'
    BY NextIInv DEF SInv
  <1>1. CASE \E t \in Timers : Create(t) \/ Cancel(t) \/ Restore(t)
                            \/ Claim(t) \/ Retry(t) \/ Complete(t)
    BY <1>1, CreateBack, CancelBack, RestoreBack, ClaimBack, RetryBack, CompleteBack DEF SInv
  <1>2. CASE EnterNew \/ Refuse \/ Insert \/ InsertFails \/ Undo \/ Leave
    BY <1>2, EnterNewBack, RefuseBack, InsertBack, InsertFailsBack, UndoBack, LeaveBack DEF SInv
  <1>3. CASE RestoreRow \/ Note \/ EnterAgain \/ NoteFails
    BY <1>3, RestoreRowBack, NoteBack, EnterAgainBack, NoteFailsBack DEF SInv
  <1>4. CASE Finish \/ FinishFails \/ Interrupt \/ Restart
    BY <1>4, FinishBack, FinishFailsBack, InterruptBack, RestartBack DEF SInv
  <1>5. CASE \E p \in Policies : Change(p)
    BY <1>5, ChangeBack DEF SInv
  <1>6. CASE UNCHANGED vars
    BY <1>6 DEF SInv, FirstOK, BackOK, Back, At, Active, Others, vars, humanVars
  <1> QED
    BY <1>1, <1>2, <1>3, <1>4, <1>5, <1>6 DEF Next

-------------------------------------------------------------------------------
(* The theorems                                                            *)

\* The invariant holds in every state the program reaches.
THEOREM InvariantHolds ==
  ASSUME NotCut
  PROVE  Spec => []IInv
  <1>1. Init => IInv
    BY InitIInv
  <1>2. IInv /\ [Next]_vars => IInv'
    BY NextIInv
  <1> QED
    BY <1>1, <1>2, PTL DEF Spec

\* The rows and the running operation are what the code can hold.
THEOREM TypeCorrect ==
  ASSUME NotCut
  PROVE  Spec => []TypeOK
  <1>1. IInv => TypeOK
    BY DEF IInv
  <1> QED
    BY <1>1, InvariantHolds, PTL

\* No end of a session leaves the events-only mode in force, unless people had
\* chosen it, though rows fail to be written and completions are cut short.
THEOREM NothingLeftBehindHolds ==
  ASSUME NotCut
  PROVE  Spec => []NothingLeftBehind
  <1>1. IInv => NothingLeftBehind
    BY DEF IInv, LastOK, Owned, NothingLeftBehind, Quiet
  <1> QED
    BY <1>1, InvariantHolds, PTL

LEMMA SInvariantHolds ==
  ASSUME NotCut
  PROVE  Spec => []SInv
  <1>1. SInv /\ [Next]_vars => SInv'
    BY NextSInv
  <1> QED
    BY InitSInv, <1>1, PTL DEF Spec

\* When nobody touched the policy since the first of the sessions that overlap
\* read it, its mode is in force again after the last, in whatever order they
\* are created, cancelled, restored and completed.
THEOREM ModeRestoredHolds ==
  ASSUME NotCut
  PROVE  Spec => []ModeRestored
  <1>1. SInv => ModeRestored
    BY DEF SInv, BackOK, Back, ModeRestored, Quiet
  <1> QED
    BY <1>1, SInvariantHolds, PTL

\* While people leave the policy alone, the events-only mode ends with the last
\* session only, and a mode they chose meanwhile outlives the end of the
\* sessions: only the beginning of one replaces it.
THEOREM SwapsJustifiedHolds ==
  ASSUME NotCut
  PROVE  Spec => SwapsJustified
  <1>1. ASSUME SInv, [Next]_vars, changes' = changes
        PROVE  IF Mode(policy) = "events"
               THEN Mode(policy') # "events" => Active \subseteq {op.timer}
               ELSE policy' = policy \/ op.step = "enter"
    <2>1. CASE EnterNew \/ EnterAgain
      <3>1. op.step = "enter" /\ policy' = Preset("events")
        BY <2>1 DEF EnterNew, EnterAgain, At, Silence
      <3>2. Mode(policy') = "events"
        BY <3>1, ModeOfPreset DEF Modes
      <3> QED
        BY <3>1, <3>2
    <2>2. CASE Undo \/ Leave
      <3>1. op.step \in {"undo", "leave"} /\ Swap(op.mode)
        BY <2>2 DEF Undo, Leave, At
      <3>2. op # Idle
        BY <3>1 DEF Idle
      <3>3. Others(op.timer) = {}
        BY <1>1, <3>1, <3>2 DEF SInv, FirstOK
      <3>4. Active \subseteq {op.timer}
        BY <3>3 DEF Others
      <3> QED
        BY <3>1, <3>4 DEF Swap
    <2>3. CASE \E p \in Policies : Change(p)
      BY <1>1, <2>3 DEF SInv, IInv, TypeOK, Change
    <2>4. CASE UNCHANGED policy
      BY <2>4
    <2> QED
      BY <1>1, <2>1, <2>2, <2>3, <2>4 DEF Next, vars, Create, Refuse, Insert, InsertFails,
         Cancel, Restore, RestoreRow, Note, NoteFails, Claim, Retry, Complete, Finish,
         FinishFails, Interrupt, Restart
  <1>2. SInv /\ [Next]_vars =>
          [changes' = changes =>
             IF Mode(policy) = "events"
             THEN Mode(policy') # "events" => Active \subseteq {op.timer}
             ELSE policy' = policy \/ op.step = "enter"]_vars
    BY <1>1
  <1> QED
    BY <1>2, SInvariantHolds, PTL DEF Spec, SwapsJustified

-------------------------------------------------------------------------------
(* The scheduler of speech                                                 *)

Futures == {"none", "pending", "done", "failed", "cancelled"}

SpeechTypeOK ==
    /\ queues \in [Guilds -> Seq(Speeches)]
    /\ ring \in Seq(Guilds)
    /\ busy \subseteq Guilds
    /\ task \in [Workers -> {"none", "look", "asleep", "serves", "ended"}]
    /\ hand \in [Workers -> SUBSET Speeches]
    /\ closed \in {"no", "closing", "closed"}
    /\ call \in [Speeches -> {"idle", "waits", "quitting", "returned", "raised", "cancelled"}]
    /\ job \in [Speeches -> {"none", "new", "waits", "over"}]
    /\ promise \in [Speeches -> Futures]
    /\ ready \in [Speeches -> Futures \ {"none"}]
    /\ stream \in [Speeches -> {"none", "new", "speaking", "writing"} \union Ended]
    /\ stopped \subseteq Speeches
    /\ file \in [Speeches -> {"none", "there", "gone"}]
    /\ quit \subseteq Speeches
    /\ late \subseteq Speeches

In(q, x) == \E i \in DOMAIN q : q[i] = x
Once(q) == \A i, j \in DOMAIN q : q[i] = q[j] => i = j

\* The queues hold requests of their guild, once, that no worker has had yet.
QueuesOK ==
    \A g \in Guilds :
        /\ Once(queues[g])
        /\ \A s \in Speeches : In(queues[g], s) =>
            /\ GuildOf[s] = g /\ s \notin Serving
            /\ promise[s] \in {"pending", "cancelled"} /\ stream[s] = "none"

\* A worker that serves has one request in hand, which is its own.
HandsOK ==
    /\ \A k \in Workers : IF task[k] = "serves" THEN \E s \in Speeches : hand[k] = {s} ELSE hand[k] = {}
    /\ \A k, l \in Workers : \A s \in hand[k] : s \in hand[l] => k = l
    /\ closed = "closed" => Serving = {}

\* Nothing is in the scheduler of a request that has not entered it.
FreshOK ==
    \A s \in Speeches :
        /\ call[s] = "idle" => promise[s] = "none" /\ job[s] = "none"
        /\ job[s] = "new" => promise[s] = "none"
        /\ promise[s] = "none" => stream[s] = "none" /\ s \notin Serving
        /\ s \notin Streams => stream[s] = "none" /\ job[s] = "none"
        /\ s \notin Streams /\ call[s] # "idle" => promise[s] # "none"

RInv == SpeechTypeOK /\ QueuesOK /\ HandsOK /\ FreshOK /\ RingExact

\* What a cancellation may come from.
Blame(s) == s \in quit \/ closed # "no"

BlameOK ==
    /\ \A s \in Speeches : call[s] \in {"quitting", "cancelled"} => Blame(s)
    /\ \A s \in Speeches \ Streams : promise[s] = "cancelled" => Blame(s)
    /\ \A s \in Streams :
        /\ ready[s] = "cancelled" => Blame(s)
        /\ promise[s] = "cancelled" => Blame(s) \/ ready[s] # "pending"
        /\ s \in stopped => ready[s] = "done" \/ closed # "no"
        /\ call[s] = "returned" => ready[s] = "done"

\* Whose a producer's file is.
FileOK ==
    \A s \in Streams :
        /\ stream[s] \in {"none", "new"} => file[s] = "none"
        /\ stream[s] \in {"new", "speaking", "writing"} => promise[s] # "failed"
        /\ ready[s] = "failed" => stream[s] \in Ended \/ promise[s] = "failed"
        /\ call[s] \in {"quitting", "raised", "cancelled"} =>
            ready[s] # "pending" /\ (ready[s] = "done" => s \in late)
        /\ stream[s] \in Ended /\ file[s] = "there" => ready[s] = "done" \/ s \in late

AInv == RInv /\ BlameOK /\ FileOK

-------------------------------------------------------------------------------
(* Sequences                                                               *)

LEMMA OnceAppend ==
  ASSUME NEW S, NEW q \in Seq(S), NEW x \in S
  PROVE  /\ Append(q, x) \in Seq(S) /\ Append(q, x) # <<>>
         /\ \A y : In(Append(q, x), y) <=> In(q, y) \/ y = x
         /\ Once(q) /\ ~In(q, x) => Once(Append(q, x))
  <1>1. /\ Append(q, x) \in Seq(S) /\ Len(Append(q, x)) = Len(q) + 1 /\ Len(q) \in Nat
        /\ \A i \in 1 .. Len(q) : Append(q, x)[i] = q[i]
        /\ Append(q, x)[Len(q) + 1] = x
    OBVIOUS
  <1>2. /\ DOMAIN q = 1 .. Len(q) /\ DOMAIN Append(q, x) = 1 .. Len(q) + 1
    BY <1>1
  <1>3. \A y : In(Append(q, x), y) <=> In(q, y) \/ y = x
    BY <1>1, <1>2 DEF In
  <1>4. Once(q) /\ ~In(q, x) => Once(Append(q, x))
    BY <1>1, <1>2 DEF In, Once
  <1> QED
    BY <1>1, <1>3, <1>4

LEMMA OnceTail ==
  ASSUME NEW S, NEW q \in Seq(S), q # <<>>, Once(q)
  PROVE  /\ Head(q) \in S /\ Tail(q) \in Seq(S)
         /\ In(q, Head(q)) /\ Once(Tail(q))
         /\ \A y : In(Tail(q), y) <=> In(q, y) /\ y # Head(q)
  <1>1. /\ Head(q) \in S /\ Head(q) = q[1] /\ Tail(q) \in Seq(S)
        /\ Len(q) \in Nat \ {0} /\ Len(Tail(q)) = Len(q) - 1
        /\ \A i \in 1 .. Len(q) - 1 : Tail(q)[i] = q[i + 1]
    OBVIOUS
  <1>2. DOMAIN q = 1 .. Len(q) /\ DOMAIN Tail(q) = 1 .. Len(q) - 1
    BY <1>1
  <1>3. In(q, Head(q)) /\ Once(Tail(q))
    BY <1>1, <1>2 DEF In, Once
  <1>4. ASSUME NEW y, In(Tail(q), y)
        PROVE  In(q, y) /\ y # Head(q)
    BY <1>1, <1>2, <1>4 DEF In, Once
  <1>5. ASSUME NEW y, In(q, y), y # Head(q)
        PROVE  In(Tail(q), y)
    <2>1. PICK i \in 1 .. Len(q) : q[i] = y
      BY <1>2, <1>5 DEF In
    <2>2. i - 1 \in 1 .. Len(q) - 1 /\ Tail(q)[i - 1] = y
      BY <1>1, <1>5, <2>1
    <2> QED
      BY <1>2, <2>2 DEF In
  <1> QED
    BY <1>1, <1>3, <1>4, <1>5

-------------------------------------------------------------------------------
(* The ring                                                                *)

\* The ring in terms of Once and In.
LEMMA RingAs ==
  RingExact <=>
    /\ Once(ring)
    /\ \A g \in Guilds : In(ring, g) <=> queues[g] # <<>> /\ g \notin busy
    /\ busy = {GuildOf[s] : s \in Serving}
    /\ \A s, t \in Serving : GuildOf[s] = GuildOf[t] => s = t
  BY DEF RingExact, Once, In

\* Whoever is woken did not serve.
LEMMA NotifiedTasks ==
  ASSUME NEW workers \in [Workers -> {"none", "look", "asleep", "serves", "ended"}],
         NEW new \in Notified(workers)
  PROVE  /\ new \in [Workers -> {"none", "look", "asleep", "serves", "ended"}]
         /\ \A k \in Workers : new[k] = "serves" <=> workers[k] = "serves"
  BY DEF Notified, With

\* A step that leaves the scheduler alone, and at most cancels futures that wait.
LEMMA AsideRing ==
  ASSUME RInv, SpeechTypeOK', FreshOK', UNCHANGED <<queues, ring, busy, task, hand, closed>>,
         \A s \in Speeches : promise'[s] = promise[s] \/ promise'[s] = "cancelled",
         \A s \in Speeches : stream[s] = "none" => stream'[s] = "none"
  PROVE  RInv'
  <1> USE DEF RInv
  <1>1. Serving' = Serving
    BY DEF Serving
  <1>2. QueuesOK'
    BY <1>1 DEF QueuesOK
  <1>3. HandsOK'
    BY <1>1 DEF HandsOK
  <1>4. RingExact'
    BY <1>1 DEF RingExact
  <1> QED
    BY <1>2, <1>3, <1>4

\* A request enters: it is offered unless its guild is in the ring or served.
LEMMA EnqueueRing ==
  ASSUME RInv, SpeechTypeOK', FreshOK', NEW s \in Speeches, promise[s] = "none", Enqueue(s),
         UNCHANGED <<busy, hand, closed, stream>>
  PROVE  RInv'
  <1> USE SpeechAssumption DEF RInv
  <1> DEFINE g == GuildOf[s]
  <1>1. g \in Guilds
    OBVIOUS
  <1>2. Serving' = Serving /\ s \notin Serving
    BY DEF Serving, FreshOK
  <1>3. CASE closed # "no"
    <2>1. promise' = With(promise, s, "failed") /\ UNCHANGED <<queues, ring, task>>
      BY <1>3 DEF Enqueue
    <2>2. \A h \in Guilds : ~In(queues[h], s)
      BY DEF QueuesOK
    <2>3. QueuesOK'
      BY <1>2, <2>1, <2>2 DEF QueuesOK, With, SpeechTypeOK
    <2>4. HandsOK' /\ RingExact'
      BY <1>2, <2>1 DEF HandsOK, RingExact
    <2> QED
      BY <2>3, <2>4
  <1>4. CASE closed = "no"
    <2>1. /\ promise' = With(promise, s, "pending")
          /\ queues' = [queues EXCEPT ![g] = Append(@, s)]
          /\ ring' = IF Offered(g) THEN Append(ring, g) ELSE ring
          /\ task' \in Notified(Ensured)
      BY <1>4 DEF Enqueue
    <2>2. /\ \A h \in Guilds : queues'[h] = IF h = g THEN Append(queues[g], s) ELSE queues[h]
          /\ \A t \in Speeches : promise'[t] = IF t = s THEN "pending" ELSE promise[t]
      BY <1>1, <2>1 DEF SpeechTypeOK, With
    <2>3. \A h \in Guilds : ~In(queues[h], s)
      BY DEF QueuesOK
    <2>4. /\ queues'[g] # <<>> /\ Once(queues'[g])
          /\ \A t : In(queues'[g], t) <=> In(queues[g], t) \/ t = s
      <3>1. queues[g] \in Seq(Speeches) /\ Once(queues[g]) /\ ~In(queues[g], s)
        BY <1>1, <2>3 DEF SpeechTypeOK, QueuesOK
      <3>2. queues'[g] = Append(queues[g], s)
        BY <1>1, <2>2
      <3> QED
        BY <3>1, <3>2, OnceAppend
    <2>5. QueuesOK'
      <3> SUFFICES ASSUME NEW h \in Guilds
                   PROVE  /\ Once(queues'[h])
                          /\ \A t \in Speeches : In(queues'[h], t) =>
                              /\ GuildOf[t] = h /\ t \notin Serving
                              /\ promise'[t] \in {"pending", "cancelled"} /\ stream[t] = "none"
        BY <1>2 DEF QueuesOK, Once, In
      <3>1. CASE h = g
        BY <1>2, <2>2, <2>4, <3>1 DEF QueuesOK, FreshOK
      <3>2. CASE h # g
        BY <2>2, <2>3, <3>2 DEF QueuesOK
      <3> QED
        BY <3>1, <3>2
    <2>6. HandsOK'
      <3>1. /\ Ensured \in [Workers -> {"none", "look", "asleep", "serves", "ended"}]
            /\ \A k \in Workers : Ensured[k] = "serves" <=> task[k] = "serves"
        BY DEF Ensured, SpeechTypeOK
      <3>2. \A k \in Workers : task'[k] = "serves" <=> task[k] = "serves"
        BY <2>1, <3>1, NotifiedTasks
      <3> QED
        BY <1>2, <3>2 DEF HandsOK
    <2>7. RingExact'
      <3>1. Once(ring) /\ \A h \in Guilds : In(ring, h) <=> queues[h] # <<>> /\ h \notin busy
        BY RingAs
      <3>2. /\ Once(ring')
            /\ \A h \in Guilds : In(ring', h) <=> queues'[h] # <<>> /\ h \notin busy
        <4>1. CASE Offered(g)
          <5>1. ring' = Append(ring, g) /\ ~In(ring, g) /\ g \notin busy
            BY <1>1, <2>1, <3>1, <4>1 DEF Offered
          <5>2. Once(ring') /\ \A h : In(ring', h) <=> In(ring, h) \/ h = g
            BY <1>1, <3>1, <5>1, OnceAppend DEF SpeechTypeOK
          <5> QED
            BY <2>2, <2>4, <3>1, <5>1, <5>2
        <4>2. CASE ~Offered(g)
          BY <2>1, <2>2, <2>4, <3>1, <4>2 DEF Offered
        <4> QED
          BY <4>1, <4>2
      <3>3. /\ \A i, j \in DOMAIN ring' : ring'[i] = ring'[j] => i = j
            /\ \A h \in Guilds :
                (\E i \in DOMAIN ring' : ring'[i] = h) <=> queues'[h] # <<>> /\ h \notin busy
        BY <3>2 DEF Once, In
      <3> QED
        BY <1>2, <3>3 DEF RingExact
    <2> QED
      BY <2>5, <2>6, <2>7
  <1> QED
    BY <1>3, <1>4

\* A guild is let go: it is put behind the others if it has more.
LEMMA FreedRing ==
  ASSUME RInv, SpeechTypeOK', NEW g \in Guilds, NEW order \in Seq(Guilds),
         NEW workers \in [Workers -> {"none", "look", "asleep", "serves", "ended"}],
         Once(order), \A h \in Guilds : In(order, h) <=> In(ring, h) /\ h # g,
         \A h \in Guilds \ {g} : queues'[h] = queues[h],
         Freed(g, order, workers)
  PROVE  /\ busy' = busy \ {g}
         /\ Once(ring')
         /\ \A h \in Guilds : In(ring', h) <=> queues'[h] # <<>> /\ h \notin busy'
         /\ \A k \in Workers : task'[k] = "serves" <=> workers[k] = "serves"
  <1>1. busy' = busy \ {g}
    BY DEF Freed
  <1>2. \A h \in Guilds : In(ring, h) <=> queues[h] # <<>> /\ h \notin busy
    BY RingAs DEF RInv
  <1>3. CASE queues'[g] = <<>>
    <2>1. ring' = order /\ task' = workers
      BY <1>3 DEF Freed
    <2> QED
      BY <1>1, <1>2, <1>3, <2>1
  <1>4. CASE queues'[g] # <<>>
    <2>1. ring' = Append(order, g) /\ task' \in Notified(workers)
      BY <1>4 DEF Freed
    <2>2. ~In(order, g)
      OBVIOUS
    <2>3. Once(ring') /\ \A h : In(ring', h) <=> In(order, h) \/ h = g
      BY <2>1, <2>2, OnceAppend
    <2>4. \A k \in Workers : task'[k] = "serves" <=> workers[k] = "serves"
      BY <2>1, NotifiedTasks
    <2> QED
      BY <1>1, <1>2, <1>4, <2>3, <2>4
  <1> QED
    BY <1>1, <1>3, <1>4

LEMMA LookRing ==
  ASSUME RInv, SpeechTypeOK', FreshOK', NEW k \in Workers, Look(k)
  PROVE  RInv'
  <1> USE SpeechAssumption DEF RInv
  <1>1. /\ task[k] = "look" /\ hand[k] = {}
        /\ UNCHANGED <<closed, call, job, quit, promise, ready, stopped, file, late>>
    BY DEF Look, HandsOK, unchangedCalls
  <1>2. CASE closed # "no" \/ ring = <<>>
    <2>1. /\ UNCHANGED <<queues, ring, busy, hand, stream>>
          /\ task' = With(task, k, "ended") \/ task' = With(task, k, "asleep")
      BY <1>2 DEF Look, unchangedQueue
    <2>2. Serving' = Serving
      BY <2>1 DEF Serving
    <2>3. QueuesOK' /\ RingExact'
      BY <1>1, <2>1, <2>2 DEF QueuesOK, RingExact
    <2>4. HandsOK'
      <3>1. \A l \in Workers : task'[l] = "serves" <=> task[l] = "serves"
        BY <1>1, <2>1 DEF With, SpeechTypeOK
      <3> QED
        BY <1>1, <2>1, <2>2, <3>1 DEF HandsOK
    <2> QED
      BY <2>3, <2>4
  <1>3. CASE closed = "no" /\ ring # <<>>
    <2> DEFINE g == Head(ring)
               s == Head(queues[g])
    <2>1. /\ queues' = [queues EXCEPT ![g] = Tail(@)]
          /\ IF promise[s] = "cancelled"
             THEN Freed(g, Tail(ring), task) /\ UNCHANGED <<hand, stream>>
             ELSE /\ ring' = Tail(ring) /\ busy' = busy \union {g}
                  /\ task' = With(task, k, "serves") /\ hand' = With(hand, k, {s})
                  /\ stream' = IF s \in Streams THEN With(stream, s, "new") ELSE stream
      BY <1>3 DEF Look
    <2>2. /\ g \in Guilds /\ In(ring, g) /\ Tail(ring) \in Seq(Guilds) /\ Once(Tail(ring))
          /\ \A h \in Guilds : In(Tail(ring), h) <=> In(ring, h) /\ h # g
      BY <1>3, RingAs, OnceTail DEF SpeechTypeOK
    <2>3. queues[g] # <<>> /\ g \notin busy
      BY <2>2, RingAs
    <2>4. queues[g] \in Seq(Speeches) /\ Once(queues[g])
      BY <2>2 DEF QueuesOK, SpeechTypeOK
    <2>5. /\ s \in Speeches /\ In(queues[g], s) /\ Once(Tail(queues[g]))
          /\ \A t : In(Tail(queues[g]), t) <=> In(queues[g], t) /\ t # s
      BY <2>3, <2>4, OnceTail
    <2>6. \A h \in Guilds : queues'[h] = IF h = g THEN Tail(queues[g]) ELSE queues[h]
      BY <2>1, <2>2 DEF SpeechTypeOK
    <2>7. GuildOf[s] = g /\ s \notin Serving /\ stream[s] = "none"
      BY <2>2, <2>5 DEF QueuesOK
    <2>8. \A h \in Guilds : Once(queues'[h]) /\ \A t \in Speeches : In(queues'[h], t) <=> In(queues[h], t) /\ t # s
      <3> TAKE h \in Guilds
      <3>1. CASE h = g
        BY <2>5, <2>6, <3>1
      <3>2. CASE h # g
        <4>1. queues'[h] = queues[h]
          BY <2>6, <3>2
        <4>2. ~In(queues[h], s)
          BY <2>5, <2>7, <3>2 DEF QueuesOK
        <4> QED
          BY <4>1, <4>2 DEF QueuesOK
      <3> QED
        BY <3>1, <3>2
    <2>9. CASE promise[s] = "cancelled"
      <3>1. Freed(g, Tail(ring), task) /\ UNCHANGED <<hand, stream>>
        BY <2>1, <2>9
      <3>2. Serving' = Serving
        BY <3>1 DEF Serving
      <3>3. QueuesOK'
        BY <1>1, <2>8, <3>1, <3>2 DEF QueuesOK, Once, In
      <3>4. /\ busy' = busy \ {g} /\ Once(ring')
            /\ \A h \in Guilds : In(ring', h) <=> queues'[h] # <<>> /\ h \notin busy'
            /\ \A l \in Workers : task'[l] = "serves" <=> task[l] = "serves"
        <4>1. task \in [Workers -> {"none", "look", "asleep", "serves", "ended"}]
          BY DEF SpeechTypeOK
        <4>2. \A h \in Guilds \ {g} : queues'[h] = queues[h]
          BY <2>6
        <4> QED
          BY <2>2, <3>1, <4>1, <4>2, FreedRing
      <3>5. HandsOK'
        BY <1>1, <3>1, <3>2, <3>4 DEF HandsOK
      <3>6. busy' = busy
        BY <2>3, <3>4
      <3>7. RingExact'
        BY <3>2, <3>4, <3>6 DEF RingExact, Once, In
      <3> QED
        BY <3>3, <3>5, <3>7
    <2>10. CASE promise[s] # "cancelled"
      <3>1. /\ ring' = Tail(ring) /\ busy' = busy \union {g}
            /\ task' = With(task, k, "serves") /\ hand' = With(hand, k, {s})
            /\ stream' = IF s \in Streams THEN With(stream, s, "new") ELSE stream
        BY <2>1, <2>10
      <3>2. \A l \in Workers : /\ hand'[l] = IF l = k THEN {s} ELSE hand[l]
                               /\ task'[l] = IF l = k THEN "serves" ELSE task[l]
        BY <3>1 DEF SpeechTypeOK, With
      <3>3. Serving' = Serving \union {s}
        BY <1>1, <3>2 DEF Serving
      <3>4. \A t \in Speeches \ {s} : stream'[t] = stream[t]
        BY <3>1 DEF SpeechTypeOK, With
      <3>5. QueuesOK'
        BY <1>1, <2>8, <3>3, <3>4 DEF QueuesOK, Once, In
      <3>6. HandsOK'
        <4>1. \A l \in Workers : s \notin hand[l]
          BY <2>7 DEF Serving
        <4> QED
          BY <1>1, <1>3, <2>5, <3>2, <4>1 DEF HandsOK
      <3>7. RingExact'
        <4>1. Once(ring') /\ \A h \in Guilds : In(ring', h) <=> In(ring, h) /\ h # g
          BY <2>2, <3>1
        <4>2. \A h \in Guilds : In(ring', h) <=> queues'[h] # <<>> /\ h \notin busy'
          BY <2>6, <3>1, <4>1, RingAs
        <4>3. busy' = {GuildOf[t] : t \in Serving'}
          BY <2>7, <3>1, <3>3 DEF RingExact
        <4>4. \A t, u \in Serving' : GuildOf[t] = GuildOf[u] => t = u
          BY <2>3, <2>7, <3>3 DEF RingExact
        <4> QED
          BY <4>1, <4>2, <4>3, <4>4 DEF RingExact, Once, In
      <3> QED
        BY <3>5, <3>6, <3>7
    <2> QED
      BY <2>9, <2>10
  <1> QED
    BY <1>2, <1>3 DEF SpeechTypeOK

LEMMA SettleRing ==
  ASSUME RInv, SpeechTypeOK', FreshOK', NEW k \in Workers, Settle(k)
  PROVE  RInv'
  <1> USE SpeechAssumption DEF RInv
  <1>1. PICK s \in hand[k] : \E outcome \in Outcomes(s) :
          /\ promise' = Resolved(promise, s, outcome)
          /\ UNCHANGED queues
          /\ Freed(GuildOf[s], ring, With(task, k, IF outcome = "cancelled" THEN "ended" ELSE "look"))
    BY DEF Settle
  <1>2. PICK outcome \in Outcomes(s) :
          /\ promise' = Resolved(promise, s, outcome)
          /\ UNCHANGED queues
          /\ Freed(GuildOf[s], ring, With(task, k, IF outcome = "cancelled" THEN "ended" ELSE "look"))
    BY <1>1
  <1> DEFINE g == GuildOf[s]
             workers == With(task, k, IF outcome = "cancelled" THEN "ended" ELSE "look")
  <1>3. /\ task[k] = "serves" /\ hand' = With(hand, k, {})
        /\ UNCHANGED <<closed, call, job, quit, ready, stream, stopped, file, late>>
    BY DEF Settle, unchangedCalls, unchangedStreams
  <1>4. s \in Speeches /\ g \in Guilds /\ hand[k] = {s} /\ s \in Serving
    BY <1>3 DEF SpeechTypeOK, HandsOK, Serving
  <1>5. g \in busy
    BY <1>4 DEF RingExact
  <1>6. \A l \in Workers : hand'[l] = IF l = k THEN {} ELSE hand[l]
    BY <1>3 DEF SpeechTypeOK, With
  <1>7. Serving' = Serving \ {s}
    <2>1. \A l \in Workers : l # k => s \notin hand[l]
      BY <1>4 DEF HandsOK
    <2> QED
      BY <1>4, <1>6, <2>1 DEF Serving
  <1>8. \A t \in Speeches : promise'[t] = IF t = s THEN promise'[s] ELSE promise[t]
    BY <1>2, <1>4 DEF Resolved, With, SpeechTypeOK
  <1>9. QueuesOK'
    <2>1. \A h \in Guilds : ~In(queues[h], s)
      BY <1>4 DEF QueuesOK
    <2> QED
      BY <1>2, <1>3, <1>7, <1>8, <2>1 DEF QueuesOK
  <1>10. /\ workers \in [Workers -> {"none", "look", "asleep", "serves", "ended"}]
         /\ \A l \in Workers : workers[l] = "serves" <=> task[l] = "serves" /\ l # k
    BY DEF SpeechTypeOK, With
  <1>11. /\ busy' = busy \ {g} /\ Once(ring')
         /\ \A h \in Guilds : In(ring', h) <=> queues'[h] # <<>> /\ h \notin busy'
         /\ \A l \in Workers : task'[l] = "serves" <=> workers[l] = "serves"
    <2>1. ring \in Seq(Guilds) /\ Once(ring)
      BY RingAs DEF SpeechTypeOK
    <2>2. \A h \in Guilds : In(ring, h) <=> In(ring, h) /\ h # g
      BY <1>4, <1>5, RingAs
    <2>3. \A h \in Guilds \ {g} : queues'[h] = queues[h]
      BY <1>2
    <2>4. Freed(g, ring, workers)
      BY <1>2
    <2> HIDE DEF workers
    <2> QED
      BY <1>4, <1>10, <2>1, <2>2, <2>3, <2>4, FreedRing
  <1>12. HandsOK'
    BY <1>3, <1>6, <1>7, <1>10, <1>11 DEF HandsOK
  <1>13. RingExact'
    <2>1. busy' = {GuildOf[t] : t \in Serving'}
      BY <1>4, <1>7, <1>11 DEF RingExact
    <2>2. \A t, u \in Serving' : GuildOf[t] = GuildOf[u] => t = u
      BY <1>7 DEF RingExact
    <2> QED
      BY <1>11, <2>1, <2>2 DEF RingExact, Once, In
  <1> QED
    BY <1>9, <1>12, <1>13

LEMMA CloseRing ==
  ASSUME RInv, SpeechTypeOK', FreshOK', Close
  PROVE  RInv'
  <1> USE DEF RInv
  <1>1. UNCHANGED <<queues, ring, busy, hand, promise, stream>> /\ closed' = "closing"
    BY DEF Close, unchangedQueue
  <1>2. Serving' = Serving
    BY <1>1 DEF Serving
  <1>3. \A k \in Workers : task'[k] = "serves" <=> task[k] = "serves"
    BY DEF Close
  <1> QED
    BY <1>1, <1>2, <1>3 DEF QueuesOK, HandsOK, RingExact

LEMMA CloseEndsRing ==
  ASSUME RInv, SpeechTypeOK', FreshOK', CloseEnds
  PROVE  RInv'
  <1> USE DEF RInv
  <1>1. /\ queues' = [g \in Guilds |-> <<>>] /\ ring' = <<>> /\ busy' = {}
        /\ UNCHANGED <<task, hand>>
    BY DEF CloseEnds
  <1>2. Serving = {} /\ Serving' = {}
    BY <1>1 DEF CloseEnds, Serving, HandsOK
  <1>3. QueuesOK'
    BY <1>1 DEF QueuesOK, Once, In
  <1>4. HandsOK'
    BY <1>1, <1>2 DEF HandsOK
  <1>5. RingExact'
    BY <1>1, <1>2 DEF RingExact
  <1> QED
    BY <1>3, <1>4, <1>5

LEMMA ResolvedAs ==
  ASSUME NEW S, NEW f \in [Speeches -> S], NEW s \in Speeches, NEW what \in S
  PROVE  /\ Resolved(f, s, what) \in [Speeches -> S]
         /\ \A t \in Speeches :
              Resolved(f, s, what)[t] = IF t = s /\ f[s] = "pending" THEN what ELSE f[t]
  BY DEF Resolved, With

LEMMA EnqueueTypes ==
  ASSUME SpeechTypeOK, NEW s \in Speeches, Enqueue(s)
  PROVE  /\ queues' \in [Guilds -> Seq(Speeches)] /\ ring' \in Seq(Guilds)
         /\ task' \in [Workers -> {"none", "look", "asleep", "serves", "ended"}]
         /\ promise' \in [Speeches -> Futures]
         /\ promise'[s] \in {"pending", "failed"}
         /\ promise'[s] = "failed" => closed # "no"
         /\ \A t \in Speeches \ {s} : promise'[t] = promise[t]
  <1> USE SpeechAssumption DEF SpeechTypeOK, Futures
  <1>1. \/ promise' = With(promise, s, "failed") /\ closed # "no"
        \/ promise' = With(promise, s, "pending")
    BY DEF Enqueue
  <1>2. queues' \in [Guilds -> Seq(Speeches)]
    <2> DEFINE g == GuildOf[s]
    <2>1. g \in Guilds /\ Append(queues[g], s) \in Seq(Speeches)
      OBVIOUS
    <2>2. queues' = [queues EXCEPT ![g] = Append(@, s)] \/ queues' = queues
      BY DEF Enqueue
    <2> HIDE DEF g
    <2> QED
      BY <2>1, <2>2
  <1>3. ring' \in Seq(Guilds)
    <2>1. Append(ring, GuildOf[s]) \in Seq(Guilds)
      OBVIOUS
    <2>2. ring' = Append(ring, GuildOf[s]) \/ ring' = ring
      BY DEF Enqueue
    <2> QED
      BY <2>1, <2>2
  <1>4. task' \in [Workers -> {"none", "look", "asleep", "serves", "ended"}]
    <2>1. Ensured \in [Workers -> {"none", "look", "asleep", "serves", "ended"}]
      BY DEF Ensured
    <2>2. task' \in Notified(Ensured) \/ task' = task
      BY DEF Enqueue
    <2>3. CASE task' \in Notified(Ensured)
      BY <2>1, <2>3, NotifiedTasks
    <2> QED
      BY <2>2, <2>3
  <1>5. /\ promise' \in [Speeches -> Futures] /\ promise'[s] \in {"pending", "failed"}
        /\ promise'[s] = "failed" => closed # "no"
        /\ \A t \in Speeches \ {s} : promise'[t] = promise[t]
    BY <1>1 DEF With
  <1> QED
    BY <1>2, <1>3, <1>4, <1>5

LEMMA FreedTypes ==
  ASSUME SpeechTypeOK, NEW g \in Guilds, NEW order \in Seq(Guilds),
         NEW workers \in [Workers -> {"none", "look", "asleep", "serves", "ended"}],
         Freed(g, order, workers)
  PROVE  /\ busy' \subseteq Guilds /\ ring' \in Seq(Guilds)
         /\ task' \in [Workers -> {"none", "look", "asleep", "serves", "ended"}]
  <1>1. busy' \subseteq Guilds
    BY DEF Freed, SpeechTypeOK
  <1>2. ring' \in Seq(Guilds)
    BY DEF Freed
  <1>3. task' = workers \/ task' \in Notified(workers)
    BY DEF Freed
  <1> QED
    BY <1>1, <1>2, <1>3, NotifiedTasks

-------------------------------------------------------------------------------
(* Every step keeps the invariant of the scheduler                         *)

LEMMA AskKeeps ==
  ASSUME AInv, NEW s \in Speeches, Ask(s)
  PROVE  AInv'
  <1> USE SpeechAssumption DEF AInv, RInv, Ask, With, Resolved, Ended, Futures, Enqueue, Notified, Ensured, unchangedStreams
  <1>1. SpeechTypeOK'
    <2>1. CASE s \in Streams
      BY <2>1 DEF SpeechTypeOK
    <2>2. CASE s \notin Streams
      <3> HIDE DEF Enqueue
      <3>1. Enqueue(s) /\ UNCHANGED job
        BY <2>2
      <3> QED
        BY <3>1, EnqueueTypes DEF SpeechTypeOK
    <2> QED
      BY <2>1, <2>2
  <1>2. FreshOK'
    BY <1>1 DEF SpeechTypeOK, FreshOK, QueuesOK, Serving
  <1>3. BlameOK'
    BY <1>1 DEF SpeechTypeOK, FreshOK, BlameOK, Blame
  <1>4. FileOK'
    BY <1>1 DEF SpeechTypeOK, FreshOK, FileOK
  <1>5. RInv'
    BY <1>1, <1>2, EnqueueRing, AsideRing DEF FreshOK
  <1> QED
    BY <1>3, <1>4, <1>5

LEMMA StartJobKeeps ==
  ASSUME AInv, NEW s \in Speeches, StartJob(s)
  PROVE  AInv'
  <1> USE SpeechAssumption DEF AInv, RInv, StartJob, With, Resolved, Ended, Futures, Enqueue, Notified, Ensured, unchangedStreams
  <1>1. SpeechTypeOK'
    <2> HIDE DEF Enqueue
    <2> QED
      BY EnqueueTypes DEF SpeechTypeOK
  <1>2. FreshOK'
    BY <1>1 DEF SpeechTypeOK, FreshOK, QueuesOK, Serving
  <1>3. BlameOK'
    BY <1>1 DEF SpeechTypeOK, FreshOK, BlameOK, Blame
  <1>4. FileOK'
    BY <1>1 DEF SpeechTypeOK, FreshOK, FileOK
  <1>5. RInv'
    BY <1>1, <1>2, EnqueueRing, AsideRing DEF FreshOK
  <1> QED
    BY <1>3, <1>4, <1>5

LEMMA EndJobKeeps ==
  ASSUME AInv, NEW s \in Speeches, EndJob(s)
  PROVE  AInv'
  <1> USE SpeechAssumption DEF AInv, RInv, EndJob, With, Resolved, Ended, Futures, unchangedQueue, Ended
  <1>1. SpeechTypeOK'
    BY DEF SpeechTypeOK
  <1>2. FreshOK'
    BY <1>1 DEF SpeechTypeOK, FreshOK, QueuesOK, Serving
  <1>3. BlameOK'
    BY <1>1 DEF SpeechTypeOK, FreshOK, BlameOK, Blame
  <1>4. FileOK'
    BY <1>1 DEF SpeechTypeOK, FreshOK, FileOK
  <1>5. RInv'
    BY <1>1, <1>2, AsideRing DEF SpeechTypeOK
  <1> QED
    BY <1>3, <1>4, <1>5

LEMMA AnswerKeeps ==
  ASSUME AInv, NEW s \in Speeches, Answer(s)
  PROVE  AInv'
  <1> USE SpeechAssumption DEF AInv, RInv, Answer, With, Resolved, Ended, Futures, Awaited, DropJob, unchangedQueue, unchangedStreams
  <1>1. SpeechTypeOK'
    BY DEF SpeechTypeOK
  <1>2. FreshOK'
    BY <1>1 DEF SpeechTypeOK, FreshOK, QueuesOK, Serving
  <1>3. BlameOK'
    <2>1. /\ \A t \in Speeches \ {s} : promise'[t] = promise[t] /\ call'[t] = call[t]
          /\ promise'[s] = promise[s] \/ (promise'[s] = "cancelled" /\ promise[s] = "pending")
          /\ call'[s] = "returned" => Awaited(s) = "done"
          /\ call'[s] = "cancelled" => Awaited(s) \notin {"pending", "failed", "done"}
          /\ call'[s] # "quitting" /\ Awaited(s) # "pending"
      <3> HIDE DEF Resolved, Awaited
      <3>1. Awaited(s) # "pending"
        OBVIOUS
      <3>2. /\ \A t \in Speeches \ {s} : call'[t] = call[t]
            /\ call'[s] \in {"returned", "raised", "cancelled"}
            /\ call'[s] = "returned" => Awaited(s) = "done"
            /\ call'[s] = "cancelled" => Awaited(s) \notin {"pending", "failed", "done"}
        BY DEF SpeechTypeOK
      <3>3. promise' \in {promise, Resolved(promise, s, "cancelled")}
        OBVIOUS
      <3>4. /\ \A t \in Speeches \ {s} : promise'[t] = promise[t]
            /\ promise'[s] = promise[s] \/ (promise'[s] = "cancelled" /\ promise[s] = "pending")
        <4>1. promise \in [Speeches -> Futures] /\ "cancelled" \in Futures
          BY DEF SpeechTypeOK
        <4> HIDE DEF Futures
        <4>2. \A t \in Speeches : Resolved(promise, s, "cancelled")[t]
                = IF t = s /\ promise[s] = "pending" THEN "cancelled" ELSE promise[t]
          BY <4>1 DEF Resolved, With
        <4> QED
          BY <3>3, <4>2
      <3> QED
        BY <3>1, <3>2, <3>4
    <2>2. UNCHANGED <<ready, stopped, quit, closed>>
      OBVIOUS
    <2> HIDE DEF Answer, Resolved, With, DropJob, RInv
    <2>3. /\ Awaited(s) = IF s \in Streams THEN ready[s] ELSE promise[s]
          /\ ready[s] \in Futures /\ promise[s] \in Futures
      BY DEF SpeechTypeOK, RInv
    <2>4. Awaited(s) = "cancelled" => Blame(s)
      BY <2>3 DEF BlameOK
    <2>5. Awaited(s) \in {"pending", "done", "failed", "cancelled"}
      BY <2>3 DEF FreshOK, SpeechTypeOK, RInv, Answer
    <2>6. \A t \in Speeches : call'[t] \in {"quitting", "cancelled"} => Blame(t)
      BY <2>1, <2>4, <2>5 DEF BlameOK
    <2>7. \A t \in Speeches \ Streams : promise'[t] = "cancelled" => Blame(t)
      BY <2>1, <2>3 DEF BlameOK
    <2>8. \A t \in Streams :
            /\ promise'[t] = "cancelled" => Blame(t) \/ ready[t] # "pending"
            /\ call'[t] = "returned" => ready[t] = "done"
      BY <2>1, <2>3 DEF BlameOK
    <2> QED
      BY <2>2, <2>6, <2>7, <2>8 DEF BlameOK, Blame
  <1>4. FileOK'
    BY <1>1 DEF SpeechTypeOK, FreshOK, FileOK
  <1>5. RInv'
    BY <1>1, <1>2, AsideRing DEF SpeechTypeOK
  <1> QED
    BY <1>3, <1>4, <1>5

LEMMA QuitKeeps ==
  ASSUME AInv, NEW s \in Speeches, Quit(s)
  PROVE  AInv'
  <1> USE SpeechAssumption DEF AInv, RInv, Quit, With, Resolved, Ended, Futures, unchangedQueue
  <1>1. SpeechTypeOK'
    <2>1. /\ call' \in [Speeches -> {"idle", "waits", "quitting", "returned", "raised", "cancelled"}]
          /\ quit' \subseteq Speeches /\ late' \subseteq Speeches
      BY DEF SpeechTypeOK
    <2>2. /\ ready' \in [Speeches -> {"pending", "done", "failed", "cancelled"}]
          /\ promise' \in [Speeches -> Futures]
      <3> DEFINE F == {"pending", "done", "failed", "cancelled"}
      <3>1. ready \in [Speeches -> F] /\ promise \in [Speeches -> Futures]
        BY DEF SpeechTypeOK
      <3>2. /\ Resolved(ready, s, "cancelled") \in [Speeches -> F]
            /\ Resolved(promise, s, "cancelled") \in [Speeches -> Futures]
        BY <3>1, ResolvedAs
      <3> HIDE DEF Resolved
      <3>3. /\ ready' \in {ready, Resolved(ready, s, "cancelled")}
            /\ promise' \in {promise, Resolved(promise, s, "cancelled")}
        OBVIOUS
      <3> HIDE DEF F
      <3> QED
        BY <3>1, <3>2, <3>3 DEF F
    <2> QED
      BY <2>1, <2>2 DEF SpeechTypeOK
  <1>2. FreshOK'
    BY <1>1 DEF SpeechTypeOK, FreshOK, QueuesOK, Serving
  <1>3. BlameOK'
    BY <1>1 DEF SpeechTypeOK, FreshOK, BlameOK, Blame
  <1>4. FileOK'
    BY <1>1 DEF SpeechTypeOK, FreshOK, FileOK
  <1>5. RInv'
    BY <1>1, <1>2, AsideRing DEF SpeechTypeOK
  <1> QED
    BY <1>3, <1>4, <1>5

LEMMA QuitEndsKeeps ==
  ASSUME AInv, NEW s \in Speeches, QuitEnds(s)
  PROVE  AInv'
  <1> USE SpeechAssumption DEF AInv, RInv, QuitEnds, With, Resolved, Ended, Futures, DropJob, unchangedQueue, unchangedStreams
  <1>1. SpeechTypeOK'
    BY DEF SpeechTypeOK
  <1>2. FreshOK'
    BY <1>1 DEF SpeechTypeOK, FreshOK, QueuesOK, Serving
  <1>3. BlameOK'
    BY <1>1 DEF SpeechTypeOK, FreshOK, BlameOK, Blame
  <1>4. FileOK'
    BY <1>1 DEF SpeechTypeOK, FreshOK, FileOK
  <1>5. RInv'
    BY <1>1, <1>2, AsideRing DEF SpeechTypeOK
  <1> QED
    BY <1>3, <1>4, <1>5

LEMMA DiscardKeeps ==
  ASSUME AInv, NEW s \in Speeches, Discard(s)
  PROVE  AInv'
  <1> USE SpeechAssumption DEF AInv, RInv, Discard, With, Resolved, Ended, Futures, unchangedQueue, unchangedCalls
  <1>1. SpeechTypeOK'
    BY DEF SpeechTypeOK
  <1>2. FreshOK'
    BY <1>1 DEF SpeechTypeOK, FreshOK, QueuesOK, Serving
  <1>3. BlameOK'
    BY <1>1 DEF SpeechTypeOK, FreshOK, BlameOK, Blame
  <1>4. FileOK'
    BY <1>1 DEF SpeechTypeOK, FreshOK, FileOK
  <1>5. RInv'
    BY <1>1, <1>2, AsideRing DEF SpeechTypeOK
  <1> QED
    BY <1>3, <1>4, <1>5

LEMMA ProduceKeeps ==
  ASSUME AInv, NEW s \in Speeches, Produce(s)
  PROVE  AInv'
  <1> USE SpeechAssumption DEF AInv, RInv, Produce, With, Resolved, Ended, Futures, unchangedByStream, unchangedQueue, unchangedCalls
  <1>1. SpeechTypeOK'
    BY DEF SpeechTypeOK
  <1>2. FreshOK'
    BY <1>1 DEF SpeechTypeOK, FreshOK, QueuesOK, Serving
  <1>3. BlameOK'
    BY <1>1 DEF SpeechTypeOK, FreshOK, BlameOK, Blame
  <1>4. FileOK'
    BY <1>1 DEF SpeechTypeOK, FreshOK, FileOK
  <1>5. RInv'
    BY <1>1, <1>2, AsideRing DEF SpeechTypeOK
  <1> QED
    BY <1>3, <1>4, <1>5

LEMMA ChunkKeeps ==
  ASSUME AInv, NEW s \in Speeches, Chunk(s)
  PROVE  AInv'
  <1> USE SpeechAssumption DEF AInv, RInv, Chunk, With, Resolved, Ended, Futures, Breaks, CleansUp, unchangedByStream, unchangedQueue, unchangedCalls
  <1>1. SpeechTypeOK'
    BY DEF SpeechTypeOK
  <1>2. FreshOK'
    BY <1>1 DEF SpeechTypeOK, FreshOK, QueuesOK, Serving
  <1>3. BlameOK'
    BY <1>1 DEF SpeechTypeOK, FreshOK, BlameOK, Blame
  <1>4. FileOK'
    <2>1. UNCHANGED <<promise, call, late>>
      OBVIOUS
    <2>2. /\ \A t \in Speeches \ {s} : stream'[t] = stream[t] /\ file'[t] = file[t]
          /\ stream[s] = "speaking" /\ UNCHANGED ready
          /\ \/ stream'[s] = "cut" /\ file'[s] = "gone"
             \/ stream'[s] = "writing" /\ file'[s] = file[s]
      BY DEF SpeechTypeOK
    <2> QED
      BY <1>1, <2>1, <2>2 DEF SpeechTypeOK, FileOK
  <1>5. RInv'
    BY <1>1, <1>2, AsideRing DEF SpeechTypeOK
  <1> QED
    BY <1>3, <1>4, <1>5

LEMMA WrittenKeeps ==
  ASSUME AInv, NEW s \in Speeches, Written(s)
  PROVE  AInv'
  <1> USE SpeechAssumption DEF AInv, RInv, Written, With, Resolved, Ended, Futures, unchangedByStream, unchangedQueue, unchangedCalls
  <1>1. SpeechTypeOK'
    BY DEF SpeechTypeOK
  <1>2. FreshOK'
    BY <1>1 DEF SpeechTypeOK, FreshOK, QueuesOK, Serving
  <1>3. BlameOK'
    BY <1>1 DEF SpeechTypeOK, FreshOK, BlameOK, Blame
  <1>4. FileOK'
    BY <1>1 DEF SpeechTypeOK, FreshOK, FileOK
  <1>5. RInv'
    BY <1>1, <1>2, AsideRing DEF SpeechTypeOK
  <1> QED
    BY <1>3, <1>4, <1>5

LEMMA CompletesKeeps ==
  ASSUME AInv, NEW s \in Speeches, Completes(s)
  PROVE  AInv'
  <1> USE SpeechAssumption DEF AInv, RInv, Completes, With, Resolved, Ended, Futures, unchangedByStream, unchangedQueue, unchangedCalls
  <1>1. SpeechTypeOK'
    BY DEF SpeechTypeOK
  <1>2. FreshOK'
    BY <1>1 DEF SpeechTypeOK, FreshOK, QueuesOK, Serving
  <1>3. BlameOK'
    BY <1>1 DEF SpeechTypeOK, FreshOK, BlameOK, Blame
  <1>4. FileOK'
    BY <1>1 DEF SpeechTypeOK, FreshOK, FileOK
  <1>5. RInv'
    BY <1>1, <1>2, AsideRing DEF SpeechTypeOK
  <1> QED
    BY <1>3, <1>4, <1>5

LEMMA BreakKeeps ==
  ASSUME AInv, NEW s \in Speeches, Break(s)
  PROVE  AInv'
  <1> USE SpeechAssumption DEF AInv, RInv, Break, With, Resolved, Ended, Futures, Breaks, CleansUp, unchangedByStream, unchangedQueue, unchangedCalls
  <1>1. SpeechTypeOK'
    BY DEF SpeechTypeOK
  <1>2. FreshOK'
    BY <1>1 DEF SpeechTypeOK, FreshOK, QueuesOK, Serving
  <1>3. BlameOK'
    BY <1>1 DEF SpeechTypeOK, FreshOK, BlameOK, Blame
  <1>4. FileOK'
    BY <1>1 DEF SpeechTypeOK, FreshOK, FileOK
  <1>5. RInv'
    BY <1>1, <1>2, AsideRing DEF SpeechTypeOK
  <1> QED
    BY <1>3, <1>4, <1>5

LEMMA LookKeeps ==
  ASSUME AInv, NEW k \in Workers, Look(k)
  PROVE  AInv'
  <1> USE SpeechAssumption DEF AInv, RInv, Look, With, Resolved, Ended, Futures, Freed, Notified, unchangedQueue, unchangedCalls
  <1>1. SpeechTypeOK'
    <2> HIDE DEF Look, Freed
    <2>1. CASE closed # "no" \/ ring = <<>>
      BY <2>1 DEF SpeechTypeOK, Look
    <2>2. CASE closed = "no" /\ ring # <<>>
      <3> DEFINE g == Head(ring)
                 s == Head(queues[g])
      <3>1. /\ g \in Guilds /\ Tail(ring) \in Seq(Guilds) /\ queues[g] # <<>>
            /\ queues[g] \in Seq(Speeches)
        BY <2>2, RingAs, OnceTail DEF SpeechTypeOK
      <3>2. s \in Speeches /\ Tail(queues[g]) \in Seq(Speeches)
        BY <3>1
      <3>3. queues' = [queues EXCEPT ![g] = Tail(@)]
        BY <2>2 DEF Look
      <3>4. queues' \in [Guilds -> Seq(Speeches)]
        BY <3>1, <3>2, <3>3 DEF SpeechTypeOK
      <3>5. CASE Freed(g, Tail(ring), task) /\ UNCHANGED <<hand, stream>>
        <4>1. /\ busy' \subseteq Guilds /\ ring' \in Seq(Guilds)
              /\ task' \in [Workers -> {"none", "look", "asleep", "serves", "ended"}]
          BY <3>1, <3>5, FreedTypes DEF SpeechTypeOK
        <4> QED
          BY <3>4, <3>5, <4>1 DEF SpeechTypeOK, Look
      <3>6. CASE /\ ring' = Tail(ring) /\ busy' = busy \union {g}
                 /\ task' = With(task, k, "serves") /\ hand' = With(hand, k, {s})
                 /\ stream' = IF s \in Streams THEN With(stream, s, "new") ELSE stream
        <4>1. /\ task' \in [Workers -> {"none", "look", "asleep", "serves", "ended"}]
              /\ hand' \in [Workers -> SUBSET Speeches]
          BY <3>2, <3>6 DEF SpeechTypeOK
        <4>2. stream' \in [Speeches -> {"none", "new", "speaking", "writing"} \union Ended]
          BY <3>2, <3>6 DEF SpeechTypeOK
        <4> QED
          BY <3>1, <3>4, <3>6, <4>1, <4>2 DEF SpeechTypeOK, Look
      <3> QED
        BY <2>2, <3>5, <3>6 DEF Look
    <2> QED
      BY <2>1, <2>2 DEF SpeechTypeOK
  <1> DEFINE Taken(s) == /\ promise[s] = "pending" /\ stream[s] = "none"
                         /\ stream' = IF s \in Streams THEN With(stream, s, "new") ELSE stream
                         /\ hand' = With(hand, k, {s})
  <1>2. UNCHANGED <<stream, hand>> \/ \E s \in Speeches : Taken(s)
    <2> HIDE DEF Freed
    <2>1. CASE closed = "no" /\ ring # <<>>
      <3> DEFINE g == Head(ring)
                 s == Head(queues[g])
      <3>1. g \in Guilds /\ queues[g] # <<>> /\ queues[g] \in Seq(Speeches) /\ Once(queues[g])
        BY <2>1, RingAs, OnceTail DEF SpeechTypeOK, QueuesOK
      <3>2. s \in Speeches /\ In(queues[g], s)
        BY <3>1, OnceTail
      <3>3. promise[s] \in {"pending", "cancelled"} /\ stream[s] = "none"
        BY <3>1, <3>2 DEF QueuesOK
      <3> QED
        BY <2>1, <3>2, <3>3
    <2> QED
      BY <2>1
  <1>3. UNCHANGED <<closed, call, job, promise, ready, stopped, quit, file, late>>
    OBVIOUS
  <1>4. /\ \A t \in Speeches : stream'[t] = stream[t] \/ (t \in Streams /\ promise[t] = "pending" /\ stream[t] = "none" /\ stream'[t] = "new")
        /\ \A t \in Serving' : t \in Serving \/ promise[t] = "pending"
    <2> HIDE DEF Look
    <2>1. CASE UNCHANGED <<stream, hand>>
      BY <2>1 DEF Serving
    <2>2. CASE \E s \in Speeches : Taken(s)
      BY <2>2 DEF SpeechTypeOK, Serving
    <2> QED
      BY <1>2, <2>1, <2>2
  <1> HIDE DEF Look
  <1>5. FreshOK'
    BY <1>3, <1>4 DEF FreshOK
  <1>6. BlameOK'
    BY <1>3 DEF BlameOK, Blame
  <1>7. FileOK'
    BY <1>1, <1>3, <1>4 DEF SpeechTypeOK, FileOK
  <1>8. RInv'
    BY <1>1, <1>5, LookRing
  <1> QED
    BY <1>6, <1>7, <1>8

LEMMA SettleKeeps ==
  ASSUME AInv, NEW k \in Workers, Settle(k)
  PROVE  AInv'
  <1> USE SpeechAssumption DEF AInv, RInv, Settle, With, Resolved, Ended, Futures, Freed, Notified, Outcomes, unchangedCalls, unchangedStreams
  <1>1. SpeechTypeOK'
    <2> HIDE DEF Freed, Resolved
    <2>0. PICK s \in hand[k] : \E outcome \in Outcomes(s) :
            /\ promise' = Resolved(promise, s, outcome)
            /\ UNCHANGED queues
            /\ Freed(GuildOf[s], ring, With(task, k, IF outcome = "cancelled" THEN "ended" ELSE "look"))
      OBVIOUS
    <2>1. PICK outcome \in Outcomes(s) :
            /\ promise' = Resolved(promise, s, outcome)
            /\ UNCHANGED queues
            /\ Freed(GuildOf[s], ring, With(task, k, IF outcome = "cancelled" THEN "ended" ELSE "look"))
      BY <2>0
    <2>2. s \in Speeches /\ outcome \in Futures /\ GuildOf[s] \in Guilds
      BY DEF SpeechTypeOK
    <2>3. promise' \in [Speeches -> Futures]
      BY <2>1, <2>2, ResolvedAs DEF SpeechTypeOK
    <2>4. With(task, k, IF outcome = "cancelled" THEN "ended" ELSE "look")
            \in [Workers -> {"none", "look", "asleep", "serves", "ended"}]
      BY DEF SpeechTypeOK
    <2>5. /\ busy' \subseteq Guilds /\ ring' \in Seq(Guilds)
          /\ task' \in [Workers -> {"none", "look", "asleep", "serves", "ended"}]
      <3> HIDE DEF With
      <3> QED
        BY <2>1, <2>2, <2>4, FreedTypes DEF SpeechTypeOK
    <2> QED
      BY <2>1, <2>3, <2>5 DEF SpeechTypeOK
  <1>2. FreshOK'
    BY <1>1 DEF SpeechTypeOK, FreshOK, QueuesOK, Serving
  <1>3. BlameOK'
    BY <1>1 DEF SpeechTypeOK, FreshOK, BlameOK, Blame
  <1>4. FileOK'
    BY <1>1 DEF SpeechTypeOK, FreshOK, FileOK
  <1>5. RInv'
    BY <1>1, <1>2, SettleRing
  <1> QED
    BY <1>3, <1>4, <1>5

LEMMA CloseKeeps ==
  ASSUME AInv, Close
  PROVE  AInv'
  <1> USE SpeechAssumption DEF AInv, RInv, Close, With, Resolved, Ended, Futures, unchangedQueue, unchangedCalls
  <1>1. SpeechTypeOK'
    BY DEF SpeechTypeOK
  <1>2. FreshOK'
    BY <1>1 DEF SpeechTypeOK, FreshOK, QueuesOK, Serving
  <1>3. BlameOK'
    BY <1>1 DEF SpeechTypeOK, FreshOK, BlameOK, Blame
  <1>4. FileOK'
    BY <1>1 DEF SpeechTypeOK, FreshOK, FileOK
  <1>5. RInv'
    BY <1>1, <1>2, CloseRing
  <1> QED
    BY <1>3, <1>4, <1>5

LEMMA CloseEndsKeeps ==
  ASSUME AInv, CloseEnds
  PROVE  AInv'
  <1> USE SpeechAssumption DEF AInv, RInv, CloseEnds, With, Resolved, Ended, Futures, unchangedCalls, unchangedStreams
  <1>1. SpeechTypeOK'
    BY DEF SpeechTypeOK
  <1>2. FreshOK'
    BY <1>1 DEF SpeechTypeOK, FreshOK, QueuesOK, Serving
  <1>3. BlameOK'
    BY <1>1 DEF SpeechTypeOK, FreshOK, BlameOK, Blame
  <1>4. FileOK'
    BY <1>1 DEF SpeechTypeOK, FreshOK, FileOK
  <1>5. RInv'
    BY <1>1, <1>2, CloseEndsRing
  <1> QED
    BY <1>3, <1>4, <1>5

LEMMA InitAInv == SpeechInit => AInv
  <1> SUFFICES ASSUME SpeechInit
               PROVE  AInv
    OBVIOUS
  <1> USE DEF SpeechInit
  <1>1. SpeechTypeOK
    BY DEF SpeechTypeOK, Futures
  <1>2. Serving = {}
    BY DEF Serving
  <1>3. QueuesOK /\ HandsOK /\ FreshOK
    BY <1>2 DEF QueuesOK, HandsOK, FreshOK, Once, In
  <1>4. RingExact
    BY <1>2 DEF RingExact
  <1>5. BlameOK /\ FileOK
    BY SpeechAssumption DEF BlameOK, FileOK, Ended
  <1> QED
    BY <1>1, <1>3, <1>4, <1>5 DEF AInv, RInv

LEMMA NextAInv == AInv /\ [SpeechNext]_speechVars => AInv'
  <1> SUFFICES ASSUME AInv, [SpeechNext]_speechVars
               PROVE  AInv'
    OBVIOUS
  <1>1. CASE UNCHANGED speechVars
    <2> USE <1>1 DEF speechVars, AInv, RInv
    <2>1. SpeechTypeOK' /\ FreshOK'
      BY DEF SpeechTypeOK, FreshOK, Serving
    <2>2. RInv'
      BY <2>1, AsideRing
    <2>3. BlameOK' /\ FileOK'
      BY DEF BlameOK, FileOK, Blame
    <2> QED
      BY <2>2, <2>3
  <1>2. ASSUME NEW s \in Speeches,
               Ask(s) \/ CallStep(s) \/ Quit(s) \/ Discard(s)
                 \/ StreamStep(s) \/ Completes(s) \/ Break(s)
        PROVE  AInv'
    BY <1>2, AskKeeps, StartJobKeeps, EndJobKeeps, AnswerKeeps, QuitKeeps, QuitEndsKeeps,
       DiscardKeeps, ProduceKeeps, ChunkKeeps, WrittenKeeps, CompletesKeeps, BreakKeeps
       DEF CallStep, StreamStep
  <1>3. ASSUME NEW k \in Workers, WorkerStep(k)
        PROVE  AInv'
    BY <1>3, LookKeeps, SettleKeeps DEF WorkerStep
  <1> QED
    BY <1>1, <1>2, <1>3, CloseKeeps, CloseEndsKeeps DEF SpeechNext

LEMMA SpeechInvariantHolds == SpeechSpec => []AInv
  BY InitAInv, NextAInv, PTL DEF SpeechSpec

\* Requests, tasks and futures stay in their sets.
THEOREM SpeechTypeCorrect == SpeechSpec => []SpeechTypeOK
  <1>1. AInv => SpeechTypeOK
    BY DEF AInv, RInv
  <1> QED
    BY <1>1, SpeechInvariantHolds, PTL

\* The ring holds, once, each guild that has something queued and is not being
\* served; and a guild is served by one worker at a time, whatever is cancelled,
\* queued or finished meanwhile.
THEOREM RingExactHolds == SpeechSpec => []RingExact
  <1>1. AInv => RingExact
    BY DEF AInv, RInv
  <1> QED
    BY <1>1, SpeechInvariantHolds, PTL

\* A call ends with a cancellation only if it was cancelled, or the scheduler
\* closed; and what its producer has written is removed with it, unless the call
\* went when its item was ready, or after the producer had looked for it last.
THEOREM OwnAffairHolds == SpeechSpec => []OwnAffair
  <1>1. AInv => OwnAffair
    <2>1. SUFFICES ASSUME AInv
                   PROVE  OwnAffair
      OBVIOUS
    <2>2. \A s \in Speeches : call[s] = "cancelled" => s \in quit \/ closed # "no"
      BY <2>1 DEF AInv, BlameOK, Blame
    <2>3. \A s \in Streams \ late :
            stream[s] \in Ended /\ call[s] \in {"raised", "cancelled"} => file[s] # "there"
      BY <2>1 DEF AInv, FileOK
    <2> QED
      BY <2>2, <2>3 DEF OwnAffair
  <1> QED
    BY <1>1, SpeechInvariantHolds, PTL

================================================================================
