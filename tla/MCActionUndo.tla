----------------------------- MODULE MCActionUndo -----------------------------
(* Three actions, the last one the posting of the second one's turn.          *)
EXTENDS ActionUndo, TLC

MCHost == {3}
MCTurn == <<1, 2, 2>>
UndoSymmetry == Permutations(Undoers)
===============================================================================
