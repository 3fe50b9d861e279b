----------------------------- MODULE MCFocusTimer -----------------------------
(* One or two timers; a tick is five seconds to some minutes.                 *)
EXTENDS FocusTimer, TLC

TimerSymmetry == Permutations(Timers)
===============================================================================
