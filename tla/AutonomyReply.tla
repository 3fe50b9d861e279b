------------------------------ MODULE AutonomyReply ------------------------------
(***************************************************************************)
(* What a channel sees of one batch of autonomous-agent events: the chunks *)
(* of one reply, in their order and each of them once, and the end of the  *)
(* batch.  A batch is acknowledged with its whole reply or with none; one  *)
(* that is dead-lettered may stop anywhere, and the last request on its    *)
(* way may still arrive.                                                   *)
(***************************************************************************)
EXTENDS Naturals

CONSTANT N \* how many chunks the reply has

VARIABLES
    posted, \* the chunks that were posted
    status  \* what became of the batch

TypeOK ==
    /\ posted \in SUBSET (1 .. N)
    /\ status \in {"live", "processed", "dead_lettered"}

Init ==
    /\ posted = {}
    /\ status = "live"

Post(c) ==
    /\ status # "processed"
    /\ posted = 1 .. c - 1
    /\ posted' = 1 .. c
    /\ UNCHANGED status

Acknowledge ==
    /\ status = "live"
    /\ posted \in {{}, 1 .. N}
    /\ status' = "processed"
    /\ UNCHANGED posted

DeadLetter ==
    /\ status = "live"
    /\ status' = "dead_lettered"
    /\ UNCHANGED posted

Next ==
    \/ \E c \in 1 .. N : Post(c)
    \/ Acknowledge
    \/ DeadLetter

Spec == Init /\ [][Next]_<<posted, status>>

===============================================================================
