----------------------------- MODULE WriteBarrier -----------------------------
(***************************************************************************)
(* What the ledger of external effects promises of the writes an agent    *)
(* asks for: a write happens at most once, only after its intent has been  *)
(* recorded durably, and a recorded intent is never taken back.            *)
(***************************************************************************)
CONSTANT Writes

VARIABLES
    crossed, \* the writes recorded as possibly happening
    done     \* the writes that happened

TypeOK == crossed \in SUBSET Writes /\ done \in SUBSET Writes

Init == crossed = {} /\ done = {}

Happen(w) ==
    /\ w \in crossed \ done
    /\ done' = done \union {w}
    /\ UNCHANGED crossed

\* One reset of the runtime may let several intents land together.
CrossSome ==
    /\ \E S \in SUBSET (Writes \ crossed) : crossed' = crossed \union S
    /\ UNCHANGED done

Next ==
    \/ CrossSome
    \/ \E w \in Writes : Happen(w)

Spec == Init /\ [][Next]_<<crossed, done>>

===============================================================================
