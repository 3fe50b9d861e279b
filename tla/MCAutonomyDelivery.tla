--------------------------- MODULE MCAutonomyDelivery ---------------------------
(* What must not be lost on its way through the database: one answer of two    *)
(* chunks and its receipt, with two consumers; and two follow-ups on a task,   *)
(* of which only the first may cancel it.  The two share no state, so that     *)
(* each runs while the other rests.                                            *)
EXTENDS AutonomyDelivery, TaskRouting

VARIABLE part \* which of the two runs

allVars == <<part, vars, routingVars>>

InDelivery(A) == part = "delivery" /\ A /\ UNCHANGED <<part, routingVars>>
InRouting(A) == part = "routing" /\ A /\ UNCHANGED <<part, vars>>

MCInit == part \in {"delivery", "routing"} /\ Init /\ RoutingInit

MCNext == InDelivery(Next) \/ InRouting(RoutingNext)

\* The fairness of both modules: as one of them runs, what is fair to a step of
\* either is fair to both.
MCSpec ==
    /\ MCInit /\ [][MCNext]_allVars
    /\ \A w \in Consumers : WF_allVars(InDelivery(Step(w)))
    /\ WF_allVars(InDelivery(\E w \in Consumers : NextBatch(w)))
    /\ WF_allVars(InDelivery(Expire))
    /\ WF_allVars(InDelivery(FallDue) \/ InRouting(RoutingStep))

\* The batch is settled in the end, however its attempts fail (cogs.py:12037-12110).
BatchSettled == part = "delivery" => Settled

===============================================================================
