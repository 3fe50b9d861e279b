----------------------------- MODULE MCImageQueue -----------------------------
(* Work that a background task does for calls which wait: two image jobs, one  *)
(* of them wanted by two of three calls, and their worker; and three audit     *)
(* records, with their writer, a reader and close().  They share nothing, so   *)
(* that each runs while the other rests.                                       *)
EXTENDS ImageQueue, AuditQueue, TLC

CONSTANTS c1, c2, c3, j1, j2

VARIABLE part \* which of the two runs

MCJobOf == c1 :> j1 @@ c2 :> j1 @@ c3 :> j2

allVars == <<part, vars, auditVars>>

InImages(A) == part = "images" /\ A /\ UNCHANGED <<part, auditVars>>
InAudits(A) == part = "audits" /\ A /\ UNCHANGED <<part, vars>>

MCInit == part \in {"images", "audits"} /\ Init /\ AuditInit

\* Nothing is under way any more: the model stops here, not the services.
ImagesOver ==
    /\ part = "images"
    /\ \A c \in Callers : call[c] \in {"over", "cut"}
    /\ worker.pc \in {"asleep", "dead"}
    /\ UNCHANGED allVars

AuditsOver ==
    /\ part = "audits"
    /\ \A c \in Controls \ orphaned : place[c] \in {"idle", "put", "last", "returned", "raised"}
    /\ UNCHANGED allVars

\* Records are alike, so that they come in one order: 1, 2, 3.
MCNext ==
    \/ InImages(Next) \/ ImagesOver \/ AuditsOver
    \/ InAudits(AuditNext) /\ accepted' = 1 .. Cardinality(accepted')

\* The fairness of both modules: as one of them runs, what is fair to a step of
\* either is fair to both.
MCSpec ==
    /\ MCInit /\ [][MCNext]_allVars
    /\ WF_allVars(InImages(Run) \/ InAudits(Progress))
    /\ WF_allVars(InImages(Calls))

===============================================================================
