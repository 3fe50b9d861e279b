---------------------------- MODULE MCFocusSession ----------------------------
(* Focus sessions that overlap, in one workspace; and two workers of the      *)
(* speech scheduler with two guilds, of which one has two requests, one of    *)
(* them streamed.  They share nothing, so that each runs while the other      *)
(* rests.                                                                     *)
EXTENDS FocusSession, SpeechScheduler, TLC

CONSTANTS s1, s2, s3, g1, g2

MCGuildOf == s1 :> g1 @@ s2 :> g1 @@ s3 :> g2

VARIABLE part  \* which of the two runs

allVars == <<part, vars, speechVars>>

InSessions(A) == part = "sessions" /\ A /\ UNCHANGED <<part, speechVars>>
InSpeech(A) == part = "speech" /\ A /\ UNCHANGED <<part, vars>>

MCInit ==
    /\ part \in {"sessions", "speech"} /\ Init /\ SpeechInit
    /\ part = "speech" => policy = Preset("off")

\* Nothing is left of a scheduler that was closed.
SpeechOver ==
    /\ part = "speech" /\ closed = "closed"
    /\ UNCHANGED allVars

MCNext == InSessions(Next) \/ InSpeech(SpeechNext) \/ SpeechOver

\* The fairness of FairSpeech; sessions need none.
MCSpec ==
    /\ MCInit /\ [][MCNext]_allVars
    /\ \A s \in Speeches : /\ WF_allVars(InSpeech(CallStep(s)))
                           /\ WF_allVars(InSpeech(StreamStep(s)))
                           /\ SF_allVars(InSpeech(Completes(s) \/ Break(s)))
    /\ \A k \in Workers : WF_allVars(InSpeech(WorkerStep(k)))
    /\ WF_allVars(InSpeech(CloseEnds))

===============================================================================
