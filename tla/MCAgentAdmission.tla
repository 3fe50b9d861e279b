--------------------------- MODULE MCAgentAdmission ---------------------------
(* Four turns: two observations nobody asked for and a question in the        *)
(* workspace of each, or one observation and a person with two questions.     *)
EXTENDS AgentAdmission

CONSTANTS auto, idea, ask, first, second, w1, w2, w3, bot, alice, bob

MCWorkspaceOf ==
    [t \in Turns |->
        IF t \in {auto, ask} THEN w1 ELSE IF t \in {idea, first} THEN w2 ELSE w3]

MCActorOf ==
    [t \in Turns |->
        IF t \in {auto, idea} THEN bot ELSE IF t = ask THEN alice ELSE bob]

===============================================================================
