---------------------------- MODULE MCAutonomyQueue ----------------------------
(***************************************************************************)
(* Four events: three of one channel, one of another one, all but the      *)
(* second by one person.                                                   *)
(***************************************************************************)
EXTENDS AutonomyQueue

CONSTANTS e1, e2, e3, e4, c1, c2, a1

MCEvents == {e1, e2, e3, e4}
MCChannels == {c1, c2}
MCActors == {a1}
MCChannelOf == [e \in MCEvents |-> IF e = e4 THEN c2 ELSE c1]
MCActorOf == [e \in MCEvents |-> IF e = e2 THEN None ELSE a1]

===============================================================================
