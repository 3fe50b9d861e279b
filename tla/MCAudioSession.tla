---------------------------- MODULE MCAudioSession ----------------------------
(* A track and two utterances: of one request, or of two.                    *)
EXTENDS AudioSession, TLC

CONSTANTS r1, r2, s1, s2

MCParts == r1 :> <<s1, s2>>
MCPairParts == (r1 :> <<s1>>) @@ (r2 :> <<s2>>)
===============================================================================
