---------------------------- MODULE AutonomyBacklog ----------------------------
(***************************************************************************)
(* What the autonomous event queue promises its readers.  Accepted events  *)
(* are numbered in the order of their acceptance.  Each channel has its    *)
(* backlog of events nobody has settled yet, and what is settled in one    *)
(* step is a beginning of one channel's backlog: no event is skipped, lost *)
(* or settled twice, and no channel waits for another one.                 *)
(***************************************************************************)
EXTENDS Naturals

CONSTANT Channels

VARIABLES
    accepted, \* how many events were accepted so far
    backlog   \* per channel, the numbers of its unsettled events

TypeOK ==
    /\ accepted \in Nat
    /\ backlog \in [Channels -> SUBSET (1 .. accepted)]

Init ==
    /\ accepted = 0
    /\ backlog = [c \in Channels |-> {}]

Accept(c) ==
    /\ accepted' = accepted + 1
    /\ backlog' = [backlog EXCEPT ![c] = @ \union {accepted + 1}]

Beginning(events, all) ==
    /\ events # {} /\ events \subseteq all
    /\ \A s \in events, u \in all \ events : s < u

Settle(c, events) ==
    /\ Beginning(events, backlog[c])
    /\ backlog' = [backlog EXCEPT ![c] = @ \ events]
    /\ UNCHANGED accepted

Next ==
    \E c \in Channels :
        \/ Accept(c)
        \/ \E events \in SUBSET backlog[c] : Settle(c, events)

Spec == Init /\ [][Next]_<<accepted, backlog>>

===============================================================================
