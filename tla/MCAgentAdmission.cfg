\* Two active turns (one for the autonomous kind), two pending.
SPECIFICATION FairSpec
CONSTANTS
    auto = auto  idea = idea  ask = ask  first = first  second = second
    w1 = w1  w2 = w2  w3 = w3  bot = bot  alice = alice  bob = bob
    Turns = {auto, idea, ask, first}
    Workspaces = {w1, w2}
    Actors = {bot, alice, bob}
    Slots = {s1, s2}
    None = None
    WorkspaceOf <- MCWorkspaceOf
    ActorOf <- MCActorOf
    Autonomous = {auto, idea}
    MaxActive = 2
    MaxPending = 2
    MaxPendingPerUser = 1
    ReservePercent = 25
INVARIANTS
    SharesKept
PROPERTIES
    Served
