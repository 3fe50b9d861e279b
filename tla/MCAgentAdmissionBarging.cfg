\* Two active turns (one for the autonomous kind), two pending.
SPECIFICATION FairSpec
CONSTANTS
    auto = auto  idea = idea  ask = ask  first = first  second = second
    w1 = w1  w2 = w2  w3 = w3  bot = bot  alice = alice  bob = bob
    Turns = {auto, ask, first, second}
    Workspaces = {w1, w2, w3}
    Actors = {bot, alice, bob}
    Slots = {s1, s2, s3}
    None = None
    WorkspaceOf <- MCWorkspaceOf
    ActorOf <- MCActorOf
    Autonomous = {auto}
    MaxActive = 2
    MaxPending = 2
    MaxPendingPerUser = 1
    ReservePercent = 25
PROPERTIES
    NoBarging
