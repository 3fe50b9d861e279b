SPECIFICATION Spec
CONSTANTS
    e1 = e1
    e2 = e2
    e3 = e3
    e4 = e4
    c1 = c1
    c2 = c2
    a1 = a1
    None = None
    Events <- MCEvents
    Channels <- MCChannels
    Actors <- MCActors
    ChannelOf <- MCChannelOf
    ActorOf <- MCActorOf
    Debounce = 1
    CandidateLimit = 2
    Lease = 2
    Delays = {1}
    Retention = 1
    MaxPending = 3
    MaxPerChannel = 3
    MaxPerActor = 2
    MaxTime = 3
    MaxClaims = 3
INVARIANT
    BatchIsUnit
PROPERTY
    LeaseRespected
