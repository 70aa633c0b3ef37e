CONSTANTS
    Subscribers = {}
    Bound = 1
    Events <- SessionEvents
    Clients = {c1, c2}
    MaxConnections = 2
    OldContexts = 1
    NamedContexts = {2}
    MaxSessions = 2
    MaxFrames = 2
    MaxHttp = 1
    MaxContexts = 3
    MaxTurns = 2
    MaxRequests = 2
SPECIFICATION MCSpec
INVARIANTS
    TrackerAgrees
    TurnEventsOrdered
    DisconnectComplete
PROPERTY CloseAnnounced
CHECK_DEADLOCK FALSE
