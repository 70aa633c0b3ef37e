CONSTANTS
    Subscribers = {s1, s2}
    Bound = 1
    Events <- EventsToMaxTurns
    MaxTurns = 3
    MaxErrors = 1
    EventBuffer = 1
    MaxSeen = 1
SPECIFICATION FollowSpec
INVARIANTS
    NothingLost
    EmittedInOrder
PROPERTIES
    HintsFollowed
    LeaversNoticed
CHECK_DEADLOCK FALSE
