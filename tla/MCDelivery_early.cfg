CONSTANTS
    Tasks = {t1}
    Capacity = 2
    MaxCaptured = 1
    MaxErrors = 0
    MaxEvents = 2
    Parts = {"delivery"}
    Convs = {1, 2}
    Routes <- SmallRoutes
    Inputs <- SmallInputs
    Answers <- SmallAnswers
    Chunk = 3
    MaxUpsets = 0
SPECIFICATION MCSpec
PROPERTY TurnsDelivered
CHECK_DEADLOCK FALSE
