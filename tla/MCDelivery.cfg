CONSTANTS
    Parts = {"capture", "delivery"}
    Tasks = {t1}
    Capacity = 1
    MaxCaptured = 1
    MaxErrors = 2
    MaxEvents = 2
    Convs = {1, 2}
    Routes <- SmallRoutes
    Inputs <- SmallInputs
    Answers <- SmallAnswers
    Chunk = 3
    MaxUpsets = 1
SPECIFICATION MCSpec
INVARIANTS
    TasksInOrder
    NothingDropped
    LedgerTruthful
    OutagesPaired
    ObservedUploaded
    ConversationOnce
PROPERTIES
    DeliveredOnceCreated
    ShutdownEnds
CHECK_DEADLOCK FALSE
