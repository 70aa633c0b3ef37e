SPECIFICATION Spec
CONSTANTS
    Metas = {m1, m2}
    Plain = {p}
    MaxTurns = 3
    MaxContexts = 3
    MaxRestarts = 2
    Chunks <- SmallChunks
    MaxChunks = 5
    MaxLexed = 7
    StringFields = {"tag", "host"}
    CiFields = {"tag"}
    SearchMetas <- SmallMetas
    Depths = {0}
    Queries <- SmallQueries
    SearchContexts = {1, 2, 3}
    LiveSets = {{1, 3}}
    Now = 18
    RelativeDates <- SmallRelative
    AbsoluteDates <- SmallAbsolute
    MaxU32 = 3
    MaxU64 = 63
    MaxGrown = 2
    Limit = 2
    MaxPagedTurns = 4
    MaxPagedContexts = 2
    Limits = {0, 1, 2}
    Types <- SmallTypes
    Enums <- SmallEnums
    EnumOrders <- SmallOrders
    Numerals <- SmallNumerals
    Base64 <- SmallBase64
    Hex <- SmallHex
    Utf8 <- SmallUtf8
    Padded = {"09"}
    MaxI64 = 300
    Posted <- SmallPosted
    Options <- SmallOptions
INVARIANTS
    TameContextsFound
    LexerInverse
    ParserFollowsGrammar
    SearchExact
    PagesCoverChain
    RepostStable
CHECK_DEADLOCK FALSE
