CONSTANTS
    Payloads = {p1, p2}
    Hashes = {p1, p2}
    MaxTurns = 3
    MaxContexts = 2
    MaxFaults = 2
    MaxBlobFaults = 2
    MaxPack = 4
    TornLens = {8, 20}
    IdxTorn = {12, 40}
    WriteErrors = FALSE
    BlobWriteErrors = FALSE
    StrayAppends = FALSE
SPECIFICATION StoreSpec
INVARIANTS
    AckedTurnsDurable
    AckedHeadsDurable
    AckedBlobsDurable
    PayloadsDurable
PROPERTY ImplementsContextDag
