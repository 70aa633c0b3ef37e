CONSTANTS
    Payloads = {p1, p2}
    Hashes = {p1, p2}
    MaxTurns = 2
    MaxContexts = 1
    MaxFaults = 2
    MaxBlobFaults = 2
    MaxPack = 4
    TornLens = {4, 20}
    IdxTorn = {12, 40, 50}
    WriteErrors = TRUE
    BlobWriteErrors = TRUE
    StrayAppends = TRUE
SPECIFICATION StoreSpec
INVARIANTS
    DagInv
    IndexBacked
CHECK_DEADLOCK FALSE
