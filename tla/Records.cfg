\* One receipt and two epochs over three units of time; three values of one,
\* two and three chunks, two puts, two clients of one ref; two attestations,
\* two overlapping sweeps, one reader of pages of a row; two requests with
\* receipts, two rotations of the authority's key.
SPECIFICATION MCSpec
CONSTANTS
    ReceiptHashes = {h1}
    NumEpochs = 2
    Retention = 1
    MaxDay = 3
    Null = Null
    Values <- MCValues
    ChunkSize = 2
    Putters = {p1, p2}
    Names = {n1}
    Writers = {w1, w2}
    NoDigest = NoDigest
    NoRef = NoRef
    NoBead = NoBead
    Peers = {p1, p2}
    Queued = {p1}
    Hashes = {h1, h2}
    BeadIds = {}
    Sweeps = {s1, s2}
    BatchLimit = 1
    MaxRetryAttempts = 1
    MaxRows = 2
    Readers = {d1}
    PageSize = 1
    NoCursor = NoCursor
    Forged = Forged
    Reqs = {r1, r2}
    Configs <- MCConfigs
    Contents <- MCContents
    MaxClock = 1
    MaxEpoch = 3
    LocalEpoch = 1
    LeaseSkew = 1
    Skew = 1
INVARIANTS
    RecordsTypeOK
    ChainLinked
    
    ReceiptsHold
    ArchiveHolds
    AnsweredReadsBack
PROPERTIES
    TablesKept
    PromiseKept
CHECK_DEADLOCK FALSE
