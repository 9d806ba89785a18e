\* One request whose caller signed a moment before it was admitted.
SPECIFICATION MCSpec
CONSTANTS
    ReceiptHashes = {h1}
    NumEpochs = 2
    Retention = 1
    MaxDay = 3
    Null = Null
    Values <- MCValues
    ChunkSize = 2
    Putters = {p1, p2}
    Names = {n1}
    Writers = {w1, w2}
    NoDigest = NoDigest
    NoRef = NoRef
    NoBead = NoBead
    Peers = {p1, p2}
    Queued = {p1}
    Hashes = {h1, h2}
    BeadIds = {}
    Sweeps = {s1, s2}
    BatchLimit = 1
    MaxRetryAttempts = 1
    MaxRows = 2
    Readers = {d1}
    PageSize = 1
    NoCursor = NoCursor
    Forged = Forged
    Reqs = {r1}
    Configs <- MCConfigs
    Contents <- MCContents
    MaxClock = 1
    MaxEpoch = 3
    LocalEpoch = 1
    LeaseSkew = 1
    Skew = 1
INVARIANT HonestReceiptVerifies
CHECK_DEADLOCK FALSE
