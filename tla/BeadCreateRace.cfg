\* Two calls of one peer, both bead stores in use, one sweep at a time.
SPECIFICATION Spec
CONSTANTS
    p1 = p1
    r1 = r1
    r2 = r2
    c1 = c1
    c2 = c2
    NoRef = NoRef
    NoBead = NoBead
    Digest <- MCDigest
    Hashes <- MCHashes
    Peers = {p1}
    Requests = {r1, r2}
    Calls = {c1, c2}
    PeerOf <- OnePeer
    CallOf <- TwoCalls
    BeadIds = {i1, i2}
    Sweeps = {s1}
    BatchLimit = 1
    MaxRetryAttempts = 2
    Backends = {"do", "rsry"}
    MaxSecond = 0
INVARIANTS
    TypeOK
    AckedIsAccounted
    EvidenceGrounded
    BeadLinkIsRight
PROPERTY TSSpec
CHECK_DEADLOCK FALSE
