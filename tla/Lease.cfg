\* Deliveries of one envelope, and a rotation under every kind of deployment.
SPECIFICATION MCSpec
CONSTANTS
    Peers = {"p1"}
    Certs <- MCCerts
    Envelopes <- MCEnvelopes
    Execs = {x1, x2}
    Isolates = {i1}
    Configs <- Deployed
    DenyWhenOff = {FALSE, TRUE}
    DevEpoch = 1
    MaxSkew = 1
    Refresh = 2
    Retention = 3
    AlarmInterval = 1
    MaxFlight = 1
    TransportLag = 0
    MaxTime = 5
    MaxEpoch = 2
INVARIANTS
    TypeOK
    NoReplay
    LedgerMatchesChain
    AuthorityHolds
SYMMETRY ExecSymmetry
CHECK_DEADLOCK FALSE
