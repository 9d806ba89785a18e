\* Pushes and pulls of two repositories on two isolates.
SPECIFICATION Spec
CONSTANTS
    r1 = r1
    r2 = r2
    t1 = t1
    b1 = b1
    b2 = b2
    p1 = p1
    p2 = p2
    p3 = p3
    p4 = p4
    None = None
    Malformed = Malformed
    Reqs = {p1, p2, p3, p4}
    Isolates = {i1, i2}
    Uuids = {u1}
    Repos = {r1, r2}
    Tags = {t1}
    Bytes = {b1, b2}
    MaxBlobBytes = 2
    Digests <- MCDigests
    Sha <- MCSha
    Blake <- MCBlake
    MenuOf <- Mixed
INVARIANTS
    TypeOK
    IndexServes
    ServedWasPushedHere
    SessionsBounded
    
SYMMETRY Symmetric
CHECK_DEADLOCK FALSE
