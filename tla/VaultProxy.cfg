\* Three calls from three addresses, of which the budgets hold two.
SPECIFICATION Spec
CONSTANTS
    Calls = {c1, c2, c3}
    i1 = i1
    i2 = i2
    i3 = i3
    p1 = p1
    p2 = p2
    Ips = {i1, i2, i3}
    Peers = {p1, p2}
    Names = {"llm", "git", "other", "//"}
    Malformed = "//"
    Manifest <- MCManifest
    Deployments <- MCDeployments
    DevAllowedSubs = {p2}
    DevPassthroughServices = {"llm"}
    Statuses = {200, 404, 500}
    Capacity = 2
    Refill = 1
    Cost = 2
    MaxKeys = 2
    EvictFraction = 2
    RateWindow = 2
    MaxNow = 2
SYMMETRY MCSymmetry
INVARIANTS
    Metered
    
CHECK_DEADLOCK FALSE
