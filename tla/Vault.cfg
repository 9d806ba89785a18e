\* Three calls, a developer's seed, every kind of deployment.
SPECIFICATION BoundedSpec
CONSTANTS
    k1 = k1
    bad = bad
    Unset = Unset
    Absent = Absent
    NoCred = NoCred
    Peers = {"p1"}
    Services = {"v"}
    Subs = {"u1"}
    Calls = {c1, c2, c3}
    Sources = {k1}
    BadSources = {bad}
    Deployments <- MCDeployments
    Seed <- MCSeed
    Capacity = 8
    Refill = 2
    MaxInflight = 1
    MaxTime = 1
INVARIANTS
    TypeOK
    KekHolds
    InflightExact
    BudgetBound
PROPERTY WaitersWake
CHECK_DEADLOCK FALSE
