\* Two requests of any kind, upstreams that fail in every way.
SPECIFICATION Spec
CONSTANTS
    Manifests <- MCManifests
    Reqs = {r1, r2}
    Peers = {"p", "anon"}
    Anonymous = "anon"
    Roots <- MCRoots
    Catalogs <- MCCatalogs
    Names <- MCNames
    BeadCreateTool <- BeadCreateName
    MaxBackends = 2
    MaxSessions = 2
    MaxRestarts = 1
INVARIANTS
    CallsApart
    EffectsExplained
    ListedIsRoutable
PROPERTY Answered
CHECK_DEADLOCK FALSE
