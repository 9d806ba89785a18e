\* Two launches from two doors; two points, five documents.
SPECIFICATION MCSpec
CONSTANTS
    Runs = {"r1", "r2"}
    Requests <- MCRequests
    Targets <- MCTargets
    Services <- MCServices
    Skills <- MCSkills
    Bindings <- MCBindings
    WorkerDirs = {"notme"}
    HostEnv = {"KEY", "TOKEN"}
    Points = {"p", "q"}
    Initials <- MCDocs
    Restrictions <- MCDocs
    AnyPath <- MCPath
    AnyHost <- MCHost
    AnySocket = {"s1", "s2"}
    AnyPort <- MCPort

    
    
PROPERTY SessionEnds
CHECK_DEADLOCK FALSE
