SPECIFICATION MCSpec
CONSTANTS
    ClusterNames <- MCNames
    MaxEdits = 2
    Baselines <- MCBaselines
    BundleChanges <- MCBundleChanges
    WireChanges <- MCWireChanges
    InputChanges <- MCInputChanges
    RowChanges <- MCRowChanges
    ServiceChanges <- MCServiceChanges
    OciChanges <- MCOciChanges
    Requests <- MCRequests
    Matchings <- MCMatchings
    SubstrateProvides = {"cap-s"}
    Substrate = "platform"
    NoNode = ""
    Procs = {"t1", "t2"}
    Documents <- MCDocuments
    Bundles <- MCBundles
    Shells <- MCShells
    FirstInputs <- MCFirstInputs
    Addable <- MCAddable
    SpecChanges <- MCSpecChanges
    Answers <- MCAnswers
    Budgets <- MCBudgets
    MaxChanges = 1
INVARIANTS
    
    OrderHolds
    
    
CHECK_DEADLOCK FALSE
