SPECIFICATION TablesSpec
CONSTANTS
    a1 = a1
    a2 = a2
    b1 = b1
    b2 = b2
    c1 = c1
    c2 = c2
    d1 = d1
    d2 = d2
    Sessions <- MCSessions
    Ids <- MCIds
    Contents <- MCContents
    Callers <- MCCallers
    Runners <- MCRunners
    MaxSeq = 4
    Attempts <- MCAttempts
    Agents <- MCAgents
    Models <- MCModels
    Locations <- MCLocations
    Unset = Unset
    MaxEvents = 2
    MaxVersion = 1
    MaxRevision = 0
    Procs <- MCProcs
    NoProc = NoProc
SYMMETRY Symmetry
INVARIANTS
    InboxProjected
    ReceiptsAgree
    ConflictIsReal
    InDurableOrder
    NoRunnerDies
    EpochOwned
    EpochPlaced
    MutualExclusion
PROPERTIES
    TurnIsCurrent
