SPECIFICATION MCSpec
CONSTANTS
    None = None
    MaxSqliteInteger = 20
    Leases = {r1, r2}
    Cells <- RunCells
    Snapshots <- MCSnapshots
    MaxActiveLeases = 2
    ProbeFaults = TRUE
    Bindings = {b1, b2}
    ModelSets = {m1, m2}
    Resident = {m1}
    StoreLeases = {r1, r2, l3}
    StoreCells <- RichCells
    StoreSnapshots <- RichSnapshots
    StoreMaxSqliteInteger = 11
    Commands <- MCCommands
    Catalogs <- MCCatalogs
    Hosts <- MCHosts
    Profile <- MCProfile
    MaxAge = 1
    MaxClock = 2
    AdaptiveMaxChanges = 1
    Inode <- MCInode
    Extra = {"x", "y"}
    MaxFiles = 6
    MaxChanges = 2
SYMMETRY MCSymmetry
INVARIANTS
    RunCovered
    RunReported
    AdaptiveSafe
    BindingSafe
PROPERTIES
    AbandonedInferenceBlocks
    ImplementsLedger
    StoreSteps
