SPECIFICATION MCSpec
CONSTANTS
    None = None
    Procs = {p1, p2, p3}
    LongHolds = FALSE
    Children = {"c1"}
    Streams = {"stdout"}
    VerifierMaxChanges = 0
    Policies <- MCPolicies
    MaxSqliteInteger = 20
    RunLeases = {l1, l2}
    Cells <- MCCells
    Snapshots <- MCSnapshots
    RunMaxActiveLeases = 1
    ProbeFaults = FALSE
    Bindings = {b1}
    ModelSets = {m1}
    Resident = {m1}
    SessionLeases = {s1}
    Endpoints = {e1}
    Faults = TRUE
    Commands = {"check", "supervise"}
    MaxPolls = 1
    LaunchInterrupts = FALSE
    MaxTurns = 3
    MaxCalls = 2
    AllowedTools = {"local"}
    AskTools = {"mcp"}
    DeniedTools = {"shell"}
    Handlers = {"none", "error", "denied", "approved"}
    AskIds = {0}
    MaxSent = 3
    Runners = {"r1", "r2"}
    Verifiers = {"v1", "v2", "v3"}
    Quorum = 2
    Required = {"v1"}
    Responses <- MCResponses
    MaxTrouble = 1
INVARIANTS
    MutualExclusion
    AgentSafe
    PairedSafe
PROPERTIES
    DeadHolderRecovered
    RunLive
    SessionEnds
    AgentEnds
    EveryCallEnds
    EveryVerifierEnds
