SPECIFICATION MCSpec
CONSTANTS
    None = None
    Leases = {s1, s2}
    Endpoints = {e1}
    MaxActiveLeases = 2
    Faults = TRUE
    Commands = {"check", "supervise"}
    MaxPolls = 1
    LaunchInterrupts = FALSE
    StoreLeases = {s1, s2, l3}
    StoreEndpoints = {e1, e2, e3}
    Planners = {s1, s2}
    Histories <- MCHistories
    Arms <- MCArms
    Gate <- MCGate
    Profile <- RouteProfile
    Case <- MCCase
    MaxClock = 5
    MaxMishaps = 1
SYMMETRY MCSymmetry
INVARIANTS
    SupervisorSafe
    RoutingSafe
PROPERTIES
    RegistrySteps
