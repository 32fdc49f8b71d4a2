SPECIFICATION SupSpec
CONSTANTS
    None = None
    Leases = {s1, s2}
    Endpoints = {e1}
    MaxActiveLeases = 2
    Faults = FALSE
    Commands = {"check"}
    MaxPolls = 1
    LaunchInterrupts = TRUE
INVARIANTS
    StoppedMeansExited
CHECK_DEADLOCK FALSE
