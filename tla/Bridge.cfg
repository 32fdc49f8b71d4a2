SPECIFICATION MCSpec
CONSTANTS
    None = None
    Runs = {a1, a2}
    Tasks <- MCTasks
    Worlds <- MCWorlds
    MaxDrift = 1
    MaxTickets = 1
    Verifiers = {a1, a2}
    Quorum = 2
    Life = 2
    AttLife = 1
    PlanLife = 1
    MaxTime = 3
    MaxPlans = 2
    Resumers = {"r1"}
    Recoverers = {"c1"}
    MaxTrouble = 1
    Stagers = {1, 2}
    Key <- MCKey
    Files = {"f", "g"}
    VaultVerifiers = {"v"}
    VaultQuorum = 1
    MaxEnvelopes = 2
    VaultMaxChanges = 1
    Threads = {1, 2}
    Texts = {{"pattern", "entropy", "vendor", "labelled"}}
    KeyTexts = {{}, {"pattern"}, {"entropy", "vendor", "labelled"}}
    Contents = {1, 2}
    MaxProbeChanges = 4
SYMMETRY MCSymmetry
INVARIANTS
    VaultSafe
    NothingLeaks
    ReportIsBound
PROPERTIES
    BridgeSound
    TwoPhaseSound
