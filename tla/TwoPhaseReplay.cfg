SPECIFICATION TwoSpec
CONSTANTS
    None = None
    Verifiers = {v1}
    Quorum = 1
    Life = 2
    AttLife = 1
    PlanLife = 1
    MaxTime = 1
    MaxPlans = 1
    Resumers = {r1, r2}
    Recoverers = {}
    MaxTrouble = 0
INVARIANT ResetMeansRestored
CHECK_DEADLOCK FALSE
