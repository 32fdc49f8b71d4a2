SPECIFICATION MCSpec
CONSTANTS
    N = 2
    Changes <- MCChanges
    Kinds = {"delete", "modify", "create", "readonly"}
    Ids = {1, 2, 3}
    MaxTrouble = 2
    None = None
    Children = {"c1"}
    Streams = {"stdout"}
    MaxChanges = 1
    Policies <- MCPolicies
    Variants <- MCVariants
    Cases = 2
    Repetitions = 1
    Outcomes <- MCOutcomes
    Decision <- MCDecision
    Ram = {1, 2}
    MaxSamples = 1
    MaxGaps = 1
    MaxCalls = 3
    MaxOpen = 2
    Requests = {1}
    Inputs = {"readboth", "edit", "test"}
INVARIANTS
    WorkspaceSafe
    VerifierSafe
    PassedIsEvidenced
    CanarySafe
