SPECIFICATION AgentSpec
CONSTANTS
    MaxTurns = 3
    MaxCalls = 2
    AllowedTools = {"local"}
    AskTools = {"mcp"}
    DeniedTools = {"shell"}
    Handlers = {"none", "error", "denied", "approved"}
    AskIds = {0, 1, 2}
    MaxSent = 3
INVARIANTS
    ErrorNeverGrounds
CHECK_DEADLOCK FALSE
