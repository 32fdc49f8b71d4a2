SPECIFICATION MCSpec
CONSTANTS
    None = None
    Keys = {k1}
    Tokens = {t1, t2, t3}
    LegacyUses = {1}
    LeaseTtl = 2
    Retention = 1
    MaxBudgets = 1
    Tickets = {t1, t2, t3}
    Bindings = {k2, k3}
    TicketTtl = 2
    TicketRetention = 1
    MaxTickets = 2
    MaxTime = 4
    Callers = {"c1", "c2"}
    Tasks = {"a", "b"}
    Steps = {1, 2}
    Tiers <- MCTiers
    MaxPlans = 2
    MaxReceipts = 2
    MaxTokens = 3
    MaxCalls = 3
    Declared <- MCDeclared
    MaxScope = "paid_remote"
    AllowedScopes = {"device_only", "private_mesh", "paid_remote"}
    Widening = FALSE
    Fallbacks <- MCFallbacks
    TopK = 2
    External = TRUE
    CronJobs <- MCJobs
    CronConfirm = FALSE
    CronSpecs <- MCSpecs
    CronLocal = {"e1"}
    CronRunners = {"loop", "manual"}
    CronStarters = {}
    CronMaxClock = 2
    CronMaxProcs = 2
    ServersRunners = {}
    ServersStarters = {1, 2}
    ServersMaxClock = 1
    ServersMaxProcs = 3
    Origins = {"o1", "o2"}
    Outside = "out"
    Versions = {1, 2}
    MaxLaunches = 2
    MaxRevision = 1
    MaxRequests = 1
    MaxDaemons = 3
    MaxViews = 2
    MaxRestarts = 2
    SetupBackends = {"mlx", "llama_cpp", "ollama"}
    SetupModels = {"m1"}
    SetupPublishers = {}
    SetupMaxStartups = 2
    SetupMaxHostChanges = 1
    PluginPublishers = {1, 2}
    PluginMaxStartups = 0
    PluginMaxHostChanges = 0
    Requests = {t1, t2, t3}
    Ops = {"turn", "add", "prune", "forget", "compact", "rename", "delete", "import"}
    Old = "old"
SYMMETRY MCSymmetry
INVARIANTS
    LaunchSafe
    BudgetsSafe
    TicketsSafe
    CascadeDelivery
    ScopeCeiling
    ServicesSafe
    
    
    BrowserSafe
    DesktopSafe
PROPERTIES
    WorkSpaced
