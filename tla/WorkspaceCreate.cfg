SPECIFICATION TxSpec
CONSTANTS
    N = 1
    Changes <- MCChanges
    Kinds = {"create"}
    Ids = {1, 2, 3}
    MaxTrouble = 1
    None = None
INVARIANT EveryBoundaryRecoverable
CHECK_DEADLOCK FALSE
