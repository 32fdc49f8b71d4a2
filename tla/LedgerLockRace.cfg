SPECIFICATION LockSpec
CONSTANTS
    None = None
    Procs = {p1, p2, p3}
    LongHolds = FALSE
INVARIANTS
    AtomicReserve
