SPECIFICATION StoreSpec
CONSTANTS
  Requests = {r1, r2}
  Ops = {"add", "prune"}
  Old = old
INVARIANT PruneOnlyExpired
CHECK_DEADLOCK FALSE
