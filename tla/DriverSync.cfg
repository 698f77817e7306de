SPECIFICATION FairSpec
CONSTANTS
  Workers = {u, v}
  Upsets = {"redis", "broadcast", "database", "worker", "engine", "read"}
  Configured = FALSE
  MaxPatches = 2
  MaxUpsets = 1
INVARIANTS TypeOK FlowNeedsRedis
PROPERTIES WorkersAgree
\* all changes made, nothing more happens
CHECK_DEADLOCK FALSE
