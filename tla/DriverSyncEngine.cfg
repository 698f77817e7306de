SPECIFICATION FairSpec
CONSTANTS
  Workers = {u, v}
  Upsets = {}
  Configured = FALSE
  MaxPatches = 1
  MaxUpsets = 0
INVARIANT EngineIsHeard
\* all changes made, nothing more happens
CHECK_DEADLOCK FALSE
