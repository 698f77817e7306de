SPECIFICATION FairSpec
CONSTANTS
  Workers = {u, v}
  Capacity = 2
  Upsets = {"connect", "session", "broker", "listen", "stop", "crash"}
  MaxEvents = 3
  MaxUpsets = 3
INVARIANTS OneLeader SentByOne
PROPERTIES HeardIsSent Failover
\* all events published and dispatched, nothing more happens
CHECK_DEADLOCK FALSE
