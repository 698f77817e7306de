SPECIFICATION CSpec
CONSTANTS
  n = n
  x = x
  Sources = {n, x}
  Ipfix = {x}
  Tids = {1, 2}
  Datagrams <- MCDatagrams
  TemplateTtl = 1
  OrphanTtl = 1
  Orphans = 2
  MaxQueue = 2
  BatchSize = 2
  MaxSets = 4
  MaxTime = 2
  MaxErrors = 1
INVARIANTS OrphansAreDecoded FlowsAreKept
PROPERTIES QueueDrains
\* the daemon exits
CHECK_DEADLOCK FALSE
