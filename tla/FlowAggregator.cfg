SPECIFICATION FairSpec
CONSTANTS
  Rows = {flow, iface}
  Kinds = {{}, {flow}, {flow, iface}}
  Batch = 2
  AckBatch = 1
  MaxLen = 2
  Upsets = {"rollback", "lost answer", "xack", "reply", "trim", "stop", "interrupt", "crash"}
  MaxRecords = 3
  MaxUpsets = 2
INVARIANTS TypeOK NeverOvercounted AckedIsStored
PROPERTIES ExactlyOnce
\* all records sent and counted, nothing more happens
CHECK_DEADLOCK FALSE
