SPECIFICATION Spec
CONSTANTS
  Classes = {"UP", "UP-UNSTABLE", "DOWN"}
  None = None
  Threshold = 3
  LostAcks = FALSE
  MaxChanges = 3
  MaxFaults = 1
  MaxToggles = 2
  MaxDays = 2
INVARIANTS TypeOK OneOpenRow EntryIsLatestRow NoMissedChange
PROPERTIES ToldIsRecorded SustainedChange FollowsTheRule
\* an endpoint deactivated for good stops
CHECK_DEADLOCK FALSE
