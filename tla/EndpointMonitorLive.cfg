SPECIFICATION FairSpec
CONSTANTS
  Classes = {"UP", "DOWN"}
  None = None
  Threshold = 3
  LostAcks = TRUE
  MaxChanges = 2
  MaxFaults = 2
  MaxToggles = 2
  MaxDays = 1
PROPERTIES SettlesOnLink
\* an endpoint deactivated for good stops
CHECK_DEADLOCK FALSE
