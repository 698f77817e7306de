SPECIFICATION Spec
CONSTANTS
  Null = Null
  Second = 2
  Day = 2
  Created = 1
  MaxTime = 5
  MaxRows = 4
  MaxStops = 2
  MaxGaps = 1
INVARIANTS EverySecondOnce ReportsAgree OutagesCountedOnce
CHECK_DEADLOCK FALSE
