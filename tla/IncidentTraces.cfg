SPECIFICATION TFairSpec
CONSTANTS
  Endpoints = {a, b}
  MaxChanges = 3
  MaxFails = 1
  Limit = 1
  Slots = 1
  Local = {b}
  Outputs <- MCOutputs
  Silent = Silent
  MaxTraces = 2
INVARIANTS OneSweep TracesAreTracked RoutesAreWhole
PROPERTIES SweepsFollowRows TracesEnd
