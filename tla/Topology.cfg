SPECIFICATION GSpec
CONSTANTS
  a = a
  b = b
  Endpoints = {a, b}
  Unborn = {b}
  Routers = {"r"}
  None = None
  Requests = {t1, t2}
  Routes <- MCRoutes
  Failures = {"r"}
  MaxChanges = 1
  MaxRequests = 2
  MaxUpsets = 1
SYMMETRY Symmetric
INVARIANTS TypeOK Connected GraphFollows
