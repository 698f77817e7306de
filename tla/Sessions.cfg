SPECIFICATION Spec
CONSTANTS
  Workers = {u, v}
  MaxSessions = 1
  Upsets = {"error", "restart", "switch"}
  MaxLogins = 2
  MaxEnds = 1
  MaxUpsets = 2
SYMMETRY Symmetric
INVARIANTS RevokedStaysDead Quota NewestIsActive
