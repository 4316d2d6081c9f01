SPECIFICATION AppsSpec
CONSTANTS
  App = {portal}
  Url = {u1, u2}
  AdminRequest = {r1, r2}
  Old = Old
  None = None
  Kinds = {"post", "patch", "secret"}
SYMMETRY AppsSymmetry
INVARIANTS RevocationStands
CHECK_DEADLOCK FALSE
