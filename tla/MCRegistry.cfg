SPECIFICATION AppsSpec
CONSTANTS
  App = {portal}
  Url = {u1, u2}
  AdminRequest = {r1, r2}
  Old = Old
  None = None
  Kinds = {"post", "patch", "secret", "provision", "reprovision", "seed"}
SYMMETRY AppsSymmetry
INVARIANTS RevocationHolds CallbacksAsAsked ShownSecretWorks
CHECK_DEADLOCK FALSE
