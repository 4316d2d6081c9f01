SPECIFICATION AuthSpec
CONSTANTS
  App = {portal, other}
  Url <- Spellings
  NodeEnv = "production"
  LoopbackHost = {"localhost"}
  FormHost = {"localhost"}
  Unregistered = Unregistered
  Wallet = {w}
  Request = {r1, r2, r3}
  None = None
  CodeTTL = 1
  PurgeGrace = 0
  MaxTime = 3
  MaxOf <- OneConsent
  MaxMoves = 1
SYMMETRY AuthSymmetry
INVARIANTS ClaimsEarned RedirectsRegistered
PROPERTIES CodesAreOneTimeGrants
CHECK_DEADLOCK FALSE
