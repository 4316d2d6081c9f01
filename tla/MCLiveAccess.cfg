SPECIFICATION MCLiveSpec
CONSTANTS
  root = root
  employee = employee
  h = h
  Wallet = {root, employee}
  Zero = Zero
  Deployer = root
  Hash = {h}
  NoHash = NoHash
  MaxOrganizations = 1
  RegistrarArgs = {}
  OwnerArgs = {}
  Application = {portal}
  MaxTime = 3
  RoleArgs = {"USER"}
  AccessArgs = {"USER"}
  ExpiryArgs = {0, 3}
  OverrideArgs <- NoOverrides
  Subject = employee
  Org = 1
  App = portal
  MaxLag = 1
  MaxMoves = 4
INVARIANTS AllowedWasAllowed MemberLetIn
CHECK_DEADLOCK FALSE
