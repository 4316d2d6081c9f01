SPECIFICATION AccessSpec
CONSTANTS
  w1 = w1
  w2 = w2
  w3 = w3
  Wallet = {w1, w2, w3}
  Zero = Zero
  Deployer = w1
  Hash = {h1}
  NoHash = NoHash
  MaxOrganizations = 1
  RegistrarArgs = {}
  OwnerArgs = {}
  Application = {app}
  MaxTime = 2
  RoleArgs = {"ADMIN", "USER"}
  AccessArgs = {"USER"}
  ExpiryArgs = {2}
  OverrideArgs <- SomeOverrides
SYMMETRY AccessSymmetry
INVARIANTS GovernanceKept RosterExact ShownIsApplied RefusalsAreAnnounced
PROPERTIES OnlyMembersGovern NoSelfElevation
