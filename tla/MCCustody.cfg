SPECIFICATION Spec
CONSTANTS
  w1 = w1
  w2 = w2
  w3 = w3
  Wallet = {w1, w2}
  Zero = Zero
  Deployer = w1
  Hash = {h1}
  NoHash = NoHash
  MaxOrganizations = 1
  RegistrarArgs = {}
  OwnerArgs = {}
  Application = {}
  MaxTime = 2
  RoleArgs = {"ADMIN", "MANAGER"}
  AccessArgs = {}
  ExpiryArgs = {2}
  OverrideArgs <- NoOverrides
  MaxTokens = 2
  MaxTransfers = 2
  ContractWallet = {w2}
  NftOwnerArgs = {}
INVARIANTS MemberListExact CustodyAgrees CustodyRecoverable VaultConfirmed
PROPERTIES CustodyMovedByOrganization
