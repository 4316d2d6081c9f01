SPECIFICATION RecordsSpec
CONSTANTS
  w1 = w1
  w2 = w2
  Wallet = {w1, w2}
  Zero = Zero
  Deployer = w1
  Hash = {h1, h2}
  NoHash = NoHash
  MaxOrganizations = 2
  RegistrarArgs = {w2}
  OwnerArgs = {w2}
  Flow = {f1, f2}
  People <- DemoPeople
  PersonHash = h1
  SeedHash = h1
  MaxTurns = 4
SYMMETRY FlowSymmetry
INVARIANTS OrgRecordEarned SeededOnce
PROPERTIES UndisturbedMirrors
CHECK_DEADLOCK FALSE
