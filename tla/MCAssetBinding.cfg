SPECIFICATION BindingSpec
CONSTANTS
  h1 = h1
  h2 = h2
  o1 = o1
  o2 = o2
  q1 = q1
  q2 = q2
  MaxRow = 2
  MaxLegacy = 1
  Hash = {h1, h2}
  Org = {o1}
  OrgOf <- OneOrg
  Request = {q1, q2}
  MaxRunning = 2
  MaxDeployment = 2
  MaxToken = 2
  MaxAnchors = 2
SYMMETRY RequestSymmetry
INVARIANTS BindingEarned NeverWedged RepairSettles ListedRecordIntact
PROPERTIES VerifiedBindingKept
