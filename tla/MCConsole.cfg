SPECIFICATION ConsoleSpec
CONSTANTS
  Run = {r1}
  Load = {l1, l2}
  Org = {o1, o2}
  NoOrg = NoOrg
  None = None
  Kinds = {"card", "register", "mint", "identity", "organisation"}
  MaxMoves = 2
SYMMETRY Interchangeable
INVARIANTS ListIsCurrent LoadingIsAsking DoneMeansLanded
CHECK_DEADLOCK FALSE
