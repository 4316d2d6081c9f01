SPECIFICATION PortalSpec
CONSTANTS
  Browser = {b1, b2}
  Wallet = {w1, w2}
  Request = {q1, q2, q3, q4}
  Consent = {c1, c2}
  None = None
  StateTTL = 0
  MaxTime = 2
  MaxMoves = 1
SYMMETRY Interchangeable
INVARIANTS  StateSpentOnce 
CHECK_DEADLOCK FALSE
