SPECIFICATION SiweSpec
CONSTANTS
  Wallet = {a, b}
  Nobody = Nobody
  Nonce = {n1, n2}
  Request = {r1, r2}
  Browser = {tab}
  NonceTTL = 1
  PurgeGrace = 0
  SessionTTL = 1
  MaxTime = 3
INVARIANTS SessionWitnessed
PROPERTY NoncesAreOneTimeGrants
CHECK_DEADLOCK FALSE
