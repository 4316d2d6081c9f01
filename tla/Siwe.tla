---------------------------------- MODULE Siwe ----------------------------------
(***************************************************************************)
(* Wallet sign-in: lib/siwe.ts, lib/session.ts and the routes under        *)
(* app/api/auth. A verify request is a process whose steps are separated   *)
(* by awaits on the database: other requests, the clock and the purge run  *)
(* in between. A challenge is its nonce: the text of a message is a        *)
(* function of address, nonce and times, so a message is those fields.     *)
(***************************************************************************)
EXTENDS Naturals, FiniteSets

CONSTANTS
  Wallet,     \* wallets people sign with
  Nobody,     \* no wallet
  Nonce,      \* results of randomBytes(16)
  Request,    \* POST /api/auth/verify requests
  Browser,    \* cookie jars
  NonceTTL,   \* NONCE_TTL_SECONDS
  PurgeGrace, \* purge_expired_nonces' one hour
  SessionTTL, \* SESSION_TTL_SECONDS
  MaxTime     \* bound: the last instant

ASSUME SiweAssumption ==
  /\ Nobody \notin Wallet
  /\ NonceTTL \in Nat /\ PurgeGrace \in Nat /\ SessionTTL \in Nat /\ MaxTime \in Nat

VARIABLES
  nonces,   \* table nonces: the row of each nonce
  requests, \* the verify requests and how far they are
  cookies,  \* the session each browser's cookie holds
  clock     \* Date.now(), and Postgres' now()

siweVars == <<nonces, requests, cookies, clock>>

(* A row that was purged keeps its fields here as history; nothing reads   *)
(* them. A nonce is random, so it is never drawn twice.                    *)
NonceRow == [row : {"none", "unused", "used", "purged"},
             wallet : Wallet \cup {Nobody}, expiresAt : Nat]

Verify == [pc : {"idle", "parsed", "checked", "consumed", "done", "refused"},
           browser : Browser, address : Wallet, nonce : Nonce, signer : Wallet,
           consumedAt : Nat]

Session == [wallet : Wallet \cup {Nobody}, issuedAt : Nat]

NoSession == [wallet |-> Nobody, issuedAt |-> 0]

SiweTypeOK ==
  /\ nonces \in [Nonce -> NonceRow]
  /\ requests \in [Request -> Verify]
  /\ cookies \in [Browser -> Session]
  /\ clock \in Nat
  /\ \A n \in Nonce : nonces[n].row # "none" => nonces[n].wallet \in Wallet

SiweInit ==
  /\ nonces = [n \in Nonce |-> [row |-> "none", wallet |-> Nobody, expiresAt |-> 0]]
  /\ requests \in [Request -> {[pc |-> "idle", browser |-> b, address |-> a, nonce |-> n,
                                signer |-> s, consumedAt |-> 0] :
                                 b \in Browser, a \in Wallet, n \in Nonce, s \in Wallet}]
  /\ cookies = [b \in Browser |-> NoSession]
  /\ clock = 1

-----------------------------------------------------------------------------
(* Issuing a challenge. Anyone may ask for one for any wallet.             *)

issueChallenge(n, w) ==
  /\ nonces[n].row = "none"
  /\ nonces' = [nonces EXCEPT ![n] =
                  [row |-> "unused", wallet |-> w, expiresAt |-> clock + NonceTTL]]
  /\ UNCHANGED <<requests, cookies, clock>>

-----------------------------------------------------------------------------
(* Verifying one. verifyChallenge is parse, readNonce and consume.         *)

goto(r, pc) == requests' = [requests EXCEPT ![r].pc = pc]

present(n) == nonces[n].row \in {"unused", "used"}

(* The checks on the message itself: domain, chain and its own expiry. A   *)
(* request that fails them ends without having done anything.              *)
parse(r, expirationTime) ==
  /\ requests[r].pc = "idle"
  /\ expirationTime > clock
  /\ goto(r, "parsed")
  /\ UNCHANGED <<nonces, cookies, clock>>

readNonce_anyWallet(r) == \* mutant: the wallet of the row is not compared
  LET q == requests[r]  n == nonces[q.nonce] IN
  /\ q.pc = "parsed"
  /\ goto(r, IF /\ n.row = "unused" /\ n.expiresAt > clock
                /\ q.signer = q.address
             THEN "checked" ELSE "refused")
  /\ UNCHANGED <<nonces, cookies, clock>>

(* The row is read, and the row and the signature are checked.             *)
readNonce(r) ==
  LET q == requests[r]  n == nonces[q.nonce] IN
  /\ q.pc = "parsed"
  /\ goto(r, IF /\ n.row = "unused" /\ n.expiresAt > clock
                /\ n.wallet = q.address
                /\ q.signer = q.address
             THEN "checked" ELSE "refused")
  /\ UNCHANGED <<nonces, cookies, clock>>

consume_unconditional(r) == \* mutant: the update does not ask for used_at IS NULL
  LET n == requests[r].nonce IN
  /\ requests[r].pc = "checked"
  /\ IF present(n)
     THEN /\ nonces' = [nonces EXCEPT ![n].row = "used"]
          /\ requests' = [requests EXCEPT ![r].pc = "consumed", ![r].consumedAt = clock]
     ELSE /\ goto(r, "refused")
          /\ UNCHANGED nonces
  /\ UNCHANGED <<cookies, clock>>

(* UPDATE ... WHERE nonce = n AND used_at IS NULL, and its answer.         *)
consume(r) ==
  LET n == requests[r].nonce IN
  /\ requests[r].pc = "checked"
  /\ IF nonces[n].row = "unused"
     THEN /\ nonces' = [nonces EXCEPT ![n].row = "used"]
          /\ requests' = [requests EXCEPT ![r].pc = "consumed", ![r].consumedAt = clock]
     ELSE /\ goto(r, "refused")
          /\ UNCHANGED nonces
  /\ UNCHANGED <<cookies, clock>>

(* The update is committed and its answer is lost: the client is refused.  *)
consumeUnheard(r) ==
  LET n == requests[r].nonce IN
  /\ requests[r].pc = "checked"
  /\ nonces[n].row = "unused"
  /\ nonces' = [nonces EXCEPT ![n].row = "used"]
  /\ goto(r, "refused")
  /\ UNCHANGED <<cookies, clock>>

(* A read or an update that fails without effect refuses too.              *)
databaseFails(r) ==
  /\ requests[r].pc \in {"parsed", "checked"}
  /\ goto(r, "refused")
  /\ UNCHANGED <<nonces, cookies, clock>>

(* createSession. The cookie is part of whatever the handler then answers, *)
(* a failure of the reads for the response body included.                  *)
createSession(r) ==
  LET q == requests[r] IN
  /\ q.pc = "consumed"
  /\ cookies' = [cookies EXCEPT ![q.browser] = [wallet |-> q.address, issuedAt |-> clock]]
  /\ goto(r, "done")
  /\ UNCHANGED <<nonces, clock>>

-----------------------------------------------------------------------------

destroySession(b) ==
  /\ cookies' = [cookies EXCEPT ![b] = NoSession]
  /\ UNCHANGED <<nonces, requests, clock>>

(* The wallet a browser's requests act for.                                *)
sessionWallet(b) ==
  LET s == cookies[b] IN
  IF s = NoSession \/ clock - s.issuedAt > SessionTTL THEN Nobody ELSE s.wallet

purge_expired_nonces ==
  /\ nonces' = [n \in Nonce |->
                  IF present(n) /\ nonces[n].expiresAt + PurgeGrace < clock
                  THEN [nonces[n] EXCEPT !.row = "purged"] ELSE nonces[n]]
  /\ UNCHANGED <<requests, cookies, clock>>

Tick ==
  /\ clock < MaxTime
  /\ clock' = clock + 1
  /\ UNCHANGED <<nonces, requests, cookies>>

verifyStep(r) ==
  \/ readNonce(r)
  \/ consume(r)
  \/ createSession(r)

SiweNext ==
  \/ \E n \in Nonce, w \in Wallet : issueChallenge(n, w)
  \/ \E r \in Request, t \in 0..MaxTime : parse(r, t)
  \/ \E r \in Request : verifyStep(r) \/ consumeUnheard(r) \/ databaseFails(r)
  \/ \E b \in Browser : destroySession(b)
  \/ purge_expired_nonces
  \/ Tick

SiweSpec == SiweInit /\ [][SiweNext]_siweVars

-----------------------------------------------------------------------------
(* What is promised.                                                       *)

opened(n) == {r \in Request : requests[r].nonce = n /\ requests[r].pc \in {"consumed", "done"}}

Challenges == INSTANCE OneTimeGrant WITH
  Grant    <- Nonce,
  Redeemer <- Request,
  state    <- [n \in Nonce |-> CASE nonces[n].row = "none"   -> "unissued"
                                 [] nonces[n].row = "unused" -> "live"
                                 [] OTHER                    -> "over"],
  served   <- [n \in Nonce |-> opened(n)]

(* A nonce is a one-time grant: of the requests that present it, however   *)
(* they interleave with each other and with the purge, at most one opens a *)
(* session, and a lost answer costs a new challenge, never a second use.   *)
NoncesAreOneTimeGrants == Challenges!Spec

(* Behind every session there is a signature. The wallet a browser acts    *)
(* for signed a challenge that was issued to that wallet, presented it     *)
(* from that browser, and no later than the session claims to begin.       *)
SessionWitnessed ==
  \A b \in Browser :
    sessionWallet(b) # Nobody =>
      \E r \in Request :
        LET q == requests[r] IN
        /\ q.pc = "done" /\ q.browser = b
        /\ q.address = sessionWallet(b) /\ q.signer = q.address
        /\ nonces[q.nonce].wallet = q.address
        /\ q.consumedAt <= cookies[b].issuedAt
=============================================================================
