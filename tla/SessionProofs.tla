------------------------------ MODULE SessionProofs ------------------------------
(***************************************************************************)
(* Theorems about OneTimeGrant, for any grants and redeemers; about Siwe,  *)
(* for any number of wallets, nonces, requests and browsers and any times  *)
(* to live; and about Console, what a tab makes of a session, for any      *)
(* number of writes, requests for a list and organizations.                *)
(***************************************************************************)
EXTENDS Siwe, OneTimeGrant, Console, TLAPS

-----------------------------------------------------------------------------
(* OneTimeGrant: what is proved here holds of whatever implements it.      *)

(* A grant that is not over was served to nobody: without it Redeem could  *)
(* replace the request that was served.                                    *)
GrantInv == GrantTypeOK /\ ServedOnce

LEMMA GrantInvInductive == GrantInv /\ [Next]_grantVars => GrantInv'
<1> SUFFICES ASSUME GrantInv, [Next]_grantVars PROVE GrantInv'
  OBVIOUS
<1> USE DEF GrantInv, GrantTypeOK, ServedOnce
<1>1. ASSUME NEW g \in Grant, Issue(g) PROVE GrantInv'
  BY <1>1 DEF Issue
<1>2. ASSUME NEW g \in Grant, NEW r \in Redeemer, Redeem(g, r) PROVE GrantInv'
  <2>1. \A x \in Grant : served'[x] = IF x = g THEN {r} ELSE served[x]
    BY <1>2 DEF Redeem
  <2>2. \A x \in Grant : state'[x] = IF x = g THEN "over" ELSE state[x]
    BY <1>2 DEF Redeem
  <2>3. GrantTypeOK'
    BY <1>2 DEF Redeem
  <2>4. QED
    BY <2>1, <2>2, <2>3
<1>3. ASSUME NEW gs \in SUBSET Grant, Drop(gs) PROVE GrantInv'
  BY <1>3 DEF Drop
<1>4. CASE UNCHANGED grantVars
  BY <1>4 DEF grantVars
<1>5. QED
  BY <1>1, <1>2, <1>3, <1>4 DEF Next

(* Two requests never both get the same nonce or authorization code, and a *)
(* grant that was served is never good again: the rule that the            *)
(* conditional updates of siwe.ts and authorize-store.ts are there for.    *)
THEOREM GrantsServedOnce == Spec => []ServedOnce
<1>1. Init => GrantInv
  BY DEF Init, GrantInv, GrantTypeOK, ServedOnce
<1>2. GrantInv => ServedOnce
  BY DEF GrantInv
<1>3. QED
  BY <1>1, <1>2, GrantInvInductive, PTL DEF Spec

-----------------------------------------------------------------------------
(* Siwe.                                                                   *)

USE SiweAssumption

opens(q) == q.pc \in {"consumed", "done"}

(* What a request has established by the time it is past readNonce, past   *)
(* consume, and behind a cookie. The first two are what makes the witness  *)
(* of a session exist when createSession runs, and keep it true while the  *)
(* row is used up and purged.                                              *)
Checked ==
  \A r \in Request :
    LET q == requests[r] IN
    q.pc \in {"checked", "consumed", "done"} =>
      q.signer = q.address /\ nonces[q.nonce].wallet = q.address /\ nonces[q.nonce].row # "none"

Spent ==
  \A r \in Request :
    opens(requests[r]) =>
      nonces[requests[r].nonce].row \in {"used", "purged"} /\ requests[r].consumedAt <= clock

Cookied ==
  \A b \in Browser :
    cookies[b].wallet # Nobody =>
      \E r \in Request :
        /\ requests[r].pc = "done" /\ requests[r].browser = b
        /\ requests[r].address = cookies[b].wallet
        /\ requests[r].consumedAt <= cookies[b].issuedAt

SiweInv == SiweTypeOK /\ Checked /\ Spent /\ Cookied

(* A step of one request that opens nothing new: it moves the program      *)
(* counter of r, and to "checked" only past the checks of readNonce.       *)
LEMMA Goto ==
  ASSUME SiweInv, NEW r \in Request, NEW pc \in {"parsed", "checked", "refused"},
         goto(r, pc), UNCHANGED <<nonces, cookies, clock>>,
         requests[r].pc \in {"idle", "parsed", "checked"},
         pc = "checked" =>
           /\ requests[r].signer = requests[r].address
           /\ nonces[requests[r].nonce].wallet = requests[r].address
           /\ nonces[requests[r].nonce].row # "none"
  PROVE  SiweInv'
<1> USE DEF SiweInv
<1>1. /\ requests' = [requests EXCEPT ![r].pc = pc]
      /\ \A x \in Request \ {r} : requests'[x] = requests[x]
      /\ requests'[r] = [requests[r] EXCEPT !.pc = pc]
      /\ requests[r] \in Verify
  BY DEF goto, SiweTypeOK
<1>2. SiweTypeOK'
  BY <1>1 DEF SiweTypeOK, Verify
<1>3. Checked'
  BY <1>1 DEF Checked, SiweTypeOK, Verify
<1>4. Spent'
  BY <1>1 DEF Spent, opens, SiweTypeOK, Verify
<1>5. Cookied'
  BY <1>1 DEF Cookied, SiweTypeOK, Verify
<1>6. QED
  BY <1>2, <1>3, <1>4, <1>5

LEMMA SiweInitInv == SiweInit => SiweInv
<1> SUFFICES ASSUME SiweInit PROVE SiweInv
  OBVIOUS
<1>1. SiweTypeOK
  BY DEF SiweInit, SiweTypeOK, NonceRow, Verify, Session, NoSession
<1>2. \A r \in Request : requests[r].pc = "idle"
  BY DEF SiweInit
<1>3. QED
  BY <1>1, <1>2 DEF SiweInv, Checked, Spent, Cookied, opens, SiweInit, NoSession

LEMMA IssueInv ==
  ASSUME SiweInv, NEW n \in Nonce, NEW w \in Wallet, issueChallenge(n, w)
  PROVE  SiweInv'
<1> USE DEF SiweInv, issueChallenge
<1>1. /\ \A m \in Nonce \ {n} : nonces'[m] = nonces[m]
      /\ nonces'[n] = [row |-> "unused", wallet |-> w, expiresAt |-> clock + NonceTTL]
  BY DEF SiweTypeOK
<1>2. SiweTypeOK'
  BY <1>1 DEF SiweTypeOK, NonceRow
<1>3. Checked'
  BY <1>1 DEF Checked, SiweTypeOK, Verify
<1>4. Spent'
  BY <1>1 DEF Spent, opens, SiweTypeOK, Verify
<1>5. Cookied'
  BY DEF Cookied
<1>6. QED
  BY <1>2, <1>3, <1>4, <1>5

(* The row is used up, by a request that learns of it or not.              *)
LEMMA UseUp ==
  ASSUME SiweInv, NEW r \in Request, requests[r].pc = "checked",
         nonces[requests[r].nonce].row = "unused",
         nonces' = [nonces EXCEPT ![requests[r].nonce].row = "used"],
         \/ requests' = [requests EXCEPT ![r].pc = "consumed", ![r].consumedAt = clock]
         \/ goto(r, "refused"),
         UNCHANGED <<cookies, clock>>
  PROVE  SiweInv'
<1> DEFINE n == requests[r].nonce
<1> USE DEF SiweInv
<1>1. /\ \A m \in Nonce \ {n} : nonces'[m] = nonces[m]
      /\ nonces'[n] = [nonces[n] EXCEPT !.row = "used"]
      /\ n \in Nonce /\ nonces[n] \in NonceRow
  BY DEF SiweTypeOK, Verify
<1>2. /\ \A x \in Request \ {r} : requests'[x] = requests[x]
      /\ requests[r] \in Verify
      /\ \/ requests'[r] = [requests[r] EXCEPT !.pc = "consumed", !.consumedAt = clock]
         \/ requests'[r] = [requests[r] EXCEPT !.pc = "refused"]
  BY DEF SiweTypeOK, goto
<1>3. requests' \in [Request -> Verify]
  BY <1>2 DEF SiweTypeOK, Verify, goto
<1>4. SiweTypeOK'
  BY <1>1, <1>3 DEF SiweTypeOK, NonceRow
<1>5. \A m \in Nonce : nonces'[m].wallet = nonces[m].wallet
                         /\ (nonces[m].row # "none" => nonces'[m].row # "none")
                         /\ (nonces[m].row \in {"used", "purged"} => nonces'[m].row \in {"used", "purged"})
  BY <1>1 DEF NonceRow
<1>6. Checked'
  <2> SUFFICES ASSUME NEW x \in Request, requests'[x].pc \in {"checked", "consumed", "done"}
               PROVE  /\ requests'[x].signer = requests'[x].address
                      /\ nonces'[requests'[x].nonce].wallet = requests'[x].address
                      /\ nonces'[requests'[x].nonce].row # "none"
    BY DEF Checked
  <2>1. /\ requests[x].pc \in {"checked", "consumed", "done"}
        /\ requests'[x].signer = requests[x].signer /\ requests'[x].address = requests[x].address
        /\ requests'[x].nonce = requests[x].nonce /\ requests[x].nonce \in Nonce
    <3>1. requests[x] \in Verify
      BY DEF SiweTypeOK
    <3>2. CASE x = r
      BY <3>1, <3>2, <1>2 DEF Verify
    <3>3. CASE x # r
      BY <3>1, <3>3, <1>2 DEF Verify
    <3>4. QED
      BY <3>2, <3>3
  <2>2. QED
    BY <2>1, <1>5 DEF Checked
<1>7. Spent'
  <2> SUFFICES ASSUME NEW x \in Request, opens(requests'[x])
               PROVE  /\ nonces'[requests'[x].nonce].row \in {"used", "purged"}
                      /\ requests'[x].consumedAt <= clock
    BY DEF Spent
  <2>1. CASE x = r
    <3>1. requests'[r].pc = "consumed" /\ requests'[r].consumedAt = clock /\ requests'[r].nonce = n
      BY <2>1, <1>2 DEF opens, Verify
    <3>2. QED
      BY <2>1, <3>1, <1>1 DEF NonceRow, SiweTypeOK
  <2>2. CASE x # r
    <3>1. requests'[x] = requests[x] /\ requests[x].nonce \in Nonce
      BY <2>2, <1>2 DEF SiweTypeOK, Verify
    <3>2. QED
      BY <3>1, <1>5 DEF Spent
  <2>3. QED
    BY <2>1, <2>2
<1>8. Cookied'
  BY <1>2 DEF Cookied
<1>9. QED
  BY <1>4, <1>6, <1>7, <1>8

LEMMA CreateSessionInv ==
  ASSUME SiweInv, NEW r \in Request, createSession(r)
  PROVE  SiweInv'
<1> DEFINE q == requests[r]
<1> USE DEF SiweInv
<1>1. /\ \A x \in Request \ {r} : requests'[x] = requests[x]
      /\ requests'[r] = [q EXCEPT !.pc = "done"]
      /\ q \in Verify /\ q.pc = "consumed"
  BY DEF SiweTypeOK, createSession, goto
<1>2. /\ \A b \in Browser \ {q.browser} : cookies'[b] = cookies[b]
      /\ cookies'[q.browser] = [wallet |-> q.address, issuedAt |-> clock]
  BY <1>1 DEF SiweTypeOK, createSession, Verify
<1>3. SiweTypeOK'
  BY <1>1 DEF SiweTypeOK, createSession, goto, Verify, Session
<1>4. Checked'
  BY <1>1 DEF Checked, createSession, Verify
<1>5. Spent'
  BY <1>1 DEF Spent, opens, createSession, Verify
<1>6. Cookied'
  <2> SUFFICES ASSUME NEW b \in Browser, cookies'[b].wallet # Nobody
               PROVE  \E x \in Request :
                        /\ requests'[x].pc = "done" /\ requests'[x].browser = b
                        /\ requests'[x].address = cookies'[b].wallet
                        /\ requests'[x].consumedAt <= cookies'[b].issuedAt
    BY DEF Cookied
  <2>1. CASE b = q.browser
    <3>1. q.consumedAt <= clock
      BY <1>1 DEF Spent, opens
    <3>2. QED
      BY <2>1, <3>1, <1>1, <1>2 DEF Verify
  <2>2. CASE b # q.browser
    BY <2>2, <1>1, <1>2 DEF Cookied
  <2>3. QED
    BY <2>1, <2>2
<1>7. QED
  BY <1>3, <1>4, <1>5, <1>6

LEMMA PurgeInv ==
  ASSUME SiweInv, purge_expired_nonces
  PROVE  SiweInv'
<1> USE DEF SiweInv
<1>1. \A n \in Nonce :
        /\ nonces'[n] \in NonceRow
        /\ nonces'[n].wallet = nonces[n].wallet
        /\ nonces'[n].row = "none" <=> nonces[n].row = "none"
        /\ nonces[n].row \in {"used", "purged"} => nonces'[n].row \in {"used", "purged"}
  BY DEF purge_expired_nonces, present, SiweTypeOK, NonceRow
<1>2. SiweTypeOK'
  BY <1>1 DEF SiweTypeOK, purge_expired_nonces
<1>3. Checked' /\ Spent' /\ Cookied'
  BY <1>1 DEF Checked, Spent, Cookied, opens, purge_expired_nonces, SiweTypeOK, Verify
<1>4. QED
  BY <1>2, <1>3

LEMMA SiweNextInv == SiweInv /\ [SiweNext]_siweVars => SiweInv'
<1> SUFFICES ASSUME SiweInv, [SiweNext]_siweVars PROVE SiweInv'
  OBVIOUS
<1>1. ASSUME NEW n \in Nonce, NEW w \in Wallet, issueChallenge(n, w) PROVE SiweInv'
  BY <1>1, IssueInv
<1>2. ASSUME NEW r \in Request, NEW t \in 0..MaxTime, parse(r, t) PROVE SiweInv'
  BY <1>2, Goto DEF parse
<1>3. ASSUME NEW r \in Request, readNonce(r) PROVE SiweInv'
  BY <1>3, Goto DEF readNonce
<1>4. ASSUME NEW r \in Request, consume(r) PROVE SiweInv'
  <2>1. CASE nonces[requests[r].nonce].row = "unused"
    BY <1>4, <2>1, UseUp DEF consume
  <2>2. CASE nonces[requests[r].nonce].row # "unused"
    BY <1>4, <2>2, Goto DEF consume
  <2>3. QED
    BY <2>1, <2>2
<1>5. ASSUME NEW r \in Request, consumeUnheard(r) PROVE SiweInv'
  BY <1>5, UseUp DEF consumeUnheard
<1>6. ASSUME NEW r \in Request, databaseFails(r) PROVE SiweInv'
  BY <1>6, Goto DEF databaseFails
<1>7. ASSUME NEW r \in Request, createSession(r) PROVE SiweInv'
  BY <1>7, CreateSessionInv
<1>8. ASSUME NEW b \in Browser, destroySession(b) PROVE SiweInv'
  BY <1>8 DEF SiweInv, destroySession, SiweTypeOK, Checked, Spent, Cookied, opens, NoSession, Session
<1>9. CASE purge_expired_nonces
  BY <1>9, PurgeInv
<1>10. CASE Tick
  BY <1>10 DEF SiweInv, Tick, SiweTypeOK, Checked, Spent, Cookied, opens, Verify
<1>11. CASE UNCHANGED siweVars
  BY <1>11 DEF SiweInv, siweVars, SiweTypeOK, Checked, Spent, Cookied, opens
<1>12. QED
  BY <1>1, <1>2, <1>3, <1>4, <1>5, <1>6, <1>7, <1>8, <1>9, <1>10, <1>11 DEF SiweNext, verifyStep

(* Type correctness of sign-in.                                            *)
THEOREM SiweTypeCorrect == SiweSpec => []SiweTypeOK
<1>1. SiweInv => SiweTypeOK
  BY DEF SiweInv
<1>2. QED
  BY <1>1, SiweInitInv, SiweNextInv, PTL DEF SiweSpec

(* Behind every session there is a signature over a challenge of that very *)
(* wallet, from that very browser: verifyChallenge and createSession hold  *)
(* it for any number of racing requests.                                   *)
THEOREM SessionsStayWitnessed == SiweSpec => []SessionWitnessed
<1>1. SiweInv => SessionWitnessed
  <2> SUFFICES ASSUME SiweInv, NEW b \in Browser, sessionWallet(b) # Nobody
               PROVE  \E r \in Request :
                        LET q == requests[r] IN
                        /\ q.pc = "done" /\ q.browser = b
                        /\ q.address = sessionWallet(b) /\ q.signer = q.address
                        /\ nonces[q.nonce].wallet = q.address
                        /\ q.consumedAt <= cookies[b].issuedAt
    BY DEF SessionWitnessed
  <2>1. sessionWallet(b) = cookies[b].wallet
    BY DEF sessionWallet
  <2>2. PICK r \in Request : /\ requests[r].pc = "done" /\ requests[r].browser = b
                             /\ requests[r].address = cookies[b].wallet
                             /\ requests[r].consumedAt <= cookies[b].issuedAt
    BY <2>1 DEF SiweInv, Cookied
  <2>3. QED
    BY <2>1, <2>2 DEF SiweInv, Checked
<1>2. QED
  BY <1>1, SiweInitInv, SiweNextInv, PTL DEF SiweSpec

-----------------------------------------------------------------------------
(* The refinement.                                                         *)

gate(n) == CASE nonces[n].row = "none"   -> "unissued"
             [] nonces[n].row = "unused" -> "live"
             [] OTHER                    -> "over"

states == [n \in Nonce |-> gate(n)]
winners == [n \in Nonce |-> opened(n)]

(* A step that leaves every row and the set of winners alone is a stutter. *)
LEMMA SameGrants ==
  ASSUME \A n \in Nonce : nonces'[n].row = nonces[n].row,
         \A r \in Request : opens(requests'[r]) = opens(requests[r])
                            /\ requests'[r].nonce = requests[r].nonce
  PROVE  states' = states /\ winners' = winners
<1>1. \A n \in Nonce : gate(n)' = gate(n)
  BY DEF gate
<1>2. \A n \in Nonce : opened(n)' = opened(n)
  BY DEF opened, opens
<1>3. QED
  BY <1>1, <1>2 DEF states, winners

LEMMA GotoGrants ==
  ASSUME SiweInv, NEW r \in Request, NEW pc \in {"parsed", "checked", "refused"},
         goto(r, pc), UNCHANGED nonces, requests[r].pc \in {"idle", "parsed", "checked"}
  PROVE  states' = states /\ winners' = winners
<1>1. /\ \A x \in Request \ {r} : requests'[x] = requests[x]
      /\ requests'[r] = [requests[r] EXCEPT !.pc = pc]
      /\ requests[r] \in Verify
  BY DEF goto, SiweInv, SiweTypeOK
<1>2. \A x \in Request : opens(requests'[x]) = opens(requests[x])
                         /\ requests'[x].nonce = requests[x].nonce
  <2> SUFFICES ASSUME NEW x \in Request
               PROVE  opens(requests'[x]) = opens(requests[x])
                      /\ requests'[x].nonce = requests[x].nonce
    OBVIOUS
  <2>1. CASE x = r
    BY <2>1, <1>1 DEF opens, Verify
  <2>2. CASE x # r
    BY <2>2, <1>1
  <2>3. QED
    BY <2>1, <2>2
<1>3. QED
  BY <1>2, SameGrants

(* The row of a nonce nobody opened yet is used up: by r, or unheard.      *)
LEMMA UseUpGrants ==
  ASSUME SiweInv, NEW r \in Request, requests[r].pc = "checked",
         NEW n \in Nonce, n = requests[r].nonce, nonces[n].row = "unused",
         nonces' = [nonces EXCEPT ![n].row = "used"]
  PROVE  /\ states[n] = "live" /\ states' = [states EXCEPT ![n] = "over"]
         /\ winners[n] = {}
         /\ requests' = [requests EXCEPT ![r].pc = "consumed", ![r].consumedAt = clock]
              => winners' = [winners EXCEPT ![n] = {r}]
         /\ goto(r, "refused") => winners' = winners
<1>1. /\ nonces[n] \in NonceRow /\ requests[r] \in Verify
      /\ \A m \in Nonce \ {n} : nonces'[m] = nonces[m]
      /\ nonces'[n] = [nonces[n] EXCEPT !.row = "used"]
  BY DEF SiweInv, SiweTypeOK, Verify
<1>2. states[n] = "live"
  BY <1>1 DEF states, gate
<1>3. states' = [states EXCEPT ![n] = "over"]
  <2>1. gate(n)' = "over"
    BY <1>1 DEF gate, NonceRow
  <2>2. \A m \in Nonce \ {n} : gate(m)' = gate(m)
    BY <1>1 DEF gate
  <2>3. QED
    BY <2>1, <2>2, <1>1 DEF states
<1>4. \A x \in Request : opens(requests[x]) => requests[x].nonce # n
  BY <1>1 DEF SiweInv, Spent
<1>5. opened(n) = {}
  BY <1>4 DEF opened, opens
<1>6. ASSUME requests' = [requests EXCEPT ![r].pc = "consumed", ![r].consumedAt = clock]
      PROVE  winners' = [winners EXCEPT ![n] = {r}]
  <2>1. /\ \A x \in Request \ {r} : requests'[x] = requests[x]
        /\ requests'[r].pc = "consumed" /\ requests'[r].nonce = n
    BY <1>6, <1>1 DEF SiweInv, SiweTypeOK, Verify
  <2>2. opened(n)' = {r}
    BY <2>1, <1>4 DEF opened, opens
  <2>3. \A m \in Nonce \ {n} : opened(m)' = opened(m)
    BY <2>1 DEF opened
  <2>4. QED
    BY <2>2, <2>3, <1>1 DEF winners
<1>7. ASSUME goto(r, "refused") PROVE winners' = winners
  <2>1. /\ \A x \in Request \ {r} : requests'[x] = requests[x]
        /\ requests'[r].pc = "refused" /\ requests[r].pc = "checked"
    BY <1>7, <1>1 DEF SiweInv, SiweTypeOK, goto, Verify
  <2>2. \A m \in Nonce : opened(m)' = opened(m)
    BY <2>1 DEF opened
  <2>3. QED
    BY <2>2 DEF winners
<1>8. QED
  BY <1>1, <1>2, <1>3, <1>5, <1>6, <1>7 DEF winners

LEMMA IssueGrants ==
  ASSUME SiweInv, NEW n \in Nonce, NEW w \in Wallet, issueChallenge(n, w)
  PROVE  states[n] = "unissued" /\ states' = [states EXCEPT ![n] = "live"] /\ winners' = winners
<1>1. /\ \A m \in Nonce \ {n} : nonces'[m] = nonces[m]
      /\ nonces'[n].row = "unused" /\ nonces[n].row = "none" /\ requests' = requests
  BY DEF SiweInv, SiweTypeOK, issueChallenge
<1>2. gate(n) = "unissued" /\ gate(n)' = "live"
  BY <1>1 DEF gate
<1>3. \A m \in Nonce \ {n} : gate(m)' = gate(m)
  BY <1>1 DEF gate
<1>4. \A m \in Nonce : opened(m)' = opened(m)
  BY <1>1 DEF opened
<1>5. QED
  BY <1>2, <1>3, <1>4 DEF states, winners

(* The purge drops the unused rows it deletes. The used ones were over.    *)
LEMMA PurgeGrants ==
  ASSUME SiweInv, purge_expired_nonces
  PROVE  \E gs \in SUBSET Nonce :
           /\ \A n \in gs : states[n] = "live"
           /\ states' = [n \in Nonce |-> IF n \in gs THEN "over" ELSE states[n]]
           /\ winners' = winners
<1> DEFINE gs == {n \in Nonce : nonces[n].row = "unused" /\ nonces'[n].row # "unused"}
<1>1. \A n \in Nonce :
        /\ nonces'[n].row = "none" <=> nonces[n].row = "none"
        /\ nonces[n].row # "unused" => nonces'[n].row # "unused"
  BY DEF purge_expired_nonces, present, SiweInv, SiweTypeOK, NonceRow
<1>2. \A n \in gs : states[n] = "live"
  BY DEF states, gate
<1>3. \A n \in Nonce : gate(n)' = IF n \in gs THEN "over" ELSE gate(n)
  BY <1>1 DEF gate
<1>4. states' = [n \in Nonce |-> IF n \in gs THEN "over" ELSE states[n]]
  BY <1>3 DEF states
<1>5. \A n \in Nonce : opened(n)' = opened(n)
  BY DEF opened, purge_expired_nonces
<1>6. winners' = winners
  BY <1>5 DEF winners
<1>7. gs \in SUBSET Nonce
  OBVIOUS
<1> HIDE DEF gs
<1>8. QED
  BY <1>2, <1>4, <1>6, <1>7

GrantStep ==
  \/ \E n \in Nonce : states[n] = "unissued" /\ states' = [states EXCEPT ![n] = "live"]
                       /\ winners' = winners
  \/ \E n \in Nonce, r \in Request : states[n] = "live" /\ states' = [states EXCEPT ![n] = "over"]
                                     /\ winners' = [winners EXCEPT ![n] = {r}]
  \/ \E gs \in SUBSET Nonce : /\ \A n \in gs : states[n] = "live"
                             /\ states' = [n \in Nonce |-> IF n \in gs THEN "over" ELSE states[n]]
                             /\ winners' = winners
  \/ states' = states /\ winners' = winners

(* Every step of sign-in is a step of the grants or none.                  *)
LEMMA SiweStepsAreGrantSteps == SiweInv /\ [SiweNext]_siweVars => GrantStep
<1> SUFFICES ASSUME SiweInv, [SiweNext]_siweVars PROVE GrantStep
  OBVIOUS
<1>1. ASSUME NEW n \in Nonce, NEW w \in Wallet, issueChallenge(n, w) PROVE GrantStep
  BY <1>1, IssueGrants DEF GrantStep
<1>2. ASSUME NEW r \in Request, NEW t \in 0..MaxTime, parse(r, t) PROVE GrantStep
  BY <1>2, GotoGrants DEF parse, GrantStep
<1>3. ASSUME NEW r \in Request, readNonce(r) PROVE GrantStep
  BY <1>3, GotoGrants DEF readNonce, GrantStep
<1>4. ASSUME NEW r \in Request, consume(r) PROVE GrantStep
  <2>1. PICK n \in Nonce : n = requests[r].nonce
    BY DEF SiweInv, SiweTypeOK, Verify
  <2>2. CASE nonces[n].row = "unused"
    <3>1. /\ requests[r].pc = "checked" /\ nonces' = [nonces EXCEPT ![n].row = "used"]
          /\ requests' = [requests EXCEPT ![r].pc = "consumed", ![r].consumedAt = clock]
      BY <1>4, <2>1, <2>2 DEF consume
    <3>2. /\ states[n] = "live" /\ states' = [states EXCEPT ![n] = "over"]
          /\ winners' = [winners EXCEPT ![n] = {r}]
      BY <2>1, <2>2, <3>1, UseUpGrants
    <3> QED
      BY <3>2 DEF GrantStep
  <2>3. CASE nonces[n].row # "unused"
    BY <1>4, <2>1, <2>3, GotoGrants DEF consume, GrantStep
  <2>4. QED
    BY <2>2, <2>3
<1>5. ASSUME NEW r \in Request, consumeUnheard(r) PROVE GrantStep
  <2>1. PICK n \in Nonce : n = requests[r].nonce
    BY DEF SiweInv, SiweTypeOK, Verify
  <2>2. states[n] = "live" /\ states' = [states EXCEPT ![n] = "over"] /\ winners' = winners
    BY <1>5, <2>1, UseUpGrants DEF consumeUnheard
  <2>3. states' = [m \in Nonce |-> IF m \in {n} THEN "over" ELSE states[m]]
    BY <2>2 DEF states
  <2>4. {n} \in SUBSET Nonce /\ \A m \in {n} : states[m] = "live"
    BY <2>2
  <2>5. QED
    BY <2>2, <2>3, <2>4 DEF GrantStep
<1>6. ASSUME NEW r \in Request, databaseFails(r) PROVE GrantStep
  BY <1>6, GotoGrants DEF databaseFails, GrantStep
<1>7. ASSUME NEW r \in Request, createSession(r) PROVE GrantStep
  <2>1. \A x \in Request : opens(requests'[x]) = opens(requests[x])
                          /\ requests'[x].nonce = requests[x].nonce
    BY <1>7 DEF createSession, goto, opens, SiweInv, SiweTypeOK, Verify
  <2>2. \A n \in Nonce : nonces'[n].row = nonces[n].row
    BY <1>7 DEF createSession
  <2>3. QED
    BY <2>1, <2>2, SameGrants DEF GrantStep
<1>8. ASSUME NEW b \in Browser, destroySession(b) PROVE GrantStep
  BY <1>8, SameGrants DEF destroySession, GrantStep
<1>9. CASE purge_expired_nonces
  BY <1>9, PurgeGrants DEF GrantStep
<1>10. CASE Tick
  BY <1>10, SameGrants DEF Tick, GrantStep
<1>11. CASE UNCHANGED siweVars
  BY <1>11, SameGrants DEF siweVars, GrantStep
<1>12. QED
  BY <1>1, <1>2, <1>3, <1>4, <1>5, <1>6, <1>7, <1>8, <1>9, <1>10, <1>11 DEF SiweNext, verifyStep

(* The nonces of wallet sign-in are one-time grants: Siwe implements       *)
(* OneTimeGrant, so of the verify requests that race for a nonce at most   *)
(* one opens a session, whatever the purge, the clock and lost answers do. *)
THEOREM NoncesRefineGrants == SiweSpec => NoncesAreOneTimeGrants
<1>1. SiweInit => Challenges!Init
  <2> SUFFICES ASSUME SiweInit PROVE Challenges!Init
    OBVIOUS
  <2>1. \A n \in Nonce : gate(n) = "unissued" /\ opened(n) = {}
    BY DEF SiweInit, gate, opened
  <2>2. QED
    BY <2>1 DEF Challenges!Init, gate
<1>2. GrantStep => [Challenges!Next]_Challenges!grantVars
  BY DEF GrantStep, states, winners, gate, Challenges!Next, Challenges!Issue, Challenges!Redeem,
         Challenges!Drop, Challenges!grantVars
<1>3. QED
  BY <1>1, <1>2, SiweInitInv, SiweNextInv, SiweStepsAreGrantSteps, PTL
     DEF SiweSpec, NoncesAreOneTimeGrants, Challenges!Spec

-----------------------------------------------------------------------------
(* Console.                                                                *)

Showing(t) == t.session # None /\ t.page = "screen"

(* What holds of the list between two renders.                             *)
Listing(s, ls, there) ==
  /\ \A l \in Load : ls[l].live =>
       /\ s.on /\ ls[l].pc # "idle"
       /\ ls[l].loader = s.loader /\ ls[l].nonce = s.nonce /\ ls[l].org = s.org
       /\ ls[l].pc = "answered" => s.since \subseteq ls[l].seen
  /\ s.settled # None =>
       /\ s.settled.loader <= s.loader /\ s.settled.nonce <= s.nonce
       /\ s.settled.loader = s.loader => s.settled.org = s.org
       /\ s.settled.loader = s.loader /\ s.settled.nonce = s.nonce /\ s.settled.ok
            => s.since \subseteq s.settled.seen
  /\ s.on /\ ~fresh(s) =>
       \E l \in Load : ls[l].live /\ ls[l].loader = s.loader /\ ls[l].nonce = s.nonce
  /\ s.since \subseteq there

(* The list belongs to the session, if a screen is on the page at all.     *)
Placed(t, s) ==
  IF Showing(t) THEN s.org = t.session /\ s.on = ~gated(t) ELSE s = NoScreen

ListInv ==
  /\ Placed(tab, screen)
  /\ Listing(screen, loads, landed)
  /\ Showing(tab) => closed \cap landed \subseteq screen.since

FormInv ==
  /\ form.kind = None => form.run = None
  /\ form.run = None => form.stage = "idle"
  /\ form.kind # None => mounted(form.kind, tab, screen)
  /\ form.run # None => runs[form.run].kind = form.kind /\ runs[form.run].pc # "unused"

(* When the page believes, or is about to hear, that the wallet is on      *)
(* owneX's chain and it is not any more, there is a later message that     *)
(* says so: unless the page was told before it listened.                   *)
ChainInv ==
  /\ tab.chainId # None \/ tab.listens => tab.active
  /\ ~tab.missed /\ tab.chainId = "ours" =>
       wallet = "ours" \/ \E j \in DOMAIN channel : channel[j] = "other"
  /\ \A i \in DOMAIN channel : channel[i] = "ours" =>
       wallet = "ours" \/ \E j \in DOMAIN channel : i < j /\ channel[j] = "other"

RunInv ==
  /\ \A i, j \in DOMAIN channel : channel[i] = channel[j] /\ channel[i] \in Run => i = j
  /\ \A i \in DOMAIN channel : channel[i] \in Run =>
       runs[channel[i]].pc \in {"sent", "granting", "over"}
  /\ \A r \in Run :
       /\ runs[r].pc \in {"unused", "preflight", "prepare", "sign"} => runs[r].chain = None
       /\ r \in landed => runs[r].chain = "ours"
       /\ runs[r].pc \in {"record", "grant", "granting", "sync", "refresh"} /\ runs[r].chain = "ours"
            => r \in landed
       /\ runs[r].pc \in {"sync", "refresh"} /\ runs[r].kind \in ReadsEvent => runs[r].chain = "ours"
       /\ runs[r].pc \in {"grant", "granting"} => runs[r].kind = "register"
       /\ r \in closed => runs[r].pc = "over" /\ (runs[r].chain = "ours" => r \in landed)

(* The page hears of another chain before it hears what became of run r.   *)
Warned(r) == \A j \in DOMAIN channel : channel[j] = r =>
               \E i \in DOMAIN channel : i < j /\ channel[i] = "other"

(* What a form that says done, and whose write is q, may say.              *)
DoneOK(f, q) ==
  f.stage = "done" =>
    /\ q.pc = "over"
    /\ q.chain = "ours" => f.run \in landed
    /\ ~tab.missed /\ q.known => /\ f.run \in landed
                                 /\ f.kind = "register" /\ ~f.warned => q.granted

(* While a form whose write started on a known chain is on the page, the   *)
(* wallet has been on owneX's, or the page will hear of it in time: unless *)
(* it was told before it listened.                                         *)
WatchOK(f, q) ==
  ~tab.missed /\ q.known /\ q.kind \notin ReadsEvent =>
    /\ tab.active /\ (wallet = "ours" \/ \E j \in DOMAIN channel : channel[j] = "other")
    /\ q.pc \in {"mine", "record", "grant", "granting", "sync", "refresh"} => q.chain = "ours"
    /\ q.pc = "sent" => q.chain = "ours" \/ Warned(f.run)
    /\ q.pc = "granting" => q.granted \/ Warned(f.run)
    /\ q.pc \in {"sync", "refresh"} /\ q.kind = "register" => q.granted \/ f.warned

WriteInv ==
  form.run # None => DoneOK(form, runs[form.run]) /\ WatchOK(form, runs[form.run])

ConsoleInv ==
  /\ ConsoleTypeOK
  /\ ListInv
  /\ FormInv
  /\ ChainInv
  /\ RunInv
  /\ WriteInv

(* Signing in begins with the choice of a wallet.                          *)
WalletChosen == tab.signIn = "connect" => tab.active

-----------------------------------------------------------------------------
(* One render.                                                             *)

(* A screen that is on the page, with what it is given.                    *)
Screen(t, s, loader, since) ==
  [org |-> t.session, loader |-> loader, on |-> ~gated(t), nonce |-> s.nonce,
   settled |-> s.settled, since |-> since, writes |-> s.writes]

LEMMA ScreenFields ==
  ASSUME NEW t, NEW s, NEW loader, NEW since
  PROVE  LET q == Screen(t, s, loader, since) IN
         /\ q.org = t.session /\ q.loader = loader /\ q.on = ~gated(t) /\ q.nonce = s.nonce
         /\ q.settled = s.settled /\ q.since = since /\ q.writes = s.writes
BY DEF Screen

LEMMA RerenderedScreen ==
  ASSUME NEW t, NEW s \in ScreenState, Showing(t)
  PROVE  /\ rerendered(t, s)
              = Screen(t, s, IF s.org = t.session THEN s.loader ELSE s.loader + 1, s.since)
         /\ rerendered(t, s) # NoScreen
         /\ \A loader, since, new :
              [Screen(t, s, loader, since) EXCEPT !.since = new] = Screen(t, s, loader, new)
<1>1. PICK on, loader :
        /\ on \in BOOLEAN /\ on = ~gated(t)
        /\ loader = IF s.org = t.session THEN s.loader ELSE s.loader + 1
  BY DEF gated
<1> DEFINE q == [s EXCEPT !.org = t.session]
           r == [q EXCEPT !.on = on]
<1>2. q = [org |-> t.session, loader |-> s.loader, on |-> s.on, nonce |-> s.nonce,
           settled |-> s.settled, since |-> s.since, writes |-> s.writes]
  BY DEF ScreenState
<1>3. [s EXCEPT !.org = t.session, !.on = on, !.loader = loader] = [r EXCEPT !.loader = loader]
  BY DEF ScreenState
<1> HIDE DEF q
<1>4. r = [org |-> t.session, loader |-> s.loader, on |-> on, nonce |-> s.nonce,
           settled |-> s.settled, since |-> s.since, writes |-> s.writes]
  BY <1>2
<1> HIDE DEF r
<1>5. [r EXCEPT !.loader = loader]
        = [org |-> t.session, loader |-> loader, on |-> on, nonce |-> s.nonce,
           settled |-> s.settled, since |-> s.since, writes |-> s.writes]
  BY <1>4
<1>6. rerendered(t, s) = [s EXCEPT !.org = t.session, !.on = on, !.loader = loader]
  BY <1>1 DEF rerendered, Showing
<1>7. rerendered(t, s) = Screen(t, s, loader, s.since)
  BY <1>1, <1>3, <1>5, <1>6 DEF Screen
<1>8. rerendered(t, s) # NoScreen
  <2>1. rerendered(t, s).org = t.session
    BY <1>7, ScreenFields
  <2> QED
    BY <2>1 DEF NoScreen, Showing
<1>9. ASSUME NEW l, NEW since, NEW new
      PROVE  [Screen(t, s, l, since) EXCEPT !.since = new] = Screen(t, s, l, new)
  BY DEF Screen
<1> QED
  BY <1>1, <1>7, <1>8, <1>9

(* What a render makes of the screen: nothing of it is left, or it belongs *)
(* to the session and remembers since when it is asked for.                *)
LEMMA RenderedScreen ==
  ASSUME NEW t, NEW s \in ScreenState, NEW ls, NEW f, render(t, s, ls, f), screen \in ScreenState
  PROVE  /\ ~Showing(t) => screen' = NoScreen /\ loads' = [l \in Load |-> NoLoad]
         /\ Showing(t) =>
              \E loader, since :
                 /\ screen' = Screen(t, s, loader, since) /\ screen' # NoScreen
                 /\ loader = IF s.org = t.session THEN s.loader ELSE s.loader + 1
                 /\ since = IF loader = screen.loader /\ s.nonce = screen.nonce THEN s.since ELSE landed
                 /\ fetch(ls, screen')
<1>1. CASE ~Showing(t)
  <2>1. rerendered(t, s) = NoScreen
    BY <1>1 DEF rerendered, Showing
  <2> QED
    BY <1>1, <2>1 DEF render, fetch
<1>2. CASE Showing(t)
  <2>1. PICK loader : loader = IF s.org = t.session THEN s.loader ELSE s.loader + 1
    OBVIOUS
  <2>2. PICK since :
          since = IF loader = screen.loader /\ s.nonce = screen.nonce THEN s.since ELSE landed
    OBVIOUS
  <2>3. rerendered(t, s) = Screen(t, s, loader, s.since) /\ rerendered(t, s) # NoScreen
    BY <1>2, <2>1, RerenderedScreen
  <2>4. rerendered(t, s).loader = loader /\ rerendered(t, s).nonce = s.nonce
    BY <2>3, ScreenFields
  <2>5. [rerendered(t, s) EXCEPT !.since = landed] = Screen(t, s, loader, landed)
    BY <1>2, <2>3, RerenderedScreen
  <2>6. screen' = Screen(t, s, loader, since) /\ fetch(ls, screen')
    BY <2>2, <2>3, <2>4, <2>5 DEF render
  <2>7. screen' # NoScreen
    <3>1. screen'.org = t.session
      BY <2>6, ScreenFields
    <3> QED
      BY <1>2, <3>1 DEF NoScreen, Showing
  <2> QED
    BY <1>2, <2>1, <2>2, <2>6, <2>7
<1> QED
  BY <1>1, <1>2

(* The requests that are in flight after it.                               *)
LEMMA Fetched ==
  ASSUME NEW ls \in [Load -> LoadState], NEW s \in ScreenState, s # NoScreen, fetch(ls, s)
  PROVE  /\ loads' \in [Load -> LoadState]
         /\ \/ loads' = ls /\ s.on = screen.on /\ s.loader = screen.loader /\ s.nonce = screen.nonce
            \/ ~s.on /\ \A l \in Load : ~loads'[l].live
            \/ \E l \in Load :
                 /\ loads'[l].live /\ loads'[l].pc = "asked" /\ s.on
                 /\ loads'[l].loader = s.loader /\ loads'[l].nonce = s.nonce /\ loads'[l].org = s.org
                 /\ \A k \in Load \ {l} : ~loads'[k].live
<1>1. PICK no, yes, pc, idle, zero, none, loader, nonce, org :
        /\ no \in BOOLEAN /\ yes \in BOOLEAN /\ no = FALSE /\ yes = TRUE
        /\ pc = "asked" /\ idle = "idle" /\ zero = 0 /\ none = {}
        /\ loader = s.loader /\ nonce = s.nonce /\ org = s.org
  OBVIOUS
<1> DEFINE cancelled == [l \in Load |-> [ls[l] EXCEPT !.live = no]]
           request == [NoLoad EXCEPT !.pc = pc, !.live = yes, !.loader = loader,
                                     !.nonce = nonce, !.org = org]
<1>2. \A l \in Load : cancelled[l] \in LoadState /\ cancelled[l].live = no
  BY <1>1 DEF LoadState
<1>3. request = [pc |-> pc, live |-> yes, loader |-> loader, nonce |-> nonce, org |-> org,
                 seen |-> none]
  <2> DEFINE q0 == [pc |-> idle, live |-> no, loader |-> zero, nonce |-> zero, org |-> None,
                     seen |-> none]
             q1 == [q0 EXCEPT !.pc = pc]
             q2 == [q1 EXCEPT !.live = yes]
             q3 == [q2 EXCEPT !.loader = loader]
             q4 == [q3 EXCEPT !.nonce = nonce]
  <2>1. NoLoad = q0
    BY <1>1 DEF NoLoad
  <2>2. [q0 EXCEPT !.pc = pc, !.live = yes, !.loader = loader, !.nonce = nonce, !.org = org]
          = [q4 EXCEPT !.org = org]
    <3> HIDE DEF q0
    <3> QED OBVIOUS
  <2>3. q1 = [pc |-> pc, live |-> no, loader |-> zero, nonce |-> zero, org |-> None, seen |-> none]
    OBVIOUS
  <2> HIDE DEF q1
  <2>4. q2 = [pc |-> pc, live |-> yes, loader |-> zero, nonce |-> zero, org |-> None, seen |-> none]
    BY <2>3
  <2> HIDE DEF q2
  <2>5. q3 = [pc |-> pc, live |-> yes, loader |-> loader, nonce |-> zero, org |-> None, seen |-> none]
    BY <2>4
  <2> HIDE DEF q3
  <2>6. q4 = [pc |-> pc, live |-> yes, loader |-> loader, nonce |-> nonce, org |-> None,
              seen |-> none]
    BY <2>5
  <2> HIDE DEF q4
  <2>7. [q4 EXCEPT !.org = org]
          = [pc |-> pc, live |-> yes, loader |-> loader, nonce |-> nonce, org |-> org, seen |-> none]
    BY <2>6
  <2> HIDE DEF q0
  <2> QED
    BY <2>1, <2>2, <2>7
<1>a. /\ request.live = yes /\ request.pc = pc /\ request.loader = s.loader
      /\ request.nonce = s.nonce /\ request.org = s.org
  <2> HIDE DEF request
  <2> QED
    BY <1>1, <1>3
<1>4. request \in LoadState
  <2> HIDE DEF request
  <2>1. loader \in Nat /\ nonce \in Nat /\ org \in SessionState
    BY <1>1 DEF ScreenState
  <2> QED
    BY <1>1, <1>3, <2>1 DEF LoadState
<1>5. CASE s.on = screen.on /\ s.loader = screen.loader /\ s.nonce = screen.nonce
  BY <1>5 DEF fetch
<1>6. CASE ~(s.on = screen.on /\ s.loader = screen.loader /\ s.nonce = screen.nonce)
  <2>1. IF ~s.on THEN loads' = cancelled
        ELSE \E l \in Load : ls[l].pc = "idle" /\ loads' = [cancelled EXCEPT ![l] = request]
    BY <1>1, <1>6 DEF fetch
  <2>2. CASE ~s.on
    <3>1. loads' = cancelled
      BY <2>1, <2>2
    <3>2. cancelled \in [Load -> LoadState]
      BY <1>2
    <3> HIDE DEF cancelled
    <3> QED
      BY <1>1, <1>2, <2>2, <3>1, <3>2
  <2>3. CASE s.on
    <3>1. PICK l \in Load : loads' = [cancelled EXCEPT ![l] = request]
      BY <2>1, <2>3
    <3>2. cancelled \in [Load -> LoadState]
      BY <1>2
    <3> HIDE DEF cancelled, request
    <3>3. loads'[l] = request /\ loads' \in [Load -> LoadState]
          /\ \A k \in Load \ {l} : loads'[k] = cancelled[k]
      BY <1>4, <3>1, <3>2
    <3> QED
      BY <1>1, <1>2, <1>a, <2>3, <3>3
  <2> QED
    BY <2>2, <2>3 DEF ScreenState
<1> QED
  BY <1>5, <1>6

(* A render for which the list was ready: nothing of it changed, an answer *)
(* was taken or a card remembers its write; or it is reloaded.             *)
LEMMA RenderKeepsList ==
  ASSUME ConsoleTypeOK, ListInv,
         NEW t \in TabState, NEW s \in ScreenState, NEW ls \in [Load -> LoadState], NEW f,
         render(t, s, ls, f), landed' = landed,
         s.org = screen.org, s.on = screen.on, s.loader = screen.loader, s.since = screen.since,
         \/ /\ s.nonce = screen.nonce /\ Listing(s, ls, landed)
            /\ closed' \cap landed = closed \cap landed
         \/ s.nonce = screen.nonce + 1 /\ s.settled = screen.settled
  PROVE  ListInv' /\ screen' \in ScreenState /\ loads' \in [Load -> LoadState] /\ tab' = t
<1>0. /\ screen \in ScreenState /\ tab' = t /\ landed \subseteq Run
      /\ Listing(screen, loads, landed) /\ Placed(tab, screen)
      /\ Showing(tab) => closed \cap landed \subseteq screen.since
  BY DEF ConsoleTypeOK, ListInv, render
<1>1. CASE ~Showing(t)
  <2>1. screen' = NoScreen /\ loads' = [l \in Load |-> NoLoad]
    BY <1>0, <1>1, RenderedScreen
  <2>2. /\ NoScreen \in ScreenState /\ NoLoad \in LoadState
        /\ NoScreen.settled = None /\ NoScreen.on = FALSE /\ NoScreen.since = {}
        /\ NoLoad.live = FALSE
    BY DEF NoScreen, NoLoad, ScreenState, LoadState, SessionState
  <2> QED
    BY <1>0, <1>1, <2>1, <2>2 DEF ListInv, Listing, Placed
<1>2. CASE Showing(t)
  <2>1. PICK loader, since :
           /\ screen' = Screen(t, s, loader, since) /\ screen' # NoScreen
           /\ loader = IF s.org = t.session THEN s.loader ELSE s.loader + 1
           /\ since = IF loader = screen.loader /\ s.nonce = screen.nonce THEN s.since ELSE landed
           /\ fetch(ls, screen')
    BY <1>0, <1>2, RenderedScreen
  <2>2. PICK q, lr : q = screen' /\ lr = loads'
    OBVIOUS
  <2>3. /\ q.org = t.session /\ q.loader = loader /\ q.on = ~gated(t) /\ q.nonce = s.nonce
        /\ q.settled = s.settled /\ q.since = since
    BY <2>1, <2>2, ScreenFields
  <2>4. q \in ScreenState
    <3>1. /\ t.session \in SessionState /\ loader \in Nat /\ (~gated(t)) \in BOOLEAN /\ s.nonce \in Nat
          /\ s.settled \in Answer \cup {None} /\ since \in SUBSET Run /\ s.writes \in SUBSET Run
      BY <1>0, <2>1 DEF TabState, ScreenState, gated
    <3> QED
      BY <2>1, <2>2, <3>1 DEF Screen, ScreenState
  <2>5. /\ lr \in [Load -> LoadState]
        /\ \/ lr = ls /\ q.on = screen.on /\ q.loader = screen.loader /\ q.nonce = screen.nonce
           \/ ~q.on /\ \A l \in Load : ~lr[l].live
           \/ \E l \in Load :
                /\ lr[l].live /\ lr[l].pc = "asked" /\ q.on
                /\ lr[l].loader = q.loader /\ lr[l].nonce = q.nonce /\ lr[l].org = q.org
                /\ \A k \in Load \ {l} : ~lr[k].live
    BY <2>1, <2>2, <2>4, Fetched
  <2>6. /\ screen.loader \in Nat /\ screen.nonce \in Nat
        /\ screen.settled # None => screen.settled.loader \in Nat /\ screen.settled.nonce \in Nat
        /\ s.settled # None => s.settled.loader \in Nat /\ s.settled.nonce \in Nat
    BY <1>0 DEF ScreenState, Answer
  <2>7. s.settled # None =>
          /\ s.settled.loader <= screen.loader /\ s.settled.nonce <= screen.nonce
          /\ s.settled.loader = screen.loader => s.settled.org = screen.org
          /\ s.settled.loader = screen.loader /\ s.settled.nonce = screen.nonce /\ s.settled.ok
               => screen.since \subseteq s.settled.seen
    BY <1>0 DEF Listing
  <2>8. q.settled # None =>
          /\ q.settled.loader <= q.loader /\ q.settled.nonce <= q.nonce
          /\ q.settled.loader = q.loader => q.settled.org = q.org
          /\ q.settled.loader = q.loader /\ q.settled.nonce = q.nonce /\ q.settled.ok
               => q.since \subseteq q.settled.seen
    BY <2>1, <2>3, <2>6, <2>7
  <2>9. q.since \subseteq landed
    BY <1>0, <2>1, <2>3 DEF Listing
  <2>10. /\ \A l \in Load : lr[l].live =>
              /\ q.on /\ lr[l].pc # "idle"
              /\ lr[l].loader = q.loader /\ lr[l].nonce = q.nonce /\ lr[l].org = q.org
              /\ lr[l].pc = "answered" => q.since \subseteq lr[l].seen
         /\ q.on /\ ~fresh(q) =>
              \E l \in Load : lr[l].live /\ lr[l].loader = q.loader /\ lr[l].nonce = q.nonce
    <3>1. CASE lr = ls /\ q.on = screen.on /\ q.loader = screen.loader /\ q.nonce = screen.nonce
      <4>1. s.nonce = screen.nonce /\ Listing(s, ls, landed)
        BY <2>3, <2>6, <3>1
      <4>2. q.org = s.org /\ q.since = s.since /\ q.settled = s.settled
        BY <2>1, <2>3, <2>6, <3>1, <4>1
      <4>3. fresh(q) = fresh(s)
        BY <2>3, <3>1, <4>1, <4>2 DEF fresh
      <4> QED
        BY <3>1, <4>1, <4>2, <4>3 DEF Listing
    <3>2. CASE ~q.on /\ \A l \in Load : ~lr[l].live
      BY <3>2
    <3>3. CASE \E l \in Load :
                /\ lr[l].live /\ lr[l].pc = "asked" /\ q.on
                /\ lr[l].loader = q.loader /\ lr[l].nonce = q.nonce /\ lr[l].org = q.org
                /\ \A k \in Load \ {l} : ~lr[k].live
      BY <3>3
    <3> QED
      BY <2>5, <3>1, <3>2, <3>3
  <2>11. closed' \cap landed \subseteq q.since
    <3>1. CASE q.since = landed
      BY <3>1
    <3>2. CASE q.since # landed
      <4>1. q.since = s.since /\ loader = screen.loader /\ s.nonce = screen.nonce
        BY <2>1, <2>3, <3>2
      <4>2. s.org = t.session /\ closed' \cap landed = closed \cap landed
        BY <2>1, <2>6, <4>1
      <4>3. Showing(tab)
        <5>1. NoScreen.org = None
          BY DEF NoScreen
        <5>2. screen.org # None
          BY <1>2, <4>2 DEF Showing
        <5> QED
          BY <1>0, <5>1, <5>2 DEF Placed
      <4> QED
        BY <1>0, <4>1, <4>2, <4>3
    <3> QED
      BY <3>1, <3>2
  <2>12. Listing(q, lr, landed)
    BY <2>8, <2>9, <2>10 DEF Listing
  <2>13. Placed(t, q)
    BY <1>2, <2>3 DEF Placed
  <2> QED
    BY <1>0, <2>2, <2>4, <2>5, <2>11, <2>12, <2>13 DEF ListInv
<1> QED
  BY <1>1, <1>2

(* The form that is left after a render is on the page.                    *)
LEMMA RenderKeepsForm ==
  ASSUME NEW t, NEW s, NEW ls, NEW f \in FormState, render(t, s, ls, f)
  PROVE  /\ form' \in FormState /\ form' \in {f, NoForm}
         /\ form'.kind # None => form' = f /\ mounted(form'.kind, tab', screen')
<1>1. tab' = t /\ form' = IF mounted(f.kind, t, screen') THEN f ELSE NoForm
  BY DEF render
<1>2. NoForm \in FormState /\ NoForm.kind = None
  BY DEF NoForm, FormState
<1> QED
  BY <1>1, <1>2

-----------------------------------------------------------------------------
(* What a step does to the page: tab t, and form f if it is still there.   *)
PageKept(t, f) ==
  /\ ListInv' /\ screen' \in ScreenState /\ loads' \in [Load -> LoadState]
  /\ tab' = t /\ t \in TabState
  /\ form' \in FormState /\ form' \in {f, NoForm}
  /\ form'.kind # None => mounted(form'.kind, tab', screen')

LEMMA PageTyped ==
  ASSUME ConsoleTypeOK
  PROVE  /\ tab \in TabState /\ screen \in ScreenState /\ form \in FormState
         /\ loads \in [Load -> LoadState]
BY DEF ConsoleTypeOK

LEMMA StillKeeps ==
  ASSUME ConsoleTypeOK, ListInv, FormInv, UNCHANGED <<tab, screen, loads, form>>,
         landed \subseteq landed', closed' \cap landed' = closed \cap landed
  PROVE  PageKept(tab, form)
<1>1. \A s, ls : Listing(s, ls, landed) => Listing(s, ls, landed')
  BY DEF Listing
<1>2. Listing(screen, loads, landed)'
  BY <1>1 DEF ListInv
<1>3. ListInv'
  BY <1>2 DEF ListInv
<1> QED
  BY <1>3, PageTyped DEF PageKept, FormInv

LEMMA ShowsKeeps ==
  ASSUME ConsoleTypeOK, ListInv, NEW t \in TabState, NEW f \in FormState,
         render(t, screen, loads, f), landed' = landed, closed' = closed
  PROVE  PageKept(t, f)
<1>1. /\ ListInv' /\ screen' \in ScreenState /\ loads' \in [Load -> LoadState] /\ tab' = t
  <2>1. Listing(screen, loads, landed)
    BY DEF ListInv
  <2> QED
    BY <2>1, PageTyped, RenderKeepsList
<1>2. /\ form' \in FormState /\ form' \in {f, NoForm}
      /\ form'.kind # None => mounted(form'.kind, tab', screen')
  BY RenderKeepsForm
<1> QED
  BY <1>1, <1>2 DEF PageKept

LEMMA ReloadKeeps ==
  ASSUME ConsoleTypeOK, ListInv, NEW f \in FormState,
         render(tab, reloaded(screen), loads, f), landed' = landed
  PROVE  PageKept(tab, f)
<1>1. PICK s : s = reloaded(screen)
  OBVIOUS
<1>2. /\ s \in ScreenState /\ s.org = screen.org /\ s.on = screen.on /\ s.loader = screen.loader
      /\ s.since = screen.since /\ s.nonce = screen.nonce + 1 /\ s.settled = screen.settled
  BY <1>1, PageTyped DEF reloaded, ScreenState
<1>3. ListInv' /\ screen' \in ScreenState /\ loads' \in [Load -> LoadState] /\ tab' = tab
  BY <1>1, <1>2, PageTyped, RenderKeepsList
<1>4. /\ form' \in FormState /\ form' \in {f, NoForm}
      /\ form'.kind # None => mounted(form'.kind, tab', screen')
  BY RenderKeepsForm
<1> QED
  BY <1>3, <1>4, PageTyped DEF PageKept

LEMMA WritesKeeps ==
  ASSUME ConsoleTypeOK, ListInv, NEW f \in FormState, NEW W \in SUBSET Run,
         render(tab, [screen EXCEPT !.writes = W], loads, f), landed' = landed, closed' = closed
  PROVE  PageKept(tab, f)
<1>1. PICK s : s = [screen EXCEPT !.writes = W]
  OBVIOUS
<1>2. /\ s \in ScreenState /\ s.org = screen.org /\ s.on = screen.on /\ s.loader = screen.loader
      /\ s.since = screen.since /\ s.nonce = screen.nonce /\ s.settled = screen.settled
  BY <1>1, PageTyped DEF ScreenState
<1>3. Listing(s, loads, landed)
  BY <1>2 DEF ListInv, Listing, fresh
<1>4. ListInv' /\ screen' \in ScreenState /\ loads' \in [Load -> LoadState] /\ tab' = tab
  BY <1>1, <1>2, <1>3, PageTyped, RenderKeepsList
<1>5. /\ form' \in FormState /\ form' \in {f, NoForm}
      /\ form'.kind # None => mounted(form'.kind, tab', screen')
  BY RenderKeepsForm
<1> QED
  BY <1>4, <1>5, PageTyped DEF PageKept

(* An answer or an error is taken: it was asked for last.                  *)
LEMMA SettlesKeeps ==
  ASSUME ConsoleTypeOK, ListInv, NEW l \in Load, NEW ok \in BOOLEAN, settles(l, ok),
         loads[l].live, ok => loads[l].pc = "answered", landed' = landed, closed' = closed
  PROVE  PageKept(tab, form)
<1>0. /\ loads[l] \in LoadState /\ Listing(screen, loads, landed)
      /\ screen \in ScreenState /\ loads \in [Load -> LoadState]
      /\ Placed(tab, screen)
  BY PageTyped DEF ListInv
<1>1. PICK a : a = [ok |-> ok, loader |-> loads[l].loader, nonce |-> loads[l].nonce,
                    org |-> loads[l].org, seen |-> loads[l].seen]
  OBVIOUS
<1>2. /\ a.ok = ok /\ a.loader = loads[l].loader /\ a.nonce = loads[l].nonce
      /\ a.org = loads[l].org /\ a.seen = loads[l].seen
  BY <1>1
<1>3. /\ screen.on /\ a.loader = screen.loader /\ a.nonce = screen.nonce /\ a.org = screen.org
      /\ ok => screen.since \subseteq a.seen
  BY <1>0, <1>2 DEF Listing
<1>4. screen.org \in Org \cup {NoOrg}
  <2>1. NoScreen.on = FALSE
    BY DEF NoScreen
  <2>2. Showing(tab) /\ screen.org = tab.session
    BY <1>0, <1>3, <2>1 DEF Placed
  <2> QED
    BY <2>2, PageTyped DEF Showing, TabState, SessionState
<1>5. a \in Answer
  BY <1>0, <1>1, <1>3, <1>4, <1>2 DEF Answer, LoadState
<1>6. a # None
  BY <1>5, ConsoleAssumption
<1>7. PICK s, ls : s = [screen EXCEPT !.settled = a] /\ ls = [loads EXCEPT ![l] = NoLoad]
  OBVIOUS
<1>8. /\ s \in ScreenState /\ s.org = screen.org /\ s.on = screen.on /\ s.loader = screen.loader
      /\ s.since = screen.since /\ s.nonce = screen.nonce /\ s.settled = a
  BY <1>0, <1>5, <1>7 DEF ScreenState
<1>9. NoLoad \in LoadState /\ NoLoad.live = FALSE
  BY DEF NoLoad, LoadState, SessionState
<1>10. /\ ls \in [Load -> LoadState] /\ ls[l] = NoLoad /\ \A k \in Load \ {l} : ls[k] = loads[k]
  BY <1>0, <1>7, <1>9
<1>11. Listing(s, ls, landed)
  <2>1. fresh(s)
    BY <1>3, <1>6, <1>8 DEF fresh
  <2>2. \A k \in Load : ls[k].live => ls[k] = loads[k]
    BY <1>9, <1>10
  <2>3. s.settled.loader <= s.loader /\ s.settled.nonce <= s.nonce
    BY <1>0, <1>3, <1>8 DEF ScreenState
  <2> QED
    BY <1>0, <1>2, <1>3, <1>8, <2>1, <2>2, <2>3 DEF Listing
<1>12. render(tab, s, ls, form)
  BY <1>1, <1>7 DEF settles
<1>13. ListInv' /\ screen' \in ScreenState /\ loads' \in [Load -> LoadState] /\ tab' = tab
  BY <1>8, <1>10, <1>11, <1>12, PageTyped, RenderKeepsList
<1>14. /\ form' \in FormState /\ form' \in {form, NoForm}
       /\ form'.kind # None => mounted(form'.kind, tab', screen')
  BY <1>12, PageTyped, RenderKeepsForm
<1> QED
  BY <1>13, <1>14, PageTyped DEF PageKept

(* A request moves on whose answer nobody waits for, or that is not yet    *)
(* answered.                                                               *)
LEMMA LoadMovesKeeps ==
  ASSUME ConsoleTypeOK, ListInv, FormInv, NEW l \in Load, NEW q \in LoadState,
         loads' = [loads EXCEPT ![l] = q], UNCHANGED <<tab, screen, form, landed, closed>>,
         \/ ~loads[l].live /\ ~q.live
         \/ /\ q.live = loads[l].live /\ q.loader = loads[l].loader /\ q.nonce = loads[l].nonce
            /\ q.org = loads[l].org /\ q.pc = "answered" /\ q.seen = landed
  PROVE  PageKept(tab, form)
<1>1. /\ loads \in [Load -> LoadState] /\ Listing(screen, loads, landed)
      /\ loads' \in [Load -> LoadState] /\ loads'[l] = q /\ \A k \in Load \ {l} : loads'[k] = loads[k]
  BY PageTyped DEF ListInv
<1>2. PICK ls : ls = loads'
  OBVIOUS
<1>3. Listing(screen, ls, landed)
  <2>1. \A k \in Load : ls[k].live = loads[k].live /\ (ls[k].live =>
          /\ ls[k].loader = loads[k].loader /\ ls[k].nonce = loads[k].nonce /\ ls[k].org = loads[k].org
          /\ ls[k] = loads[k] \/ (ls[k].pc = "answered" /\ ls[k].seen = landed))
    BY <1>1, <1>2 DEF LoadState
  <2> QED
    BY <1>1, <2>1 DEF Listing
<1>4. ListInv'
  BY <1>2, <1>3 DEF ListInv
<1> QED
  BY <1>1, <1>4, PageTyped DEF PageKept, FormInv

-----------------------------------------------------------------------------
(* Writes.                                                                 *)

(* A write goes on.                                                        *)
RunAt(r, pc, chain, granted) ==
  [kind |-> runs[r].kind, pc |-> pc, chain |-> chain, known |-> runs[r].known, granted |-> granted]

LEMMA RunFields ==
  ASSUME ConsoleTypeOK, NEW r \in Run
  PROVE  /\ runs \in [Run -> RunState] /\ runs[r] \in RunState
         /\ runs[r].kind \in Form \cup {None}
         /\ runs[r].pc \in {"unused", "preflight", "prepare", "sign", "sent", "mine", "record",
                            "grant", "granting", "sync", "refresh", "over"}
         /\ runs[r].chain \in {None, "ours", "other"}
         /\ runs[r].known \in BOOLEAN /\ runs[r].granted \in BOOLEAN
BY DEF ConsoleTypeOK, RunState

Pcs == {"preflight", "prepare", "sign", "sent", "mine", "record", "grant", "granting", "sync",
        "refresh", "over"}

(* All that changes of the writes is where one of them is.                 *)
Moved(r, pc, chain, granted) ==
  /\ runs' \in [Run -> RunState]
  /\ \A p \in Run \ {r} : runs'[p] = runs[p]
  /\ runs'[r].kind = runs[r].kind /\ runs'[r].known = runs[r].known
  /\ runs'[r].pc = pc /\ runs'[r].chain = chain /\ runs'[r].granted = granted

LEMMA RunMoves ==
  ASSUME ConsoleTypeOK, NEW r \in Run, NEW pc \in Pcs, NEW chain \in {None, "ours", "other"},
         NEW granted \in BOOLEAN,
         \/ runs' = [runs EXCEPT ![r].pc = pc] /\ chain = runs[r].chain /\ granted = runs[r].granted
         \/ runs' = [runs EXCEPT ![r].pc = pc, ![r].chain = chain] /\ granted = runs[r].granted
         \/ runs' = [runs EXCEPT ![r].pc = pc, ![r].granted = granted] /\ chain = runs[r].chain
  PROVE  Moved(r, pc, chain, granted)
<1> DEFINE q == RunAt(r, pc, chain, granted)
           m == [runs[r] EXCEPT !.pc = pc]
<1>1. /\ m = RunAt(r, pc, runs[r].chain, runs[r].granted)
      /\ [runs[r] EXCEPT !.pc = pc, !.chain = chain] = [m EXCEPT !.chain = chain]
      /\ [runs[r] EXCEPT !.pc = pc, !.granted = granted] = [m EXCEPT !.granted = granted]
  BY RunFields DEF RunAt, RunState
<1>2. /\ [m EXCEPT !.chain = chain] = RunAt(r, pc, chain, runs[r].granted)
      /\ [m EXCEPT !.granted = granted] = RunAt(r, pc, runs[r].chain, granted)
  <2> HIDE DEF m
  <2> QED
    BY <1>1 DEF RunAt
<1>3. runs' = [runs EXCEPT ![r] = q]
  <2>1. CASE runs' = [runs EXCEPT ![r].pc = pc] /\ chain = runs[r].chain /\ granted = runs[r].granted
    BY <1>1, <2>1
  <2>2. CASE runs' = [runs EXCEPT ![r].pc = pc, ![r].chain = chain] /\ granted = runs[r].granted
    <3>1. runs' = [runs EXCEPT ![r] = [runs[r] EXCEPT !.pc = pc, !.chain = chain]]
      BY <2>2, RunFields
    <3> QED
      BY <1>1, <1>2, <2>2, <3>1
  <2>3. CASE runs' = [runs EXCEPT ![r].pc = pc, ![r].granted = granted] /\ chain = runs[r].chain
    <3>1. runs' = [runs EXCEPT ![r] = [runs[r] EXCEPT !.pc = pc, !.granted = granted]]
      BY <2>3, RunFields
    <3> QED
      BY <1>1, <1>2, <2>3, <3>1
  <2> QED
    BY <2>1, <2>2, <2>3
<1>4. q \in RunState /\ q.kind = runs[r].kind /\ q.known = runs[r].known /\ q.pc = pc
      /\ q.chain = chain /\ q.granted = granted
  BY RunFields DEF RunAt, RunState, Pcs
<1> HIDE DEF q
<1>5. runs' \in [Run -> RunState] /\ runs'[r] = q /\ \A p \in Run \ {r} : runs'[p] = runs[p]
  BY <1>3, <1>4, RunFields
<1> QED
  BY <1>4, <1>5 DEF Moved

LEMMA Advances ==
  ASSUME ConsoleTypeOK, NEW r \in Run, NEW pc \in Pcs, advance(r, pc)
  PROVE  Moved(r, pc, runs[r].chain, runs[r].granted)
BY RunMoves, RunFields DEF advance

(* The form that is left may say what it says.                             *)
LEMMA FormKeeps ==
  ASSUME NEW t, NEW f \in FormState, NEW q, PageKept(t, f),
         f.kind = None => f.run = None,
         f.run = None => f.stage = "idle",
         f.run # None => /\ q = runs'[f.run] /\ q.kind = f.kind /\ q.pc # "unused"
                         /\ DoneOK(f, q)' /\ WatchOK(f, q)'
  PROVE  FormInv' /\ WriteInv'
<1>1. form' \in {f, NoForm} /\ (form'.kind # None => mounted(form'.kind, tab', screen'))
  BY DEF PageKept
<1>2. CASE form' = NoForm
  <2>1. NoForm.kind = None /\ NoForm.run = None /\ NoForm.stage = "idle"
    BY DEF NoForm
  <2> QED
    BY <1>2, <2>1 DEF FormInv, WriteInv
<1>3. CASE form' = f
  BY <1>1, <1>3 DEF FormInv, WriteInv, DoneOK, WatchOK, Warned
<1> QED
  BY <1>1, <1>2, <1>3

(* Everything that does not touch a write, the wallet or the queue.        *)
LEMMA PageStepKeeps ==
  ASSUME ConsoleInv, UNCHANGED <<landed, wallet, channel, runs>>,
         NEW t, NEW f \in FormState, PageKept(t, f),
         f = form \/ (f.run = None /\ f.stage = "idle"),
         tab.active => t.active, t.listens = tab.listens \/ t.active, tab.missed => t.missed,
         t.chainId = tab.chainId \/ (channel = <<>> /\ t.active /\ t.chainId \in {wallet, None}),
         closed' = closed \/ (closed' = closed \cup {form.run} /\ form.stage = "done")
  PROVE  FormInv' /\ ChainInv' /\ RunInv' /\ WriteInv'
<1>0. /\ ConsoleTypeOK /\ FormInv /\ ChainInv /\ RunInv /\ WriteInv
      /\ tab' = t
  BY DEF ConsoleInv, PageKept
<1>1. ChainInv'
  <2>1. None \notin {"ours", "other"}
    BY ConsoleAssumption
  <2> QED
    BY <1>0, <2>1 DEF ChainInv
<1>2. RunInv'
  <2>1. form.stage = "done" =>
          /\ form.run # None /\ runs[form.run].pc = "over"
          /\ runs[form.run].chain = "ours" => form.run \in landed
    BY <1>0 DEF FormInv, WriteInv, DoneOK
  <2> QED
    BY <1>0, <2>1 DEF RunInv
<1>3. PICK q : q = runs[f.run]
  OBVIOUS
<1>4. f.run # None => /\ q.kind = f.kind /\ q.pc # "unused"
                      /\ DoneOK(f, q)' /\ WatchOK(f, q)'
  BY <1>0, <1>3 DEF FormInv, WriteInv, DoneOK, WatchOK, Warned
<1>5. f.kind = None => f.run = None
  BY <1>0 DEF FormInv
<1>6. f.run = None => f.stage = "idle"
  BY <1>0 DEF FormInv
<1>7. FormInv' /\ WriteInv'
  BY <1>3, <1>4, <1>5, <1>6, FormKeeps
<1> QED
  BY <1>1, <1>2, <1>7

(* A write that is asked for, signed, mined, recorded or over moves on,    *)
(* and the wallet has nothing to do with it.                               *)
LEMMA WriteStepKeeps ==
  ASSUME ConsoleInv, NEW r \in Run, NEW pc \in Pcs \ {"sent", "granting"},
         Moved(r, pc, runs[r].chain, runs[r].granted),
         UNCHANGED <<landed, wallet, channel, closed>>,
         runs[r].pc \notin {"unused", "sent", "granting", "over"},
         NEW t, NEW f \in FormState, PageKept(t, f),
         t.active = tab.active, t.listens = tab.listens, t.missed = tab.missed, t.chainId = tab.chainId,
         f.run = form.run, f.kind = form.kind, form.run # r => f = form,
         form.run = r => f.stage # "done" \/ (pc = "over" /\ runs[r].pc = "refresh"),
         form.warned => f.warned,
         pc \in {"preflight", "prepare", "sign"} => runs[r].pc \in {"preflight", "prepare", "sign"},
         pc \in {"record", "grant", "sync", "refresh"} /\ runs[r].chain = "ours" => r \in landed,
         pc \in {"sync", "refresh"} /\ runs[r].kind \in ReadsEvent => runs[r].chain = "ours",
         pc = "grant" => runs[r].kind = "register",
         pc \in {"mine", "record", "grant", "sync", "refresh"} =>
           runs[r].pc \in {"mine", "record", "grant", "sync", "refresh"},
         pc \in {"sync", "refresh"} /\ runs[r].kind = "register" =>
           runs[r].pc = "sync" \/ (form.run = r => f.warned)
  PROVE  FormInv' /\ ChainInv' /\ RunInv' /\ WriteInv'
<1>0. /\ ConsoleTypeOK /\ FormInv /\ ChainInv /\ RunInv /\ WriteInv
      /\ tab' = t
  BY DEF ConsoleInv, PageKept
<1>m. /\ \A p \in Run \ {r} : runs'[p] = runs[p]
      /\ runs'[r].kind = runs[r].kind /\ runs'[r].known = runs[r].known
      /\ runs'[r].pc = pc /\ runs'[r].chain = runs[r].chain /\ runs'[r].granted = runs[r].granted
  BY DEF Moved
<1>1. ChainInv'
  BY <1>0 DEF ChainInv
<1>2. RunInv'
  <2>1. \A i \in DOMAIN channel : channel[i] # r
    BY <1>0 DEF RunInv
  <2>2. /\ \A i, j \in DOMAIN channel : channel[i] = channel[j] /\ channel[i] \in Run => i = j
        /\ \A i \in DOMAIN channel : channel[i] \in Run =>
             runs'[channel[i]].pc \in {"sent", "granting", "over"}
    BY <1>0, <1>m, <2>1 DEF RunInv
  <2>3. ASSUME NEW p \in Run
        PROVE  /\ runs'[p].pc \in {"unused", "preflight", "prepare", "sign"} => runs'[p].chain = None
               /\ p \in landed => runs'[p].chain = "ours"
               /\ runs'[p].pc \in {"record", "grant", "granting", "sync", "refresh"}
                    /\ runs'[p].chain = "ours" => p \in landed
               /\ runs'[p].pc \in {"sync", "refresh"} /\ runs'[p].kind \in ReadsEvent
                    => runs'[p].chain = "ours"
               /\ runs'[p].pc \in {"grant", "granting"} => runs'[p].kind = "register"
               /\ p \in closed => runs'[p].pc = "over" /\ (runs'[p].chain = "ours" => p \in landed)
    <3>1. CASE p # r
      BY <1>0, <1>m, <3>1 DEF RunInv
    <3>2. CASE p = r
      BY <1>0, <1>m, <3>2 DEF RunInv, Pcs
    <3> QED
      BY <3>1, <3>2
  <2> QED
    BY <2>2, <2>3 DEF RunInv
<1>3. PICK q : q = runs'[f.run]
  OBVIOUS
<1>4. f.kind = None => f.run = None
  BY <1>0 DEF FormInv
<1>5. f.run = None => f.stage = "idle"
  <2>1. r # None
    BY ConsoleAssumption
  <2> QED
    BY <1>0, <2>1 DEF FormInv
<1>6. f.run # None => q.kind = f.kind /\ q.pc # "unused" /\ DoneOK(f, q)' /\ WatchOK(f, q)'
  <2>1. CASE form.run # r
    BY <1>0, <1>3, <1>m, <2>1 DEF FormInv, WriteInv, DoneOK, WatchOK, Warned, FormState
  <2>2. CASE form.run = r
    <3>1. /\ q.kind = runs[r].kind /\ q.known = runs[r].known /\ q.pc = pc
          /\ q.chain = runs[r].chain /\ q.granted = runs[r].granted
          /\ f.run = r /\ r # None /\ runs[r].kind = f.kind
          /\ DoneOK(form, runs[r]) /\ WatchOK(form, runs[r])
      <4>1. r # None
        BY ConsoleAssumption
      <4> QED
        BY <1>0, <1>3, <1>m, <2>2, <4>1 DEF FormInv, WriteInv
    <3>2. WatchOK(f, q)'
      BY <1>0, <2>2, <3>1 DEF WatchOK
    <3>3. DoneOK(f, q)'
      <4> SUFFICES ASSUME pc = "over", runs[r].pc = "refresh"
                   PROVE  /\ runs[r].chain = "ours" => r \in landed
                          /\ ~tab.missed /\ runs[r].known => r \in landed /\
                               (f.kind = "register" /\ ~f.warned => runs[r].granted)
        BY <1>0, <2>2, <3>1 DEF DoneOK
      <4>1. runs[r].chain = "ours" => r \in landed
        BY <1>0 DEF RunInv
      <4>2. runs[r].kind \in ReadsEvent => runs[r].chain = "ours"
        BY <1>0 DEF RunInv
      <4>3. "register" \notin ReadsEvent
        BY DEF ReadsEvent
      <4> QED
        BY <2>2, <3>1, <4>1, <4>2, <4>3 DEF WatchOK
    <3> QED
      BY <3>1, <3>2, <3>3 DEF Pcs
  <2> QED
    BY <2>1, <2>2
<1>7. FormInv' /\ WriteInv'
  BY <1>3, <1>4, <1>5, <1>6, FormKeeps
<1> QED
  BY <1>1, <1>2, <1>7

-----------------------------------------------------------------------------
(* The queue between the wallet and the page.                              *)
Messages == Run \cup {"ours", "other", "unknown"}

LEMMA ChannelShape ==
  ASSUME ConsoleTypeOK
  PROVE  /\ channel \in Seq(Messages) /\ Len(channel) \in Nat /\ DOMAIN channel = 1..Len(channel)
         /\ \A i \in DOMAIN channel : channel[i] \in Messages
BY DEF ConsoleTypeOK, Messages

LEMMA Appended ==
  ASSUME ConsoleTypeOK, NEW m \in Messages, channel' = Append(channel, m)
  PROVE  /\ channel' \in Seq(Messages)
         /\ Len(channel) + 1 \in DOMAIN channel' /\ channel'[Len(channel) + 1] = m
         /\ \A i \in DOMAIN channel : i \in DOMAIN channel' /\ i < Len(channel) + 1
                 /\ channel'[i] = channel[i]
         /\ \A i \in DOMAIN channel' : i \in DOMAIN channel \/ i = Len(channel) + 1
BY ChannelShape

LEMMA Heard ==
  ASSUME ConsoleTypeOK, channel # <<>>, channel' = Tail(channel)
  PROVE  /\ channel' \in Seq(Messages)
         /\ 1 \in DOMAIN channel /\ Head(channel) = channel[1]
         /\ DOMAIN channel' = 1..(Len(channel) - 1)
         /\ \A i \in DOMAIN channel' : i + 1 \in DOMAIN channel /\ channel'[i] = channel[i + 1]
         /\ \A i \in DOMAIN channel :
                 i # 1 => i - 1 \in DOMAIN channel' /\ channel'[i - 1] = channel[i]
BY ChannelShape

(* The wallet changes its chain and says so, or is asked and says so.      *)
LEMMA WalletStepKeeps ==
  ASSUME ConsoleInv, UNCHANGED <<landed, runs, closed>>, PageKept(tab, form),
         \A i \in DOMAIN channel : i \in DOMAIN channel' /\ channel'[i] = channel[i],
         \A i \in DOMAIN channel' : i \in DOMAIN channel \/ channel'[i] \notin Run,
         DOMAIN channel' \subseteq Nat, \A i \in DOMAIN channel : i \in Nat,
         \/ wallet' = "ours"
         \/ \E j \in DOMAIN channel' :
                 channel'[j] = "other" /\ \A i \in DOMAIN channel' : i # j => i < j
  PROVE  FormInv' /\ ChainInv' /\ RunInv' /\ WriteInv'
<1>0. /\ ConsoleTypeOK /\ FormInv /\ ChainInv /\ RunInv /\ WriteInv
      /\ tab' = tab
  BY DEF ConsoleInv, PageKept
<1>1. ChainInv'
  <2>1. "ours" # "other"
    OBVIOUS
  <2> QED
    BY <1>0, <2>1 DEF ChainInv
<1>2. RunInv'
  BY <1>0 DEF RunInv
<1>3. PICK f, q : f = form /\ q = runs[form.run]
  OBVIOUS
<1>4. f \in FormState /\ (f.run # None => f.run \in Run) /\ PageKept(tab, f)
  BY <1>0, <1>3, PageTyped DEF FormState
<1>5. f.run # None => (Warned(f.run) => Warned(f.run)')
  BY <1>4 DEF Warned
<1>6. f.run # None => /\ q = runs'[f.run] /\ q.kind = f.kind /\ q.pc # "unused"
                      /\ DoneOK(f, q)' /\ WatchOK(f, q)'
  BY <1>0, <1>3, <1>5 DEF FormInv, WriteInv, DoneOK, WatchOK
<1>7. (f.kind = None => f.run = None) /\ (f.run = None => f.stage = "idle")
  BY <1>0, <1>3 DEF FormInv
<1>8. FormInv' /\ WriteInv'
  BY <1>4, <1>6, <1>7, FormKeeps
<1> QED
  BY <1>1, <1>2, <1>8

(* The wallet sends: the chain it is on, and word of it to the page.       *)
LEMMA SendKeeps ==
  ASSUME ConsoleInv, NEW r \in Run, approve(r) \/ grant(r)
  PROVE  ConsoleTypeOK' /\ ListInv' /\ FormInv' /\ ChainInv' /\ RunInv' /\ WriteInv'
<1>0. /\ ConsoleTypeOK /\ ListInv /\ FormInv /\ ChainInv /\ RunInv /\ WriteInv
      /\ r \notin {None, "ours", "other", "unknown"} /\ r \in Messages
  BY ConsoleAssumption DEF ConsoleInv, Messages
<1>1. /\ UNCHANGED <<landed, wallet, me, cookie, asks, closed, moves, tab, screen, loads, form>>
      /\ channel' = Append(channel, r) /\ wallet \in {"ours", "other"}
  BY <1>0 DEF approve, grant, keepsPage, ConsoleTypeOK
<1>2. PICK pc, chain, granted :
        /\ pc \in {"sent", "granting"} /\ Moved(r, pc, chain, granted)
        /\ chain \in {None, "ours", "other"} /\ granted \in BOOLEAN
        /\ pc = "sent" => runs[r].pc = "sign" /\ chain = wallet /\ granted = runs[r].granted
        /\ pc = "granting" => /\ runs[r].pc = "grant" /\ chain = runs[r].chain
                              /\ granted = (wallet = "ours")
  <2>1. CASE approve(r)
    <3>1. runs' = [runs EXCEPT ![r].pc = "sent", ![r].chain = wallet] /\ runs[r].pc = "sign"
      BY <2>1 DEF approve
    <3>2. PICK pc, chain, granted : pc = "sent" /\ chain = wallet /\ granted = runs[r].granted
      OBVIOUS
    <3>3. Moved(r, pc, chain, granted)
      BY <1>0, <1>1, <3>1, <3>2, RunMoves, RunFields DEF Pcs
    <3> QED
      BY <1>0, <1>1, <3>1, <3>2, <3>3, RunFields
  <2>2. CASE grant(r)
    <3>1. /\ runs' = [runs EXCEPT ![r].pc = "granting", ![r].granted = (wallet = "ours")]
          /\ runs[r].pc = "grant"
      BY <2>2 DEF grant
    <3>2. PICK pc, chain, granted : /\ pc = "granting" /\ chain = runs[r].chain
                                    /\ granted \in BOOLEAN /\ granted = (wallet = "ours")
      OBVIOUS
    <3>3. Moved(r, pc, chain, granted)
      <4>1. pc \in Pcs /\ chain \in {None, "ours", "other"}
        BY <1>0, <3>2, RunFields DEF Pcs
      <4>2. runs' = [runs EXCEPT ![r].pc = pc, ![r].granted = granted]
        BY <3>1, <3>2
      <4> QED
        BY <1>0, <3>2, <4>1, <4>2, RunMoves
    <3> QED
      BY <1>0, <1>1, <3>1, <3>2, <3>3, RunFields
  <2> QED
    BY <2>1, <2>2
<1>m. /\ \A p \in Run \ {r} : runs'[p] = runs[p] /\ runs' \in [Run -> RunState]
      /\ runs'[r].kind = runs[r].kind /\ runs'[r].known = runs[r].known
      /\ runs'[r].pc = pc /\ runs'[r].chain = chain /\ runs'[r].granted = granted
  BY <1>2 DEF Moved
<1>c. /\ channel' \in Seq(Messages)
      /\ Len(channel) + 1 \in DOMAIN channel' /\ channel'[Len(channel) + 1] = r
      /\ \A i \in DOMAIN channel : i \in DOMAIN channel' /\ i < Len(channel) + 1
              /\ channel'[i] = channel[i]
      /\ \A i \in DOMAIN channel' : i \in DOMAIN channel \/ i = Len(channel) + 1
  BY <1>0, <1>1, Appended
<1>3. ConsoleTypeOK'
  <2>1. runs' \in [Run -> RunState]
    BY <1>2 DEF Moved
  <2> QED
    BY <1>0, <1>1, <1>c, <2>1 DEF ConsoleTypeOK, Messages
<1>4. PageKept(tab, form)
  BY <1>0, <1>1, StillKeeps
<1>5. ListInv' /\ tab' = tab
  BY <1>4 DEF PageKept
<1>6. ChainInv'
  BY <1>0, <1>1, <1>c DEF ChainInv
<1>7. \A i \in DOMAIN channel : channel[i] # r
  BY <1>0, <1>2 DEF RunInv
<1>8. RunInv'
  <2>1. \A i, j \in DOMAIN channel' : channel'[i] = channel'[j] /\ channel'[i] \in Run => i = j
    BY <1>0, <1>c, <1>7 DEF RunInv
  <2>2. \A i \in DOMAIN channel' : channel'[i] \in Run =>
          runs'[channel'[i]].pc \in {"sent", "granting", "over"}
    BY <1>0, <1>2, <1>c, <1>m, <1>7 DEF RunInv
  <2>3. ASSUME NEW p \in Run
        PROVE  /\ runs'[p].pc \in {"unused", "preflight", "prepare", "sign"} => runs'[p].chain = None
               /\ p \in landed => runs'[p].chain = "ours"
               /\ runs'[p].pc \in {"record", "grant", "granting", "sync", "refresh"}
                    /\ runs'[p].chain = "ours" => p \in landed
               /\ runs'[p].pc \in {"sync", "refresh"} /\ runs'[p].kind \in ReadsEvent
                    => runs'[p].chain = "ours"
               /\ runs'[p].pc \in {"grant", "granting"} => runs'[p].kind = "register"
               /\ p \in closed => runs'[p].pc = "over" /\ (runs'[p].chain = "ours" => p \in landed)
    <3>1. CASE p # r
      BY <1>0, <1>m, <3>1 DEF RunInv
    <3>2. CASE p = r
      BY <1>0, <1>2, <1>m, <3>2, ConsoleAssumption DEF RunInv
    <3> QED
      BY <3>1, <3>2
  <2> QED
    BY <1>1, <2>1, <2>2, <2>3 DEF RunInv
<1>9. PICK f, q : f = form /\ q = runs'[f.run]
  OBVIOUS
<1>10. f \in FormState /\ PageKept(tab, f)
  BY <1>0, <1>4, <1>9, PageTyped
<1>11. (f.kind = None => f.run = None) /\ (f.run = None => f.stage = "idle")
  BY <1>0, <1>9 DEF FormInv
<1>12. f.run # None => q.kind = f.kind /\ q.pc # "unused" /\ DoneOK(f, q)' /\ WatchOK(f, q)'
  <2>1. CASE f.run # r /\ f.run # None
    <3>1. f.run \in Run /\ q = runs[f.run]
      BY <1>9, <1>10, <1>m, <2>1 DEF FormState
    <3>2. Warned(f.run) => Warned(f.run)'
      BY <1>c, <2>1, <3>1 DEF Warned
    <3> QED
      BY <1>0, <1>1, <1>9, <1>c, <2>1, <3>1, <3>2 DEF FormInv, WriteInv, DoneOK, WatchOK
  <2>2. CASE f.run = r
    <3>1. /\ q.kind = runs[r].kind /\ q.known = runs[r].known /\ q.pc = pc
          /\ q.chain = chain /\ q.granted = granted
          /\ runs[r].kind = f.kind /\ DoneOK(f, runs[r]) /\ WatchOK(f, runs[r])
      BY <1>0, <1>9, <1>m, <2>2 DEF FormInv, WriteInv
    <3>2. DoneOK(f, q)'
      BY <1>2, <3>1 DEF DoneOK
    <3>3. (\E j \in DOMAIN channel : channel[j] = "other") => Warned(r)'
      BY <1>c, <1>7 DEF Warned
    <3>4. WatchOK(f, q)'
      BY <1>1, <1>2, <1>c, <2>2, <3>1, <3>3 DEF WatchOK
    <3> QED
      BY <1>2, <3>1, <3>2, <3>4
  <2> QED
    BY <2>1, <2>2
<1>13. FormInv' /\ WriteInv'
  BY <1>9, <1>10, <1>11, <1>12, FormKeeps
<1> QED
  BY <1>3, <1>5, <1>6, <1>8, <1>13

(* A block of owneX's chain has the write.                                 *)
LEMMA LandsKeeps ==
  ASSUME ConsoleInv, NEW r \in Run, lands(r)
  PROVE  ConsoleTypeOK' /\ ListInv' /\ FormInv' /\ ChainInv' /\ RunInv' /\ WriteInv'
<1>0. ConsoleTypeOK /\ ListInv /\ FormInv /\ ChainInv /\ RunInv /\ WriteInv
  BY DEF ConsoleInv
<1>1. /\ UNCHANGED <<wallet, channel, cookie, asks, runs, closed, moves, tab, screen, loads, form>>
      /\ runs[r].chain = "ours" /\ landed' = landed \cup {r} /\ me' \in Org \cup {NoOrg}
      /\ r \notin landed
  BY <1>0 DEF lands, keepsPage, ConsoleTypeOK
<1>2. r \notin closed
  BY <1>0, <1>1 DEF RunInv
<1>3. PageKept(tab, form)
  BY <1>0, <1>1, <1>2, StillKeeps
<1>4. ConsoleTypeOK'
  BY <1>0, <1>1 DEF ConsoleTypeOK
<1>5. RunInv' /\ ChainInv'
  BY <1>0, <1>1 DEF RunInv, ChainInv
<1>6. PICK f, q : f = form /\ q = runs[f.run]
  OBVIOUS
<1>7. f \in FormState /\ PageKept(tab, f)
  BY <1>0, <1>3, <1>6, PageTyped
<1>8. (f.kind = None => f.run = None) /\ (f.run = None => f.stage = "idle")
  BY <1>0, <1>6 DEF FormInv
<1>9. f.run # None => q.kind = f.kind /\ q.pc # "unused" /\ DoneOK(f, q)' /\ WatchOK(f, q)'
  BY <1>0, <1>1, <1>6 DEF FormInv, WriteInv, DoneOK, WatchOK, Warned
<1>10. f.run # None => q = runs'[f.run]
  BY <1>1, <1>6
<1>11. FormInv' /\ WriteInv'
  BY <1>7, <1>8, <1>9, <1>10, FormKeeps
<1> QED
  BY <1>3, <1>4, <1>5, <1>11 DEF PageKept

(* A form that is on the page of another chain mints.                      *)
LEMMA WrongChainForms ==
  ASSUME NEW t, NEW s, NEW kind \in Form, Placed(t, s), mounted(kind, t, s), wrongChain(t)
  PROVE  kind = "mint"
<1>1. CASE t.page = "screen"
  <2>1. gated(t) /\ Showing(t)
    BY <1>1 DEF gated, Showing, mounted
  <2> QED
    BY <1>1, <2>1 DEF mounted, Placed
<1>2. CASE t.page # "screen"
  BY <1>2 DEF mounted, PageOf, Form
<1> QED
  BY <1>1, <1>2

LEMMA HearChainKeeps ==
  ASSUME ConsoleInv, hear, Head(channel) \notin Run
  PROVE  ConsoleTypeOK' /\ ListInv' /\ FormInv' /\ ChainInv' /\ RunInv' /\ WriteInv'
<1>0. /\ ConsoleTypeOK /\ ListInv /\ FormInv /\ ChainInv /\ RunInv /\ WriteInv
      /\ None \notin {"ours", "other"}
  BY ConsoleAssumption DEF ConsoleInv
<1>1. /\ UNCHANGED <<landed, wallet, me, cookie, asks, closed, moves, runs>>
      /\ channel # <<>> /\ channel' = Tail(channel)
  BY DEF hear
<1>c. /\ channel' \in Seq(Messages)
      /\ 1 \in DOMAIN channel /\ Head(channel) = channel[1]
      /\ DOMAIN channel' = 1..(Len(channel) - 1)
      /\ \A i \in DOMAIN channel' : i + 1 \in DOMAIN channel /\ channel'[i] = channel[i + 1]
      /\ \A i \in DOMAIN channel :
              i # 1 => i - 1 \in DOMAIN channel' /\ channel'[i - 1] = channel[i]
      /\ Len(channel) \in Nat /\ DOMAIN channel = 1..Len(channel)
  BY <1>0, <1>1, Heard, ChannelShape
<1>2. PICK said, c : /\ said = channel[1] /\ said \in {"ours", "other", "unknown"}
                     /\ c = (IF said = "unknown" THEN None ELSE said)
                     /\ c \in {None, "ours", "other"}
  BY <1>0, <1>1, <1>c, ChannelShape DEF Messages
<1>3. PICK t : /\ t \in TabState /\ PageKept(t, form) /\ t.active = tab.active
               /\ t.listens = tab.listens /\ (tab.missed => t.missed)
               /\ ~t.missed => tab.listens \/ ~tab.active
               /\ t.chainId = IF tab.listens THEN c ELSE tab.chainId
  <2>1. PICK missed : missed = (tab.missed \/ tab.active) /\ missed \in BOOLEAN
    OBVIOUS
  <2>2. PICK t : t = IF tab.listens THEN [tab EXCEPT !.chainId = c] ELSE [tab EXCEPT !.missed = missed]
    OBVIOUS
  <2>3. /\ t \in TabState /\ t.active = tab.active /\ t.listens = tab.listens
        /\ t.chainId = IF tab.listens THEN c ELSE tab.chainId
        /\ t.missed = IF tab.listens THEN tab.missed ELSE missed
    BY <1>0, <1>2, <2>1, <2>2, PageTyped DEF TabState
  <2>4. render(t, screen, loads, form)
    <3>1. [tab EXCEPT !.missed = @ \/ tab.active] = [tab EXCEPT !.missed = missed]
      BY <2>1
    <3> QED
      BY <1>2, <1>c, <2>2, <3>1 DEF hear, shows
  <2>5. PageKept(t, form)
    BY <1>0, <1>1, <2>3, <2>4, ShowsKeeps, PageTyped
  <2> QED
    BY <2>1, <2>3, <2>5
<1>4. tab' = t
  BY <1>3 DEF PageKept
<1>5. ConsoleTypeOK'
  BY <1>0, <1>1, <1>c, <1>3 DEF ConsoleTypeOK, PageKept, Messages
<1>6. ChainInv'
  <2>1. t.chainId # None \/ t.listens => t.active
    BY <1>0, <1>3 DEF ChainInv
  <2>2. \A i \in DOMAIN channel : channel[i] = "ours" =>
           wallet = "ours" \/ \E j \in DOMAIN channel' : i - 1 < j /\ channel'[j] = "other"
    <3> SUFFICES ASSUME NEW i \in DOMAIN channel, channel[i] = "ours", wallet # "ours"
                 PROVE  \E j \in DOMAIN channel' : i - 1 < j /\ channel'[j] = "other"
      OBVIOUS
    <3>1. PICK j \in DOMAIN channel : i < j /\ channel[j] = "other"
      BY <1>0 DEF ChainInv
    <3>2. j # 1 /\ j - 1 \in DOMAIN channel' /\ channel'[j - 1] = "other" /\ i - 1 < j - 1
      BY <1>c, <3>1
    <3> QED
      BY <3>2
  <2>3. ~t.missed /\ t.chainId = "ours" =>
           wallet = "ours" \/ \E j \in DOMAIN channel' : channel'[j] = "other"
    <3> SUFFICES ASSUME ~t.missed, t.chainId = "ours", wallet # "ours"
                 PROVE  \E j \in DOMAIN channel' : channel'[j] = "other"
      OBVIOUS
    <3>1. tab.listens
      BY <1>0, <1>3 DEF ChainInv
    <3>2. channel[1] = "ours"
      BY <1>0, <1>2, <1>3, <3>1
    <3> QED
      BY <1>c, <2>2, <3>2
  <2>4. \A i \in DOMAIN channel' : channel'[i] = "ours" =>
           wallet = "ours" \/ \E j \in DOMAIN channel' : i < j /\ channel'[j] = "other"
    BY <1>c, <2>2
  <2> QED
    BY <1>1, <1>4, <2>1, <2>3, <2>4 DEF ChainInv
<1>7. RunInv'
  <2>1. \A i \in DOMAIN channel' : channel'[i] \in Run =>
          runs[channel'[i]].pc \in {"sent", "granting", "over"}
    BY <1>0, <1>c DEF RunInv
  <2>2. \A i, j \in DOMAIN channel' : channel'[i] = channel'[j] /\ channel'[i] \in Run => i = j
    <3> SUFFICES ASSUME NEW i \in DOMAIN channel', NEW j \in DOMAIN channel',
                        channel'[i] = channel'[j], channel'[i] \in Run
                 PROVE  i = j
      OBVIOUS
    <3>1. i + 1 = j + 1
      BY <1>0, <1>c DEF RunInv
    <3> QED
      BY <1>c, <3>1
  <2> QED
    BY <1>0, <1>1, <2>1, <2>2 DEF RunInv
<1>8. PICK f, g : f = form /\ g = form'
  OBVIOUS
<1>9. /\ g \in {f, NoForm} /\ g \in FormState /\ f \in FormState
      /\ g.kind # None => mounted(g.kind, tab', screen')
      /\ Placed(tab', screen')
  BY <1>0, <1>3, <1>8, PageTyped DEF PageKept, ListInv
<1>10. PageKept(t, g)
  BY <1>3, <1>8 DEF PageKept
<1>11. NoForm.kind = None /\ NoForm.run = None /\ NoForm.stage = "idle"
  BY DEF NoForm
<1>12. (g.kind = None => g.run = None) /\ (g.run = None => g.stage = "idle")
  BY <1>0, <1>8, <1>9, <1>11 DEF FormInv
<1>13. PICK q : q = runs[g.run]
  OBVIOUS
<1>14. g.run # None => /\ g = f /\ g.run \in Run /\ g.kind \in Form /\ q.kind = g.kind
                       /\ q.pc # "unused" /\ DoneOK(g, q) /\ WatchOK(g, q)
  BY <1>0, <1>8, <1>9, <1>11, <1>12, <1>13 DEF FormInv, WriteInv, FormState
<1>15. ASSUME g.run # None, q.kind \notin ReadsEvent, q.known, ~t.missed
       PROVE  tab.active /\ said # "other"
  <2>1. tab.active /\ tab.listens
    BY <1>3, <1>14, <1>15 DEF WatchOK
  <2>2. SUFFICES ASSUME said = "other" PROVE FALSE
    BY <2>1
  <2>3. wrongChain(tab')
    BY <1>2, <1>3, <1>4, <2>1, <2>2 DEF wrongChain
  <2>4. g.kind # None
    BY <1>14, <1>15, ConsoleAssumption
  <2>5. g.kind = "mint"
    BY <1>9, <1>14, <1>15, <2>3, <2>4, WrongChainForms
  <2> QED
    BY <1>14, <1>15, <2>5 DEF ReadsEvent
<1>16. ASSUME g.run # None PROVE DoneOK(g, q)' /\ WatchOK(g, q)'
  <2>1. DoneOK(g, q)'
    BY <1>1, <1>3, <1>4, <1>14, <1>16 DEF DoneOK
  <2>2. ASSUME said # "other" PROVE Warned(g.run) => Warned(g.run)'
    <3> SUFFICES ASSUME Warned(g.run), NEW j \in DOMAIN channel', channel'[j] = g.run
                 PROVE  \E i \in DOMAIN channel' : i < j /\ channel'[i] = "other"
      BY DEF Warned
    <3>1. PICK i \in DOMAIN channel : i < j + 1 /\ channel[i] = "other"
      BY <1>c DEF Warned
    <3>2. i # 1 /\ i - 1 \in DOMAIN channel' /\ channel'[i - 1] = "other" /\ i - 1 < j
      BY <1>2, <1>c, <2>2, <3>1
    <3> QED
      BY <3>2
  <2>3. said # "other" => ((\E j \in DOMAIN channel : channel[j] = "other") =>
          \E j \in DOMAIN channel' : channel'[j] = "other")
    BY <1>2, <1>c
  <2>4. WatchOK(g, q)'
    BY <1>1, <1>3, <1>4, <1>14, <1>15, <1>16, <2>2, <2>3 DEF WatchOK
  <2> QED
    BY <2>1, <2>4
<1>17. g.run # None => q = runs'[g.run]
  BY <1>1, <1>13
<1>18. FormInv' /\ WriteInv'
  BY <1>9, <1>10, <1>12, <1>14, <1>16, <1>17, FormKeeps
<1> QED
  BY <1>3, <1>5, <1>6, <1>7, <1>18 DEF PageKept

LEMMA HearWriteKeeps ==
  ASSUME ConsoleInv, hear, Head(channel) \in Run
  PROVE  ConsoleTypeOK' /\ ListInv' /\ FormInv' /\ ChainInv' /\ RunInv' /\ WriteInv'
<1>0. ConsoleTypeOK /\ ListInv /\ FormInv /\ ChainInv /\ RunInv /\ WriteInv
  BY DEF ConsoleInv
<1>1. /\ UNCHANGED <<landed, wallet, me, cookie, asks, closed, moves, tab, screen, loads, form>>
      /\ channel # <<>> /\ channel' = Tail(channel)
  BY DEF hear, keepsPage
<1>c. /\ channel' \in Seq(Messages)
      /\ 1 \in DOMAIN channel /\ Head(channel) = channel[1]
      /\ DOMAIN channel' = 1..(Len(channel) - 1)
      /\ \A i \in DOMAIN channel' : i + 1 \in DOMAIN channel /\ channel'[i] = channel[i + 1]
      /\ \A i \in DOMAIN channel :
              i # 1 => i - 1 \in DOMAIN channel' /\ channel'[i - 1] = channel[i]
      /\ Len(channel) \in Nat /\ DOMAIN channel = 1..Len(channel)
  BY <1>0, <1>1, Heard, ChannelShape
<1>2. PICK r : r = channel[1] /\ r \in Run /\ r \notin {None, "ours", "other", "unknown"}
  BY <1>c, ConsoleAssumption
<1>3. runs[r].pc \in {"sent", "granting", "over"}
  BY <1>0, <1>2, <1>c DEF RunInv
<1>4. PICK pc : pc = IF runs[r].pc = "over" THEN "over"
                     ELSE IF runs[r].pc = "sent" THEN "mine" ELSE "sync"
  OBVIOUS
<1>5. Moved(r, pc, runs[r].chain, runs[r].granted)
  <2>1. CASE runs[r].pc = "over"
    BY <1>0, <1>2, <1>4, <1>c, <2>1, RunFields DEF hear, Moved
  <2>2. CASE runs[r].pc # "over"
    <3>1. runs' = [runs EXCEPT ![r].pc = IF @ = "sent" THEN "mine" ELSE "sync"]
      BY <1>2, <1>c, <2>2 DEF hear
    <3>2. advance(r, pc) /\ pc \in Pcs
      BY <1>0, <1>2, <1>4, <2>2, <3>1, RunFields DEF advance, Pcs
    <3> QED
      BY <1>0, <1>2, <3>2, Advances
  <2> QED
    BY <2>1, <2>2
<1>m. /\ \A p \in Run \ {r} : runs'[p] = runs[p] /\ runs' \in [Run -> RunState]
      /\ runs'[r].kind = runs[r].kind /\ runs'[r].known = runs[r].known
      /\ runs'[r].pc = pc /\ runs'[r].chain = runs[r].chain /\ runs'[r].granted = runs[r].granted
  BY <1>5 DEF Moved
<1>6. PageKept(tab, form)
  BY <1>0, <1>1, StillKeeps
<1>7. ConsoleTypeOK'
  <2>1. runs' \in [Run -> RunState]
    BY <1>5 DEF Moved
  <2> QED
    BY <1>0, <1>1, <1>c, <2>1 DEF ConsoleTypeOK, Messages
<1>8. ASSUME NEW k \in Nat, \E j \in DOMAIN channel : k < j /\ channel[j] = "other"
      PROVE  \E j \in DOMAIN channel' : k - 1 < j /\ channel'[j] = "other"
  <2>1. PICK j \in DOMAIN channel : k < j /\ channel[j] = "other"
    BY <1>8
  <2>2. j # 1 /\ j - 1 \in DOMAIN channel' /\ channel'[j - 1] = "other" /\ k - 1 < j - 1
    BY <1>2, <1>c, <2>1
  <2> QED
    BY <2>2
<1>9. ChainInv'
  <2>1. \A i \in DOMAIN channel' : channel'[i] = "ours" =>
           wallet = "ours" \/ \E j \in DOMAIN channel' : i < j /\ channel'[j] = "other"
    <3> SUFFICES ASSUME NEW i \in DOMAIN channel', channel'[i] = "ours", wallet # "ours"
                 PROVE  \E j \in DOMAIN channel' : i < j /\ channel'[j] = "other"
      OBVIOUS
    <3>1. i + 1 \in Nat /\ i + 1 \in DOMAIN channel /\ channel[i + 1] = "ours" /\ (i + 1) - 1 = i
      BY <1>c
    <3>2. \E j \in DOMAIN channel : i + 1 < j /\ channel[j] = "other"
      BY <1>0, <3>1 DEF ChainInv
    <3>3. \E j \in DOMAIN channel' : (i + 1) - 1 < j /\ channel'[j] = "other"
      BY <1>8, <3>1, <3>2
    <3> QED
      BY <3>1, <3>3
  <2>2. ~tab.missed /\ tab.chainId = "ours" =>
           wallet = "ours" \/ \E j \in DOMAIN channel' : channel'[j] = "other"
    BY <1>0, <1>2, <1>c DEF ChainInv
  <2> QED
    BY <1>0, <1>1, <2>1, <2>2 DEF ChainInv
<1>10. RunInv'
  <2>1. \A i \in DOMAIN channel' : channel'[i] # r
    <3> SUFFICES ASSUME NEW i \in DOMAIN channel', channel'[i] = r PROVE FALSE
      OBVIOUS
    <3>1. i + 1 \in DOMAIN channel /\ channel[i + 1] = channel[1] /\ i + 1 # 1
      BY <1>2, <1>c
    <3> QED
      BY <1>0, <1>2, <1>c, <3>1 DEF RunInv
  <2>2. \A i, j \in DOMAIN channel' : channel'[i] = channel'[j] /\ channel'[i] \in Run => i = j
    <3> SUFFICES ASSUME NEW i \in DOMAIN channel', NEW j \in DOMAIN channel',
                        channel'[i] = channel'[j], channel'[i] \in Run
                 PROVE  i = j
      OBVIOUS
    <3>1. i + 1 = j + 1
      BY <1>0, <1>c DEF RunInv
    <3> QED
      BY <1>c, <3>1
  <2>3. \A i \in DOMAIN channel' : channel'[i] \in Run =>
          runs'[channel'[i]].pc \in {"sent", "granting", "over"}
    BY <1>0, <1>c, <1>m, <2>1 DEF RunInv
  <2>4. ASSUME NEW p \in Run
        PROVE  /\ runs'[p].pc \in {"unused", "preflight", "prepare", "sign"} => runs'[p].chain = None
               /\ p \in landed => runs'[p].chain = "ours"
               /\ runs'[p].pc \in {"record", "grant", "granting", "sync", "refresh"}
                    /\ runs'[p].chain = "ours" => p \in landed
               /\ runs'[p].pc \in {"sync", "refresh"} /\ runs'[p].kind \in ReadsEvent
                    => runs'[p].chain = "ours"
               /\ runs'[p].pc \in {"grant", "granting"} => runs'[p].kind = "register"
               /\ p \in closed => runs'[p].pc = "over" /\ (runs'[p].chain = "ours" => p \in landed)
    <3>1. CASE p # r
      BY <1>0, <1>m, <3>1 DEF RunInv
    <3>2. CASE p = r
      BY <1>0, <1>3, <1>4, <1>m, <3>2 DEF RunInv, ReadsEvent
    <3> QED
      BY <3>1, <3>2
  <2> QED
    BY <1>1, <2>2, <2>3, <2>4 DEF RunInv
<1>11. PICK f, q : f = form /\ q = runs'[f.run]
  OBVIOUS
<1>12. f \in FormState /\ PageKept(tab, f) /\ (f.run # None => f.run \in Run)
  BY <1>0, <1>6, <1>11, PageTyped DEF FormState
<1>13. (f.kind = None => f.run = None) /\ (f.run = None => f.stage = "idle")
  BY <1>0, <1>11 DEF FormInv
<1>14. (\E j \in DOMAIN channel : channel[j] = "other") =>
         \E j \in DOMAIN channel' : channel'[j] = "other"
  BY <1>2, <1>c
<1>15. f.run # None => q.kind = f.kind /\ q.pc # "unused" /\ DoneOK(f, q)' /\ WatchOK(f, q)'
  <2>1. CASE f.run # r /\ f.run # None
    <3>1. f.run \in Run /\ q = runs[f.run]
      BY <1>11, <1>12, <1>m, <2>1
    <3>2. Warned(f.run) => Warned(f.run)'
      <4> SUFFICES ASSUME Warned(f.run), NEW j \in DOMAIN channel', channel'[j] = f.run
                   PROVE  \E i \in DOMAIN channel' : i < j /\ channel'[i] = "other"
        BY DEF Warned
      <4>1. PICK i \in DOMAIN channel : i < j + 1 /\ channel[i] = "other"
        BY <1>c DEF Warned
      <4>2. i # 1 /\ i - 1 \in DOMAIN channel' /\ channel'[i - 1] = "other" /\ i - 1 < j
        BY <1>2, <1>c, <4>1
      <4> QED
        BY <4>2
    <3> QED
      BY <1>0, <1>1, <1>11, <1>14, <2>1, <3>1, <3>2 DEF FormInv, WriteInv, DoneOK, WatchOK
  <2>2. CASE f.run = r
    <3>1. /\ q.kind = runs[r].kind /\ q.known = runs[r].known /\ q.pc = pc
          /\ q.chain = runs[r].chain /\ q.granted = runs[r].granted
          /\ runs[r].kind = f.kind /\ DoneOK(f, runs[r]) /\ WatchOK(f, runs[r])
      BY <1>0, <1>2, <1>11, <1>m, <2>2 DEF FormInv, WriteInv
    <3>2. ~Warned(r)
      BY <1>2, <1>c DEF Warned
    <3>3. DoneOK(f, q)'
      BY <1>1, <1>3, <1>4, <3>1 DEF DoneOK
    <3>4. WatchOK(f, q)'
      BY <1>1, <1>3, <1>4, <1>14, <2>2, <3>1, <3>2 DEF WatchOK
    <3> QED
      BY <1>3, <1>4, <3>1, <3>3, <3>4
  <2> QED
    BY <2>1, <2>2
<1>16. FormInv' /\ WriteInv'
  BY <1>11, <1>12, <1>13, <1>15, FormKeeps
<1> QED
  BY <1>6, <1>7, <1>9, <1>10, <1>16 DEF PageKept

-----------------------------------------------------------------------------
(* The steps of the page, of the server and of people.                     *)
Asks == [from : Run \cup {"boot", "signIn", "accounts", "overview"}, found : SessionState]

LEMMA AskedIsTyped ==
  ASSUME ConsoleTypeOK, NEW from \in Run \cup {"boot", "signIn", "accounts", "overview"}
  PROVE  /\ [from |-> from, found |-> found] \in Asks
         /\ [from |-> from, found |-> me] \in Asks
         /\ asks \subseteq Asks /\ found \in SessionState
BY DEF ConsoleTypeOK, Asks, found, SessionState

(* A step that leaves the chain, the wallet, the queue and the writes.     *)
LEMMA PageStep ==
  ASSUME ConsoleInv, UNCHANGED <<landed, wallet, channel, runs>>,
         moves' = moves \/ moved,
         me' \in Org \cup {NoOrg}, cookie' \in BOOLEAN, asks' \subseteq Asks,
         NEW t, NEW f \in FormState, PageKept(t, f),
         f = form \/ (f.run = None /\ f.stage = "idle"),
         tab.active => t.active, t.listens = tab.listens \/ t.active, tab.missed => t.missed,
         t.chainId = tab.chainId \/ (channel = <<>> /\ t.active /\ t.chainId \in {wallet, None}),
         closed' = closed \/ (closed' = closed \cup {form.run} /\ form.stage = "done")
  PROVE  ConsoleInv'
<1>0. ConsoleTypeOK /\ FormInv
  BY DEF ConsoleInv
<1>1. FormInv' /\ ChainInv' /\ RunInv' /\ WriteInv'
  BY PageStepKeeps
<1>2. moves' \in 0..MaxMoves
  BY <1>0, ConsoleAssumption DEF ConsoleTypeOK, moved
<1>3. closed' \subseteq Run
  <2>1. form.stage = "done" => form.run \in Run
    BY <1>0, PageTyped DEF FormInv, FormState
  <2> QED
    BY <1>0, <2>1 DEF ConsoleTypeOK
<1>4. ConsoleTypeOK'
  BY <1>0, <1>2, <1>3 DEF ConsoleTypeOK, PageKept, Asks
<1> QED
  BY <1>1, <1>4 DEF ConsoleInv, PageKept

LEMMA ParamsKept ==
  ASSUME ConsoleInv
  PROVE  /\ ConsoleTypeOK /\ ListInv /\ FormInv /\ ChainInv /\ RunInv /\ WriteInv
         /\ tab \in TabState /\ screen \in ScreenState /\ loads \in [Load -> LoadState]
         /\ form \in FormState
         /\ me \in Org \cup {NoOrg} /\ cookie \in BOOLEAN /\ asks \subseteq Asks
         /\ wallet \in {"ours", "other"}
BY PageTyped DEF ConsoleInv, ConsoleTypeOK, Asks

(* The server, and what becomes of its answers.                            *)
LEMMA LoadStep ==
  ASSUME ConsoleInv, NEW l \in Load, serverReads(l) \/ \E ok \in BOOLEAN : deliver(l, ok)
  PROVE  ConsoleInv'
<1>1. /\ loads[l] \in LoadState /\ landed \subseteq Run
      /\ UNCHANGED <<landed, wallet, channel, me, cookie, asks, runs, closed, moves>>
  BY ParamsKept DEF serverReads, deliver, ConsoleTypeOK
<1>2. PageKept(tab, form)
  <2>1. CASE serverReads(l)
    <3>1. PICK m : m = [loads[l] EXCEPT !.pc = "answered"]
      OBVIOUS
    <3>2. PICK q : q = [m EXCEPT !.seen = landed]
      OBVIOUS
    <3>3. m \in LoadState /\ m.pc = "answered" /\ m.live = loads[l].live /\ m.loader = loads[l].loader
          /\ m.nonce = loads[l].nonce /\ m.org = loads[l].org
      BY <1>1, <3>1 DEF LoadState
    <3>4. q \in LoadState /\ q.pc = "answered" /\ q.live = loads[l].live /\ q.loader = loads[l].loader
          /\ q.nonce = loads[l].nonce /\ q.org = loads[l].org /\ q.seen = landed
      BY <1>1, <3>2, <3>3 DEF LoadState
    <3>5. loads' = [loads EXCEPT ![l] = q]
      <4>1. [loads EXCEPT ![l].pc = "answered", ![l].seen = landed]
              = [loads EXCEPT ![l] = [m EXCEPT !.seen = landed]]
        BY <3>1, ParamsKept
      <4> QED
        BY <2>1, <3>2, <4>1 DEF serverReads
    <3>6. UNCHANGED <<tab, screen, form, landed, closed>>
      BY <2>1 DEF serverReads
    <3> QED
      BY <3>4, <3>5, <3>6, LoadMovesKeeps, ParamsKept
  <2>2. ASSUME NEW ok \in BOOLEAN, deliver(l, ok)
        PROVE  PageKept(tab, form)
    <3>1. CASE loads[l].live
      BY <1>1, <2>2, <3>1, SettlesKeeps, ParamsKept DEF deliver
    <3>2. CASE ~loads[l].live
      <4>1. NoLoad \in LoadState /\ NoLoad.live = FALSE
        BY DEF NoLoad, LoadState, SessionState
      <4> QED
        BY <1>1, <2>2, <3>2, <4>1, LoadMovesKeeps, ParamsKept DEF deliver, dropsLoad
    <3> QED
      BY <3>1, <3>2
  <2> QED
    BY <2>1, <2>2
<1> QED
  BY <1>1, <1>2, PageStep, ParamsKept

(* Opening, closing and leaving a form.                                    *)
LEMMA FormStep ==
  ASSUME ConsoleInv, (\E kind \in Kinds : open(kind)) \/ close \/ leave
  PROVE  ConsoleInv'
<1>0. NoForm \in FormState /\ NoForm.kind = None /\ NoForm.run = None /\ NoForm.stage = "idle"
  BY DEF NoForm, FormState
<1>1. ASSUME NEW kind \in Kinds, open(kind) PROVE ConsoleInv'
  <2>1. PICK f : f = [NoForm EXCEPT !.kind = kind]
    OBVIOUS
  <2>2. f \in FormState /\ f.run = None /\ f.stage = "idle"
    BY <1>0, <2>1, ConsoleAssumption DEF FormState
  <2>3. /\ UNCHANGED <<landed, wallet, channel, me, cookie, asks, runs, closed, moves>>
        /\ render(tab, screen, loads, f)
    BY <1>1, <2>1 DEF open, showsForm
  <2>4. PageKept(tab, f)
    BY <2>2, <2>3, ShowsKeeps, ParamsKept
  <2> QED
    BY <2>2, <2>3, <2>4, PageStep, ParamsKept
<1>2. ASSUME leave PROVE ConsoleInv'
  <2>1. /\ UNCHANGED <<landed, wallet, channel, me, cookie, asks, runs, closed, moves>>
        /\ render(tab, screen, loads, NoForm)
    BY <1>2 DEF leave, showsForm
  <2>2. PageKept(tab, NoForm)
    BY <1>0, <2>1, ShowsKeeps, ParamsKept
  <2> QED
    BY <1>0, <2>1, <2>2, PageStep, ParamsKept
<1>3. ASSUME close PROVE ConsoleInv'
  <2>1. /\ UNCHANGED <<landed, wallet, channel, me, cookie, asks, runs, moves>>
        /\ IF form.stage = "done"
           THEN closed' = closed \cup {form.run} /\ render(tab, reloaded(screen), loads, NoForm)
           ELSE closed' = closed /\ render(tab, screen, loads, NoForm)
    BY <1>3 DEF close
  <2>2. PageKept(tab, NoForm)
    BY <1>0, <2>1, ReloadKeeps, ShowsKeeps, ParamsKept
  <2> QED
    BY <1>0, <2>1, <2>2, PageStep, ParamsKept
<1> QED
  BY <1>1, <1>2, <1>3

(* Everything else that only the tab has to do with.                       *)
LEMMA TabStep ==
  ASSUME ConsoleInv, WalletChosen,
         \/ reconnect \/ listen \/ signIn \/ readChain \/ verified \/ signInFails \/ retry
         \/ accountsChanged \/ reread \/ signOut \/ elsewhere
         \/ \E page \in {"screen", "mint", "onboarding"} : navigate(page)
  PROVE  ConsoleInv'
<1>0. None \in SessionState
  BY DEF SessionState
<1>1. /\ UNCHANGED <<landed, wallet, channel, runs, closed>> /\ (moves' = moves \/ moved)
      /\ me' \in Org \cup {NoOrg} /\ cookie' \in BOOLEAN
  BY ParamsKept DEF reconnect, listen, signIn, readChain, verified, signInFails, retry, accountsChanged,
                    reread, signOut, elsewhere, navigate, asksMe, moved
<1>2. asks' \subseteq Asks
  <2>1. asks' = asks \/ (\E from \in Run \cup {"boot", "signIn", "accounts", "overview"} :
                           asks' \in { asks \cup {[from |-> from, found |-> found]},
                                       asks \cup {[from |-> from, found |-> me]} })
    BY DEF reconnect, listen, signIn, readChain, verified, signInFails, retry, accountsChanged,
           reread, signOut, elsewhere, navigate, asksMe
  <2> QED
    BY <2>1, AskedIsTyped, ParamsKept
<1>3. ASSUME NEW t \in TabState, shows(t), tab.active => t.active,
             t.listens = tab.listens \/ t.active, t.missed = tab.missed,
             t.chainId = tab.chainId \/ (channel = <<>> /\ t.active /\ t.chainId \in {wallet, None})
      PROVE  ConsoleInv'
  <2>1. PageKept(t, form)
    BY <1>1, <1>3, ShowsKeeps, ParamsKept DEF shows
  <2> QED
    BY <1>1, <1>2, <1>3, <2>1, PageStep, ParamsKept
<1>4. CASE keepsPage
  <2>1. PageKept(tab, form)
    BY <1>1, <1>4, StillKeeps, ParamsKept DEF keepsPage
  <2> QED
    BY <1>1, <1>2, <2>1, PageStep, ParamsKept
<1>5. CASE retry
  <2>1. PageKept(tab, form)
    BY <1>1, <1>5, ReloadKeeps, ParamsKept DEF retry
  <2> QED
    BY <1>1, <1>2, <2>1, PageStep, ParamsKept
<1>6. ASSUME reconnect PROVE ConsoleInv'
  <2>1. PICK c \in {wallet, None} : shows([tab EXCEPT !.active = TRUE, !.chainId = c])
    BY <1>6 DEF reconnect, ChainRead
  <2>2. PICK m, t : m = [tab EXCEPT !.active = TRUE] /\ t = [m EXCEPT !.chainId = c]
    OBVIOUS
  <2>3. m \in TabState /\ m.active = TRUE /\ m.missed = tab.missed
    BY <2>2, ParamsKept DEF TabState
  <2>4. t \in TabState /\ t.active = TRUE /\ t.chainId = c /\ t.missed = tab.missed
    BY <2>2, <2>3, ParamsKept DEF TabState
  <2>5. [tab EXCEPT !.active = TRUE, !.chainId = c] = t
    BY <2>2
  <2> QED
    BY <1>3, <1>6, <2>1, <2>4, <2>5 DEF reconnect
<1>7. ASSUME signIn PROVE ConsoleInv'
  <2>1. PICK m, n, t : /\ m = [tab EXCEPT !.active = TRUE] /\ n = [m EXCEPT !.listens = TRUE]
                       /\ t = [n EXCEPT !.signIn = "connect"]
    OBVIOUS
  <2>2. m \in TabState /\ m.active = TRUE /\ m.chainId = tab.chainId /\ m.missed = tab.missed
    BY <2>1, ParamsKept DEF TabState
  <2>3. n \in TabState /\ n.active = TRUE /\ n.chainId = tab.chainId /\ n.missed = tab.missed
    BY <2>1, <2>2 DEF TabState
  <2>4. t \in TabState /\ t.active = TRUE /\ t.chainId = tab.chainId /\ t.missed = tab.missed
    BY <2>1, <2>3 DEF TabState
  <2>5. [tab EXCEPT !.active = TRUE, !.listens = TRUE, !.signIn = "connect"] = t
    BY <2>1
  <2> QED
    BY <1>3, <1>7, <2>4, <2>5 DEF signIn
<1>8. ASSUME readChain PROVE ConsoleInv'
  <2>1. PICK c \in {wallet, None} : shows([tab EXCEPT !.chainId = c, !.signIn = "verify"])
    BY <1>8 DEF readChain, ChainRead
  <2>2. PICK m, t : m = [tab EXCEPT !.chainId = c] /\ t = [m EXCEPT !.signIn = "verify"]
    OBVIOUS
  <2>3. /\ m \in TabState /\ m.chainId = c /\ m.active = tab.active
        /\ m.listens = tab.listens /\ m.missed = tab.missed
    BY <2>2, ParamsKept DEF TabState
  <2>4. /\ t \in TabState /\ t.chainId = c /\ t.active = tab.active
        /\ t.listens = tab.listens /\ t.missed = tab.missed
    BY <2>2, <2>3 DEF TabState
  <2>5. [tab EXCEPT !.chainId = c, !.signIn = "verify"] = t
    BY <2>2
  <2>6. tab.active
    BY <1>8 DEF readChain, WalletChosen
  <2> QED
    BY <1>3, <1>8, <2>1, <2>4, <2>5, <2>6 DEF readChain
<1>9. ASSUME NEW s \in {"idle", "me"}, shows([tab EXCEPT !.signIn = s]) PROVE ConsoleInv'
  <2>1. PICK t : t = [tab EXCEPT !.signIn = s]
    OBVIOUS
  <2>2. /\ t \in TabState /\ t.active = tab.active /\ t.chainId = tab.chainId
        /\ t.listens = tab.listens /\ t.missed = tab.missed
    BY <2>1, ParamsKept DEF TabState
  <2> QED
    BY <1>3, <1>9, <2>1, <2>2
<1>10. ASSUME signOut PROVE ConsoleInv'
  <2>1. PICK m, t : m = [tab EXCEPT !.session = None] /\ t = [m EXCEPT !.signIn = "idle"]
    OBVIOUS
  <2>2. /\ m \in TabState /\ m.active = tab.active /\ m.chainId = tab.chainId
        /\ m.listens = tab.listens /\ m.missed = tab.missed
    BY <1>0, <2>1, ParamsKept DEF TabState
  <2>3. /\ t \in TabState /\ t.active = tab.active /\ t.chainId = tab.chainId
        /\ t.listens = tab.listens /\ t.missed = tab.missed
    BY <2>1, <2>2 DEF TabState
  <2>4. [tab EXCEPT !.session = None, !.signIn = "idle"] = t
    BY <2>1
  <2> QED
    BY <1>3, <1>10, <2>3, <2>4 DEF signOut
<1>11. ASSUME NEW page \in {"screen", "mint", "onboarding"}, navigate(page) PROVE ConsoleInv'
  <2>1. PICK t : t = [tab EXCEPT !.page = page]
    OBVIOUS
  <2>2. /\ t \in TabState /\ t.active = tab.active /\ t.chainId = tab.chainId
        /\ t.listens = tab.listens /\ t.missed = tab.missed
    BY <2>1, ParamsKept DEF TabState
  <2> QED
    BY <1>3, <1>11, <2>1, <2>2 DEF navigate
<1>12. ASSUME listen PROVE ConsoleInv'
  <2>1. PICK t : t = [tab EXCEPT !.listens = TRUE]
    OBVIOUS
  <2>2. t \in TabState /\ t.active = tab.active /\ t.chainId = tab.chainId
        /\ t.missed = tab.missed
    BY <2>1, ParamsKept DEF TabState
  <2> QED
    BY <1>3, <1>12, <2>1, <2>2 DEF listen
<1> QED
  BY <1>4, <1>5, <1>6, <1>7, <1>8, <1>9, <1>10, <1>11, <1>12
     DEF verified, signInFails, accountsChanged, reread, elsewhere, asksMe

LEMMA WalletChosenStep ==
  ASSUME ConsoleTypeOK, WalletChosen, ConsoleNext
  PROVE  WalletChosen'
<1>0. tab \in TabState
  BY PageTyped
<1>1. ASSUME NEW t, NEW s, NEW ls, NEW f, render(t, s, ls, f)
      PROVE  tab' = t
  BY <1>1 DEF render
<1>2. CASE tab' = tab
  BY <1>2 DEF WalletChosen
<1>3. CASE signIn
  <2>1. tab' = [tab EXCEPT !.active = TRUE, !.listens = TRUE, !.signIn = "connect"]
    BY <1>1, <1>3 DEF signIn, shows
  <2> QED
    BY <1>0, <2>1 DEF WalletChosen, TabState
<1>4. CASE reconnect
  <2>1. PICK c : tab' = [tab EXCEPT !.active = TRUE, !.chainId = c]
    BY <1>1, <1>4 DEF reconnect, shows
  <2> QED
    BY <1>0, <2>1 DEF WalletChosen, TabState
<1>5. CASE readChain
  <2>1. PICK c : tab' = [tab EXCEPT !.chainId = c, !.signIn = "verify"]
    BY <1>1, <1>5 DEF readChain, shows
  <2> QED
    BY <1>0, <2>1 DEF WalletChosen, TabState
<1>6. ASSUME NEW s \in {"idle", "me"}, tab' = [tab EXCEPT !.signIn = s] PROVE WalletChosen'
  BY <1>0, <1>6 DEF WalletChosen, TabState
<1>7. CASE signOut
  <2>1. tab' = [tab EXCEPT !.session = None, !.signIn = "idle"]
    BY <1>1, <1>7 DEF signOut, shows
  <2> QED
    BY <1>0, <2>1 DEF WalletChosen, TabState
<1>8. ASSUME NEW page, navigate(page) PROVE WalletChosen'
  <2>1. tab' = [tab EXCEPT !.page = page]
    BY <1>1, <1>8 DEF navigate, shows
  <2> QED
    BY <1>0, <2>1 DEF WalletChosen, TabState
<1>9. CASE reloadPage
  <2>1. tab' = [Booting EXCEPT !.page = tab.page]
    BY <1>1, <1>9 DEF reloadPage, shows
  <2> QED
    BY <2>1 DEF WalletChosen, Booting
<1>10. ASSUME NEW q \in asks, NEW ok \in BOOLEAN, answer(q, ok) PROVE WalletChosen'
  <2>1. PICK session, signing :
           /\ tab' = [tab EXCEPT !.session = session, !.signIn = signing]
           /\ signing \in {"idle", tab.signIn}
    BY <1>1, <1>10 DEF answer, afterAnswer
  <2> QED
    BY <1>0, <2>1 DEF WalletChosen, TabState
<1>11. CASE hear
  <2>1. tab' = tab \/ (\E c : tab' = [tab EXCEPT !.chainId = c])
          \/ tab' = [tab EXCEPT !.missed = @ \/ tab.active]
    BY <1>1, <1>11 DEF hear, shows, keepsPage
  <2> QED
    BY <1>0, <1>2, <2>1 DEF WalletChosen, TabState
<1>12. ASSUME NEW r \in Run, runSteps(r) PROVE tab' = tab
  BY <1>1, <1>12 DEF runSteps, submit, prepare, approve, dismiss, lands, mined, writeFails, record,
                     grant, grantRefused, sync, preflight, keepsPage, showsForm
<1>13. ASSUME NEW l \in Load, serverReads(l) \/ \E ok \in BOOLEAN : deliver(l, ok)
       PROVE  tab' = tab
  BY <1>1, <1>13 DEF serverReads, deliver, settles, dropsLoad
<1>14. ASSUME \/ retry \/ close \/ leave \/ accountsChanged \/ reread \/ fixChain \/ switchChain
              \/ elsewhere \/ \E kind \in Kinds : open(kind)
       PROVE  tab' = tab
  BY <1>1, <1>14 DEF retry, close, leave, accountsChanged, reread, fixChain, switchChain, elsewhere,
                     open, asksMe, keepsPage, showsForm
<1>15. CASE verified \/ signInFails
  <2>1. tab' = [tab EXCEPT !.signIn = "me"] \/ tab' = [tab EXCEPT !.signIn = "idle"]
    BY <1>1, <1>15 DEF verified, signInFails, shows
  <2> QED
    BY <1>6, <2>1
<1>16. CASE listen
  <2>1. tab' = [tab EXCEPT !.listens = TRUE]
    BY <1>1, <1>16 DEF listen, shows
  <2> QED
    BY <1>0, <2>1 DEF WalletChosen, TabState
<1> QED
  BY <1>2, <1>3, <1>4, <1>5, <1>7, <1>8, <1>9, <1>10, <1>11, <1>12, <1>13, <1>14, <1>15, <1>16
     DEF ConsoleNext

(* The owner switches, or has the page switch, the chain of the wallet.    *)
LEMMA WalletStep ==
  ASSUME ConsoleInv, fixChain \/ switchChain
  PROVE  ConsoleInv'
<1>1. /\ UNCHANGED <<landed, me, cookie, asks, runs, closed, tab, screen, loads, form>>
      /\ moved /\ wallet' \in {"ours", "other"}
  BY ParamsKept DEF fixChain, switchChain, keepsPage
<1>2. PageKept(tab, form)
  BY <1>1, StillKeeps, ParamsKept
<1>3. /\ channel \in Seq(Messages) /\ Len(channel) \in Nat /\ DOMAIN channel = 1..Len(channel)
  BY ChannelShape, ParamsKept
<1>4. {"ours", "other", "unknown"} \cap Run = {} /\ {"ours", "other", "unknown"} \subseteq Messages
  BY ConsoleAssumption DEF Messages
<1>5. /\ channel' \in Seq(Messages)
      /\ \A i \in DOMAIN channel : i \in DOMAIN channel' /\ channel'[i] = channel[i]
      /\ \A i \in DOMAIN channel' : i \in DOMAIN channel \/ channel'[i] \notin Run
      /\ DOMAIN channel' \subseteq Nat
      /\ \/ wallet' = "ours"
         \/ \E j \in DOMAIN channel' :
                 channel'[j] = "other" /\ \A i \in DOMAIN channel' : i # j => i < j
  <2>1. CASE fixChain
    <3>1. PICK read \in {"ours", "unknown"} : channel' = (channel \o switched) \o <<read>>
      BY <2>1 DEF fixChain
    <3>2. PICK c : c = channel \o switched
      OBVIOUS
    <3>3. switched = <<>> \/ switched = <<"ours">>
      BY DEF switched
    <3>4. /\ c \in Seq(Messages) /\ DOMAIN c = 1..Len(c) /\ Len(c) \in Nat
          /\ \A i \in DOMAIN channel : i \in DOMAIN c /\ c[i] = channel[i]
          /\ \A i \in DOMAIN c : i \in DOMAIN channel \/ c[i] = "ours"
      <4>1. CASE switched = <<>>
        BY <1>3, <3>2, <4>1
      <4>2. CASE switched = <<"ours">>
        BY <1>3, <1>4, <3>2, <4>2
      <4> QED
        BY <3>3, <4>1, <4>2
    <3>5. /\ channel' \in Seq(Messages) /\ DOMAIN channel' = 1..(Len(c) + 1)
          /\ \A i \in DOMAIN c : channel'[i] = c[i]
          /\ channel'[Len(c) + 1] = read
      BY <1>4, <3>1, <3>2, <3>4
    <3>6. \A i \in DOMAIN channel' : i \in DOMAIN c \/ i = Len(c) + 1
      BY <3>4, <3>5
    <3>7. wallet' = "ours"
      BY <2>1 DEF fixChain
    <3> QED
      BY <1>4, <3>4, <3>5, <3>6, <3>7
  <2>2. CASE switchChain
    <3>1. PICK w : w = wallet' /\ channel' = Append(channel, w)
      BY <2>2 DEF switchChain
    <3>2. w \in {"ours", "other"} /\ w \in Messages /\ w \notin Run
      BY <1>1, <1>4, <3>1
    <3>3. /\ channel' \in Seq(Messages)
          /\ Len(channel) + 1 \in DOMAIN channel' /\ channel'[Len(channel) + 1] = w
          /\ \A i \in DOMAIN channel : i \in DOMAIN channel' /\ i < Len(channel) + 1
                  /\ channel'[i] = channel[i]
          /\ \A i \in DOMAIN channel' : i \in DOMAIN channel \/ i = Len(channel) + 1
      BY <3>1, <3>2, Appended, ParamsKept
    <3>4. DOMAIN channel' \subseteq Nat
      BY <1>3, <3>3
    <3>5. w = "other" => \E j \in DOMAIN channel' :
                              channel'[j] = "other" /\ \A i \in DOMAIN channel' : i # j => i < j
      BY <3>3
    <3> QED
      BY <3>1, <3>2, <3>3, <3>4, <3>5
  <2> QED
    BY <2>1, <2>2
<1>6. \A i \in DOMAIN channel : i \in Nat
  BY <1>3
<1>7. FormInv' /\ ChainInv' /\ RunInv' /\ WriteInv'
  BY <1>1, <1>2, <1>5, <1>6, WalletStepKeeps
<1>8. moves' \in 0..MaxMoves
  BY <1>1, ParamsKept, ConsoleAssumption DEF ConsoleTypeOK, moved
<1>9. ConsoleTypeOK'
  BY <1>1, <1>2, <1>5, <1>8, ParamsKept DEF ConsoleTypeOK, PageKept, Messages
<1> QED
  BY <1>2, <1>7, <1>9 DEF ConsoleInv, PageKept

(* A reload of the page starts with no session, and so with no form.       *)
LEMMA ReloadStep ==
  ASSUME ConsoleInv, reloadPage
  PROVE  ConsoleInv'
<1>1. /\ UNCHANGED <<landed, wallet, me, cookie, closed>> /\ moved
      /\ asks' = {[from |-> "boot", found |-> found]} /\ channel' = <<>>
  BY DEF reloadPage
<1>2. PICK t : t = [Booting EXCEPT !.page = tab.page]
  OBVIOUS
<1>3. t \in TabState /\ t.active = FALSE /\ t.listens = FALSE /\ t.chainId = None /\ t.session = None
  BY <1>2, ParamsKept DEF Booting, TabState, SessionState
<1>4. PageKept(t, form)
  <2>1. render(t, screen, loads, form)
    BY <1>2 DEF reloadPage, shows
  <2> QED
    BY <1>1, <1>3, <2>1, ShowsKeeps, ParamsKept
<1>5. form' = NoForm
  <2>1. form' = IF mounted(form.kind, t, screen') THEN form ELSE NoForm
    BY <1>2 DEF reloadPage, shows, render
  <2> QED
    BY <1>3, <2>1 DEF mounted
<1>6. FormInv' /\ WriteInv'
  <2>1. NoForm.kind = None /\ NoForm.run = None /\ NoForm.stage = "idle"
    BY DEF NoForm
  <2> QED
    BY <1>5, <2>1 DEF FormInv, WriteInv
<1>7. ChainInv'
  <2>1. tab' = t
    BY <1>4 DEF PageKept
  <2>2. None # "ours"
    BY ConsoleAssumption
  <2> QED
    BY <1>1, <1>3, <2>1, <2>2 DEF ChainInv
<1>8. ASSUME NEW r \in Run
      PROVE  /\ runs'[r] \in RunState
             /\ \/ runs'[r] = Unused /\ runs[r].pc = "unused"
                \/ /\ runs'[r].pc = "over" /\ runs'[r].chain = runs[r].chain
                   /\ runs[r].pc # "unused"
  <2>1. runs'[r] = IF runs[r].pc = "unused" THEN Unused ELSE [runs[r] EXCEPT !.pc = "over"]
    BY DEF reloadPage
  <2>2. Unused \in RunState
    BY DEF Unused, RunState
  <2>3. runs[r] \in RunState
    BY RunFields, ParamsKept
  <2> QED
    BY <2>1, <2>2, <2>3 DEF RunState
<1>9. runs' \in [Run -> RunState]
  <2>1. runs' = [r \in Run |-> runs'[r]]
    BY DEF reloadPage
  <2> QED
    BY <1>8, <2>1
<1>10. RunInv'
  <2>1. Unused.pc = "unused" /\ Unused.chain = None
    BY DEF Unused
  <2>2. None # "ours"
    BY ConsoleAssumption
  <2>3. ASSUME NEW r \in Run
        PROVE  /\ runs'[r].pc \in {"unused", "preflight", "prepare", "sign"} => runs'[r].chain = None
               /\ r \in landed => runs'[r].chain = "ours"
               /\ runs'[r].pc \in {"unused", "over"}
               /\ r \in closed => runs'[r].pc = "over" /\ (runs'[r].chain = "ours" => r \in landed)
    BY <1>8, <2>1, <2>2, ParamsKept DEF RunInv
  <2> QED
    BY <1>1, <2>3 DEF RunInv
<1>11. moves' \in 0..MaxMoves
  BY <1>1, ParamsKept, ConsoleAssumption DEF ConsoleTypeOK, moved
<1>12. asks' \subseteq Asks
  BY <1>1, AskedIsTyped, ParamsKept
<1>13. ConsoleTypeOK'
  BY <1>1, <1>4, <1>9, <1>11, <1>12, ParamsKept DEF ConsoleTypeOK, PageKept, Asks
<1> QED
  BY <1>4, <1>6, <1>7, <1>10, <1>13 DEF ConsoleInv, PageKept

(* A write that moves on and has nothing to do with the wallet.            *)
LEMMA WriteStep ==
  ASSUME ConsoleInv, NEW r \in Run, NEW pc \in Pcs \ {"sent", "granting"},
         advance(r, pc), UNCHANGED <<landed, wallet, channel, closed, me, cookie, moves>>,
         asks' \subseteq Asks,
         runs[r].pc \notin {"unused", "sent", "granting", "over"},
         NEW t, NEW f \in FormState, PageKept(t, f),
         t.active = tab.active, t.listens = tab.listens, t.missed = tab.missed, t.chainId = tab.chainId,
         f.run = form.run, f.kind = form.kind, form.run # r => f = form,
         form.run = r => f.stage \in {"idle", "busy", "error", form.stage}
                           \/ (pc = "over" /\ runs[r].pc = "refresh"),
         form.warned => f.warned,
         pc \in {"preflight", "prepare", "sign"} => runs[r].pc \in {"preflight", "prepare", "sign"},
         pc \in {"record", "grant", "sync", "refresh"} /\ runs[r].chain = "ours" => r \in landed,
         pc \in {"sync", "refresh"} /\ runs[r].kind \in ReadsEvent => runs[r].chain = "ours",
         pc = "grant" => runs[r].kind = "register",
         pc \in {"mine", "record", "grant", "sync", "refresh"} =>
           runs[r].pc \in {"mine", "record", "grant", "sync", "refresh"},
         pc \in {"sync", "refresh"} /\ runs[r].kind = "register" =>
           runs[r].pc = "sync" \/ (form.run = r => f.warned)
  PROVE  ConsoleInv'
<1>1. Moved(r, pc, runs[r].chain, runs[r].granted)
  BY Advances, ParamsKept
<1>2. form.run = r => f.stage # "done" \/ (pc = "over" /\ runs[r].pc = "refresh")
  <2>1. r # None
    BY ConsoleAssumption
  <2>2. form.run = r => form.stage # "done"
    BY <2>1, ParamsKept DEF WriteInv, DoneOK
  <2> QED
    BY <2>2
<1>3. FormInv' /\ ChainInv' /\ RunInv' /\ WriteInv'
  BY <1>1, <1>2, WriteStepKeeps
<1>4. ConsoleTypeOK'
  BY <1>1, ParamsKept DEF ConsoleTypeOK, PageKept, Moved, Asks
<1> QED
  BY <1>3, <1>4 DEF ConsoleInv, PageKept

LEMMA Told ==
  ASSUME ConsoleTypeOK, NEW r \in Run, NEW stage \in {"idle", "busy", "done", "error"}, NEW f,
         f = told(r, stage)
  PROVE  /\ f \in FormState /\ f.run = form.run /\ f.kind = form.kind /\ f.warned = form.warned
         /\ form.run # r => f = form
         /\ form.run = r => f.stage = stage
BY PageTyped DEF told, FormState

LEMMA PrepareStep ==
  ASSUME ConsoleInv, NEW r \in Run,
         prepare(r) \/ dismiss(r) \/ mined(r) \/ writeFails(r)
           \/ \E ok \in BOOLEAN : preflight(r, ok)
  PROVE  ConsoleInv'
<1>1. CASE prepare(r)
  <2>1. /\ UNCHANGED <<landed, wallet, channel, closed, me, cookie, moves, asks>>
        /\ runs[r].pc = "prepare" /\ advance(r, "sign") /\ keepsPage
    BY <1>1 DEF prepare
  <2>2. PageKept(tab, form)
    BY <2>1, StillKeeps, ParamsKept DEF keepsPage
  <2> QED
    BY <2>1, <2>2, WriteStep, ParamsKept DEF Pcs
<1>2. CASE mined(r)
  <2>1. /\ UNCHANGED <<landed, wallet, channel, closed, me, cookie, moves, asks>>
        /\ runs[r].pc = "mine" /\ advance(r, "record") /\ keepsPage
        /\ runs[r].chain = "ours" => r \in landed
    BY <1>2 DEF mined
  <2>2. PageKept(tab, form)
    BY <2>1, StillKeeps, ParamsKept DEF keepsPage
  <2> QED
    BY <2>1, <2>2, WriteStep, ParamsKept DEF Pcs
<1>3. ASSUME NEW stage \in {"idle", "error"}, showsForm(told(r, stage)), advance(r, "over"),
             runs[r].pc \in {"prepare", "sign", "mine", "record"},
             UNCHANGED <<landed, wallet, channel, closed, me, cookie, moves, asks>>
      PROVE  ConsoleInv'
  <2>1. PICK f : f = told(r, stage)
    OBVIOUS
  <2>2. /\ f \in FormState /\ f.run = form.run /\ f.kind = form.kind /\ f.warned = form.warned
        /\ form.run # r => f = form
        /\ form.run = r => f.stage = stage
    BY <2>1, Told, ParamsKept
  <2>3. PageKept(tab, f)
    BY <1>3, <2>1, <2>2, ShowsKeeps, ParamsKept DEF showsForm
  <2> QED
    BY <1>3, <2>2, <2>3, WriteStep, ParamsKept DEF Pcs
<1>4. ASSUME NEW ok \in BOOLEAN, preflight(r, ok)
      PROVE  ConsoleInv'
  <2>1. PICK f : f = IF ok THEN told(r, "busy") ELSE form
    OBVIOUS
  <2>2. /\ f \in FormState /\ f.run = form.run /\ f.kind = form.kind /\ f.warned = form.warned
        /\ form.run # r => f = form
        /\ form.run = r => f.stage \in {"busy", form.stage}
    BY <2>1, Told, ParamsKept
  <2>3. PICK pc : pc = IF ok THEN "prepare" ELSE "over"
    OBVIOUS
  <2>4. /\ UNCHANGED <<landed, wallet, channel, closed, me, cookie, moves, asks>>
        /\ runs[r].pc = "preflight" /\ advance(r, pc) /\ render(tab, screen, loads, f)
    BY <1>4, <2>1, <2>3 DEF preflight, showsForm
  <2>5. PageKept(tab, f)
    BY <2>2, <2>4, ShowsKeeps, ParamsKept
  <2> QED
    BY <2>2, <2>3, <2>4, <2>5, WriteStep, ParamsKept DEF Pcs
<1> QED
  BY <1>1, <1>2, <1>3, <1>4 DEF dismiss, writeFails

LEMMA RecordStep ==
  ASSUME ConsoleInv, NEW r \in Run, record(r) \/ grantRefused(r) \/ sync(r)
  PROVE  ConsoleInv'
<1>1. CASE record(r)
  <2>1. PICK pc : pc = IF runs[r].kind = "register" THEN "grant" ELSE "sync"
    OBVIOUS
  <2>2. /\ UNCHANGED <<landed, wallet, channel, closed, me, cookie, moves, asks>>
        /\ runs[r].pc = "record" /\ advance(r, pc)
        /\ runs[r].kind \in ReadsEvent => runs[r].chain = "ours"
    BY <1>1, <2>1 DEF record
  <2>3. PageKept(tab, form)
    <3>1. CASE r \in screen.writes
      BY <1>1, <2>2, <3>1, ReloadKeeps, ParamsKept DEF record
    <3>2. CASE r \notin screen.writes
      BY <1>1, <2>2, <3>2, StillKeeps, ParamsKept DEF record, keepsPage
    <3> QED
      BY <3>1, <3>2
  <2>4. runs[r].chain = "ours" => r \in landed
    BY <2>2, ParamsKept DEF RunInv
  <2> QED
    BY <2>1, <2>2, <2>3, <2>4, WriteStep, ParamsKept DEF Pcs
<1>2. CASE grantRefused(r)
  <2>1. PICK f : f = IF form.run = r THEN [form EXCEPT !.warned = TRUE] ELSE form
    OBVIOUS
  <2>2. /\ f \in FormState /\ f.run = form.run /\ f.kind = form.kind /\ f.stage = form.stage
        /\ form.run # r => f = form
        /\ form.run = r => f.warned
        /\ form.warned => f.warned
    BY <2>1, ParamsKept DEF FormState
  <2>3. /\ UNCHANGED <<landed, wallet, channel, closed, me, cookie, moves, asks>>
        /\ runs[r].pc = "grant" /\ advance(r, "sync") /\ render(tab, screen, loads, f)
    BY <1>2, <2>1 DEF grantRefused, showsForm
  <2>4. PageKept(tab, f)
    BY <2>2, <2>3, ShowsKeeps, ParamsKept
  <2>5. /\ runs[r].chain = "ours" => r \in landed
        /\ runs[r].kind = "register"
    BY <2>3, ParamsKept DEF RunInv
  <2>6. runs[r].kind \notin ReadsEvent
    BY <2>5 DEF ReadsEvent
  <2> QED
    BY <2>2, <2>3, <2>4, <2>5, <2>6, WriteStep, ParamsKept DEF Pcs
<1>3. CASE sync(r)
  <2>1. /\ UNCHANGED <<landed, wallet, channel, closed, me, cookie, moves>>
        /\ runs[r].pc = "sync" /\ advance(r, "refresh") /\ keepsPage
        /\ asks' = asks \cup {[from |-> r, found |-> found]}
    BY <1>3 DEF sync
  <2>2. PageKept(tab, form)
    BY <2>1, StillKeeps, ParamsKept DEF keepsPage
  <2>3. asks' \subseteq Asks
    BY <2>1, AskedIsTyped, ParamsKept
  <2>4. /\ runs[r].chain = "ours" => r \in landed
        /\ runs[r].kind \in ReadsEvent => runs[r].chain = "ours"
    BY <2>1, ParamsKept DEF RunInv
  <2> QED
    BY <2>1, <2>2, <2>3, <2>4, WriteStep, ParamsKept DEF Pcs
<1> QED
  BY <1>1, <1>2, <1>3

(* The answer to a call of getMe, which may be the end of a write.         *)
LEMMA AnswerStep ==
  ASSUME ConsoleInv, NEW q \in asks, NEW ok \in BOOLEAN, answer(q, ok)
  PROVE  ConsoleInv'
<1>1. /\ UNCHANGED <<landed, wallet, channel, me, cookie, closed, moves>>
      /\ asks' \subseteq Asks /\ q.found \in SessionState /\ found \in SessionState
  BY ParamsKept, AskedIsTyped DEF answer, Asks
<1>2. PICK s, done : /\ s \in SessionState /\ done = (q.from \in Run /\ runs[q.from].pc = "refresh")
                     /\ runs' = IF done THEN [runs EXCEPT ![q.from].pc = "over"] ELSE runs
                     /\ render(afterAnswer(q, s, ok), screen, loads,
                               IF done THEN told(q.from, "done") ELSE form)
  BY <1>1 DEF answer
<1>3. PICK t : t = afterAnswer(q, s, ok)
  OBVIOUS
<1>4. /\ t \in TabState /\ t.active = tab.active /\ t.chainId = tab.chainId
      /\ t.listens = tab.listens /\ t.missed = tab.missed
  <2>1. PICK session, signing, m :
           /\ m = [tab EXCEPT !.session = session] /\ t = [m EXCEPT !.signIn = signing]
           /\ session \in {s, tab.session, None} /\ signing \in {"idle", tab.signIn}
    <3>1. PICK session, signing :
             /\ session = IF ok THEN s ELSE IF q.from \in {"boot", "signIn"} THEN tab.session ELSE None
             /\ signing = IF q.from = "signIn" THEN "idle" ELSE tab.signIn
      OBVIOUS
    <3>2. t = [tab EXCEPT !.session = session, !.signIn = signing]
      BY <1>3, <3>1, ParamsKept DEF afterAnswer, TabState
    <3>3. PICK m : m = [tab EXCEPT !.session = session]
      OBVIOUS
    <3>4. t = [m EXCEPT !.signIn = signing]
      BY <3>2, <3>3
    <3> QED
      BY <3>1, <3>3, <3>4
  <2>2. session \in SessionState /\ signing \in {"idle", "connect", "verify", "me"}
    BY <1>2, <2>1, ParamsKept DEF TabState, SessionState
  <2>3. /\ m \in TabState /\ m.active = tab.active /\ m.chainId = tab.chainId
        /\ m.listens = tab.listens /\ m.missed = tab.missed
    BY <2>1, <2>2, ParamsKept DEF TabState
  <2> QED
    BY <2>1, <2>2, <2>3 DEF TabState
<1>5. CASE ~done
  <2>1. render(t, screen, loads, form) /\ runs' = runs
    BY <1>2, <1>3, <1>5
  <2>2. PageKept(t, form)
    BY <1>1, <1>4, <2>1, ShowsKeeps, ParamsKept
  <2> QED
    BY <1>1, <1>4, <2>1, <2>2, PageStep, ParamsKept
<1>6. CASE done
  <2>1. PICK r : r = q.from /\ r \in Run /\ runs[r].pc = "refresh" /\ advance(r, "over")
    BY <1>2, <1>6 DEF advance
  <2>2. PICK f : f = told(r, "done")
    OBVIOUS
  <2>3. /\ f \in FormState /\ f.run = form.run /\ f.kind = form.kind /\ f.warned = form.warned
        /\ form.run # r => f = form
    BY <2>1, <2>2, Told, ParamsKept
  <2>4. PageKept(t, f)
    <3>1. render(t, screen, loads, f)
      BY <1>2, <1>3, <1>6, <2>1, <2>2
    <3> QED
      BY <1>1, <1>4, <2>3, <3>1, ShowsKeeps, ParamsKept
  <2> QED
    BY <1>1, <1>4, <2>1, <2>3, <2>4, WriteStep DEF Pcs
<1> QED
  BY <1>2, <1>5, <1>6

(* A form starts a write, on a chain the page knows or not.                *)
LEMMA SubmitStep ==
  ASSUME ConsoleInv, NEW r \in Run, submit(r)
  PROVE  ConsoleInv'
<1>1. /\ UNCHANGED <<landed, wallet, channel, me, cookie, asks, closed, moves>>
      /\ form.kind # None /\ runs[r].pc = "unused"
      /\ form.stage \in {"idle", "error"} \/ (form.kind = "card" /\ form.stage = "done")
      /\ r \notin {None, "ours", "other", "unknown"} /\ None \notin {"ours", "other"}
      /\ None \notin Form
  BY ConsoleAssumption DEF submit
<1>2. PICK kind, pc, stage, known :
         /\ kind = form.kind /\ known = (tab.chainId # None) /\ known \in BOOLEAN
         /\ pc = IF ~tab.active THEN "over"
                 ELSE IF kind = "register" THEN "preflight" ELSE started(kind)
         /\ stage = IF kind = "register" THEN form.stage ELSE IF tab.active THEN "busy" ELSE "error"
  OBVIOUS
<1>3. kind \in Form /\ pc \in {"over", "preflight", "prepare", "sign"}
      /\ stage \in {"idle", "busy", "error"}
  BY <1>1, <1>2, ParamsKept DEF FormState, started
<1>4. PICK q, no :
        /\ no = FALSE
        /\ q = [kind |-> kind, pc |-> pc, chain |-> None, known |-> known, granted |-> no]
  OBVIOUS
<1>5. q \in RunState /\ q.kind = kind /\ q.pc = pc /\ q.chain = None /\ q.known = known
  BY <1>2, <1>3, <1>4 DEF RunState
<1>6. PICK f : f = [kind |-> kind, run |-> r, stage |-> stage, warned |-> no]
  OBVIOUS
<1>7. f \in FormState /\ f.kind = kind /\ f.run = r /\ f.stage = stage /\ f.warned = FALSE
  BY <1>3, <1>4, <1>6 DEF FormState
<1>8. [Unused EXCEPT !.kind = kind, !.pc = pc, !.known = known] = q
  <2>1. PICK unused, u0, u1, u2 :
           /\ unused = "unused"
           /\ u0 = [kind |-> None, pc |-> unused, chain |-> None, known |-> no, granted |-> no]
           /\ u1 = [kind |-> kind, pc |-> unused, chain |-> None, known |-> no, granted |-> no]
           /\ u2 = [kind |-> kind, pc |-> pc, chain |-> None, known |-> no, granted |-> no]
    OBVIOUS
  <2>2. Unused = u0
    BY <1>4, <2>1 DEF Unused
  <2>3. [u0 EXCEPT !.kind = kind, !.pc = pc, !.known = known]
          = [[[u0 EXCEPT !.kind = kind] EXCEPT !.pc = pc] EXCEPT !.known = known]
    OBVIOUS
  <2>4. [u0 EXCEPT !.kind = kind] = u1
    BY <2>1
  <2>5. [u1 EXCEPT !.pc = pc] = u2
    BY <2>1
  <2>6. [u2 EXCEPT !.known = known]
          = [kind |-> kind, pc |-> pc, chain |-> None, known |-> known, granted |-> no]
    BY <2>1
  <2> QED
    BY <1>4, <2>2, <2>3, <2>4, <2>5, <2>6
<1>9. runs' = [runs EXCEPT ![r] = q]
  BY <1>2, <1>8 DEF submit
<1>10. [form EXCEPT !.run = r, !.stage = stage, !.warned = FALSE] = f
  <2>1. PICK warned, g, g1, g2 :
           /\ warned = form.warned
           /\ g = [kind |-> kind, run |-> form.run, stage |-> form.stage, warned |-> warned]
           /\ g1 = [kind |-> kind, run |-> r, stage |-> form.stage, warned |-> warned]
           /\ g2 = [kind |-> kind, run |-> r, stage |-> stage, warned |-> warned]
    OBVIOUS
  <2>2. form = g
    BY <1>2, <2>1, ParamsKept DEF FormState
  <2>3. [g EXCEPT !.run = r, !.stage = stage, !.warned = no]
          = [[[g EXCEPT !.run = r] EXCEPT !.stage = stage] EXCEPT !.warned = no]
    OBVIOUS
  <2>4. [g EXCEPT !.run = r] = g1
    BY <2>1
  <2>5. [g1 EXCEPT !.stage = stage] = g2
    BY <2>1
  <2>6. [g2 EXCEPT !.warned = no] = [kind |-> kind, run |-> r, stage |-> stage, warned |-> no]
    BY <2>1
  <2> QED
    BY <1>4, <1>6, <2>2, <2>3, <2>4, <2>5, <2>6
<1>11. PageKept(tab, f)
  <2>0. screen.writes \in SUBSET Run
    BY ParamsKept DEF ScreenState
  <2>1. PICK W : W = screen.writes \cup {r} /\ W \in SUBSET Run
    BY <2>0
  <2>2. render(tab, IF kind = "card" THEN [screen EXCEPT !.writes = W] ELSE screen, loads, f)
    BY <1>2, <1>10, <2>1 DEF submit
  <2>3. CASE kind = "card"
    BY <1>1, <1>7, <2>1, <2>2, <2>3, WritesKeeps, ParamsKept
  <2>4. CASE kind # "card"
    BY <1>1, <1>7, <2>2, <2>4, ShowsKeeps, ParamsKept
  <2> QED
    BY <2>3, <2>4
<1>12. /\ runs' \in [Run -> RunState] /\ runs'[r] = q /\ \A p \in Run \ {r} : runs'[p] = runs[p]
  BY <1>5, <1>9, RunFields, ParamsKept
<1>13. tab' = tab
  BY <1>11 DEF PageKept
<1>14. ChainInv'
  BY <1>1, <1>13, ParamsKept DEF ChainInv
<1>15. RunInv'
  <2>1. \A i \in DOMAIN channel : channel[i] # r
    BY <1>1, ParamsKept DEF RunInv
  <2>2. /\ \A i, j \in DOMAIN channel : channel[i] = channel[j] /\ channel[i] \in Run => i = j
        /\ \A i \in DOMAIN channel : channel[i] \in Run =>
             runs'[channel[i]].pc \in {"sent", "granting", "over"}
    BY <1>12, <2>1, ParamsKept DEF RunInv
  <2>3. ASSUME NEW p \in Run
        PROVE  /\ runs'[p].pc \in {"unused", "preflight", "prepare", "sign"} => runs'[p].chain = None
               /\ p \in landed => runs'[p].chain = "ours"
               /\ runs'[p].pc \in {"record", "grant", "granting", "sync", "refresh"}
                    /\ runs'[p].chain = "ours" => p \in landed
               /\ runs'[p].pc \in {"sync", "refresh"} /\ runs'[p].kind \in ReadsEvent
                    => runs'[p].chain = "ours"
               /\ runs'[p].pc \in {"grant", "granting"} => runs'[p].kind = "register"
               /\ p \in closed => runs'[p].pc = "over" /\ (runs'[p].chain = "ours" => p \in landed)
    <3>1. CASE p # r
      BY <1>12, <3>1, ParamsKept DEF RunInv
    <3>2. CASE p = r
      BY <1>1, <1>3, <1>5, <1>12, <3>2, ParamsKept DEF RunInv
    <3> QED
      BY <3>1, <3>2
  <2> QED
    BY <1>1, <2>2, <2>3 DEF RunInv
<1>16. WatchOK(f, q)'
  <2> SUFFICES ASSUME known, kind \notin ReadsEvent, ~tab.missed
               PROVE  tab.active /\ (wallet = "ours" \/ \E j \in DOMAIN channel : channel[j] = "other")
    BY <1>1, <1>3, <1>5, <1>7, <1>13 DEF WatchOK
  <2>1. tab.active
    BY <1>2, ParamsKept DEF ChainInv
  <2>2. tab.chainId # "other"
    <3>1. mounted(kind, tab, screen) /\ Placed(tab, screen)
      BY <1>1, <1>2, ParamsKept DEF FormInv, ListInv
    <3>2. wrongChain(tab) => kind = "mint"
      BY <1>3, <3>1, WrongChainForms
    <3> QED
      BY <3>2 DEF wrongChain, ReadsEvent
  <2>3. tab.chainId = "ours"
    BY <1>2, <2>2, ParamsKept DEF TabState
  <2> QED
    BY <2>1, <2>3, ParamsKept DEF ChainInv
<1>17. DoneOK(f, q)'
  BY <1>3, <1>7 DEF DoneOK
<1>18. FormInv' /\ WriteInv'
  <2>1. /\ (f.kind = None => f.run = None) /\ (f.run = None => f.stage = "idle")
        /\ q = runs'[f.run] /\ q.kind = f.kind /\ q.pc # "unused"
    BY <1>1, <1>3, <1>5, <1>7, <1>12
  <2> QED
    BY <1>7, <1>11, <1>16, <1>17, <2>1, FormKeeps
<1>19. ConsoleTypeOK'
  BY <1>1, <1>11, <1>12, ParamsKept DEF ConsoleTypeOK, PageKept
<1> QED
  BY <1>11, <1>14, <1>15, <1>18, <1>19 DEF ConsoleInv, PageKept

-----------------------------------------------------------------------------
LEMMA ConsoleStarts == ConsoleInit => ConsoleInv /\ WalletChosen
<1> SUFFICES ASSUME ConsoleInit PROVE ConsoleInv /\ WalletChosen
  OBVIOUS
<1>1. /\ landed = {} /\ closed = {} /\ channel = <<>> /\ moves = 0 /\ wallet = "ours"
      /\ me \in Org \cup {NoOrg} /\ cookie = TRUE /\ asks = {[from |-> "boot", found |-> me]}
      /\ tab = Booting /\ screen = NoScreen /\ form = NoForm
  BY DEF ConsoleInit
<1>2. /\ loads \in [Load -> LoadState] /\ \A l \in Load : loads[l].live = FALSE
      /\ NoLoad.live = FALSE
  BY DEF ConsoleInit, NoLoad, LoadState, SessionState
<1>3. /\ runs \in [Run -> RunState]
      /\ \A r \in Run : runs[r].pc = "unused" /\ runs[r].chain = None
  <2>1. Unused \in RunState /\ Unused.pc = "unused" /\ Unused.chain = None
    BY DEF Unused, RunState
  <2> QED
    BY <2>1 DEF ConsoleInit
<1>4. /\ tab \in TabState /\ tab.active = FALSE /\ tab.listens = FALSE /\ tab.chainId = None
      /\ tab.session = None /\ tab.signIn = "idle"
  BY <1>1 DEF Booting, TabState, SessionState
<1>5. /\ screen \in ScreenState /\ screen.on = FALSE /\ screen.settled = None /\ screen.since = {}
  BY <1>1 DEF NoScreen, ScreenState, SessionState
<1>6. /\ form \in FormState /\ form.kind = None /\ form.run = None /\ form.stage = "idle"
  BY <1>1 DEF NoForm, FormState
<1>7. asks \subseteq Asks
  BY <1>1 DEF Asks, SessionState
<1>8. ConsoleTypeOK
  BY <1>1, <1>2, <1>3, <1>4, <1>5, <1>6, <1>7, ConsoleAssumption DEF ConsoleTypeOK, Asks
<1>9. ListInv
  BY <1>1, <1>2, <1>4, <1>5 DEF ListInv, Placed, Showing, Listing
<1>10. FormInv /\ WriteInv
  BY <1>6 DEF FormInv, WriteInv
<1>11. ChainInv
  BY <1>1, <1>4, ConsoleAssumption DEF ChainInv
<1>12. RunInv
  BY <1>1, <1>3 DEF RunInv
<1> QED
  BY <1>4, <1>8, <1>9, <1>10, <1>11, <1>12 DEF ConsoleInv, WalletChosen

LEMMA ConsoleStep ==
  ConsoleInv /\ WalletChosen /\ [ConsoleNext]_consoleVars => ConsoleInv' /\ WalletChosen'
<1> SUFFICES ASSUME ConsoleInv, WalletChosen, [ConsoleNext]_consoleVars
             PROVE  ConsoleInv' /\ WalletChosen'
  OBVIOUS
<1>1. CASE UNCHANGED consoleVars
  <2>1. UNCHANGED <<landed, wallet, channel, runs, tab, screen, loads, form, closed>>
        /\ UNCHANGED <<me, cookie, asks, moves>>
    BY <1>1 DEF consoleVars
  <2>2. PageKept(tab, form)
    BY <2>1, StillKeeps, ParamsKept
  <2> QED
    BY <2>1, <2>2, PageStep, ParamsKept DEF WalletChosen
<1>2. CASE ConsoleNext
  <2>1. WalletChosen'
    BY <1>2, WalletChosenStep, ParamsKept
  <2> SUFFICES ConsoleInv'
    BY <2>1
  <2>2. ASSUME NEW r \in Run, runSteps(r) PROVE ConsoleInv'
    <3>1. CASE submit(r)
      BY <3>1, SubmitStep
    <3>2. CASE approve(r) \/ grant(r)
      BY <3>2, SendKeeps DEF ConsoleInv
    <3>3. CASE lands(r)
      BY <3>3, LandsKeeps DEF ConsoleInv
    <3>4. CASE prepare(r) \/ dismiss(r) \/ mined(r) \/ writeFails(r)
               \/ \E ok \in BOOLEAN : preflight(r, ok)
      BY <3>4, PrepareStep
    <3>5. CASE record(r) \/ grantRefused(r) \/ sync(r)
      BY <3>5, RecordStep
    <3> QED
      BY <2>2, <3>1, <3>2, <3>3, <3>4, <3>5 DEF runSteps
  <2>3. CASE \E l \in Load : serverReads(l) \/ \E ok \in BOOLEAN : deliver(l, ok)
    BY <2>3, LoadStep
  <2>4. CASE (\E kind \in Kinds : open(kind)) \/ close \/ leave
    BY <2>4, FormStep
  <2>5. CASE \E q \in asks, ok \in BOOLEAN : answer(q, ok)
    BY <2>5, AnswerStep
  <2>6. CASE \/ reconnect \/ listen \/ signIn \/ readChain \/ verified \/ signInFails \/ retry
             \/ accountsChanged \/ reread \/ signOut \/ elsewhere
             \/ \E page \in {"screen", "mint", "onboarding"} : navigate(page)
    BY <2>6, TabStep
  <2>7. CASE hear
    BY <2>7, HearChainKeeps, HearWriteKeeps DEF ConsoleInv
  <2>8. CASE fixChain \/ switchChain
    BY <2>8, WalletStep
  <2>9. CASE reloadPage
    BY <2>9, ReloadStep
  <2> QED
    BY <1>2, <2>2, <2>3, <2>4, <2>5, <2>6, <2>7, <2>8, <2>9 DEF ConsoleNext
<1> QED
  BY <1>1, <1>2

(* The inductive invariant holds: the requests, the forms, the messages    *)
(* and the writes of one tab stay in step, whatever arrives in what order. *)
THEOREM ConsoleStaysInStep == ConsoleSpec => []ConsoleInv
<1>1. ConsoleInit => ConsoleInv /\ WalletChosen
  BY ConsoleStarts
<1>2. ConsoleInv /\ WalletChosen /\ [ConsoleNext]_consoleVars => ConsoleInv' /\ WalletChosen'
  BY ConsoleStep
<1> QED
  BY <1>1, <1>2, PTL DEF ConsoleSpec

(* Every variable of the tab keeps its shape, for any number of writes,    *)
(* requests and organizations.                                             *)
THEOREM ConsoleTypeCorrect == ConsoleSpec => []ConsoleTypeOK
<1>1. ConsoleInv => ConsoleTypeOK
  BY DEF ConsoleInv
<1> QED
  BY <1>1, ConsoleStaysInStep, PTL

(* A list that is shown as loaded is the current organization's, was read  *)
(* after it was last asked for, and has every write in it whose dialog     *)
(* said done (use-resource.ts).                                            *)
THEOREM ShownListIsCurrent == ConsoleSpec => []ListIsCurrent
<1>1. ConsoleInv => ListIsCurrent
  <2> SUFFICES ASSUME ConsoleInv, status(screen) = "ready"
               PROVE  /\ screen.settled.org = tab.session
                      /\ screen.since \subseteq screen.settled.seen
                      /\ closed \cap landed \subseteq screen.settled.seen
    BY DEF ListIsCurrent
  <2>1. screen.on /\ fresh(screen) /\ screen.settled.ok
    BY DEF status
  <2>2. Listing(screen, loads, landed) /\ Placed(tab, screen)
        /\ (Showing(tab) => closed \cap landed \subseteq screen.since)
    BY ParamsKept DEF ListInv
  <2>3. Showing(tab) /\ screen.org = tab.session
    <3>1. NoScreen.on = FALSE
      BY DEF NoScreen
    <3> QED
      BY <2>1, <2>2, <3>1 DEF Placed
  <2>4. screen.settled.org = screen.org /\ screen.since \subseteq screen.settled.seen
    BY <2>1, <2>2 DEF Listing, fresh
  <2> QED
    BY <2>2, <2>3, <2>4
<1> QED
  BY <1>1, ConsoleStaysInStep, PTL

(* A screen that says it is loading has a request in flight whose answer   *)
(* it will take, however answers overtake each other (use-resource.ts).    *)
THEOREM LoadingIsNeverStuck == ConsoleSpec => []LoadingIsAsking
<1>1. ConsoleInv => LoadingIsAsking
  <2> SUFFICES ASSUME ConsoleInv, status(screen) = "loading"
               PROVE  \E l \in Load : /\ loads[l].live /\ loads[l].loader = screen.loader
                                      /\ loads[l].nonce = screen.nonce
    BY DEF LoadingIsAsking
  <2>1. screen.on /\ ~fresh(screen)
    BY DEF status
  <2> QED
    BY <2>1 DEF ConsoleInv, ListInv, Listing
<1> QED
  BY <1>1, ConsoleStaysInStep, PTL

(* What a form says is done has landed on owneX's chain, roles and all,    *)
(* if its page knew the chain and was not told of another one before it    *)
(* listened: whatever the wallet switched to in between                    *)
(* (use-transaction.ts, wallet-provider.tsx).                              *)
THEOREM DoneFormsHaveLanded == ConsoleSpec => []DoneMeansLanded
<1>1. ConsoleInv => DoneMeansLanded
  <2> SUFFICES ASSUME ConsoleInv, TransactionRail(form) = "Done", runs[form.run].known, ~tab.missed
               PROVE  /\ form.run \in landed
                      /\ RegistrationSummary(form).shown /\ ~RegistrationSummary(form).alert
                           => runs[form.run].granted
    BY DEF DoneMeansLanded
  <2>1. form.stage = "done"
    BY ParamsKept DEF TransactionRail, FormState
  <2>2. form.run # None
    BY <2>1, ParamsKept DEF FormInv
  <2>3. /\ form.run \in landed
        /\ form.kind = "register" /\ ~form.warned => runs[form.run].granted
    BY <2>1, <2>2, ParamsKept DEF WriteInv, DoneOK
  <2> QED
    BY <2>3 DEF RegistrationSummary
<1> QED
  BY <1>1, ConsoleStaysInStep, PTL
=============================================================================
