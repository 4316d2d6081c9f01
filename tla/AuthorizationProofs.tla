-------------------------- MODULE AuthorizationProofs --------------------------
(***************************************************************************)
(* Theorems about sign in with owneX: what the callback allowlist decides, *)
(* for every URL, every registered set and both modes; and what            *)
(* Authorization promises, for any number of applications, wallets and     *)
(* requests.                                                               *)
(***************************************************************************)
EXTENDS Authorization, TLAPS

-----------------------------------------------------------------------------
(* The callback allowlist.                                                 *)

(* What an accepting check says of the URL and of its answer.              *)
LEMMA CheckOk ==
  ASSUME NEW status, NEW callbacks, NEW u, NEW mode,
         checkCallback(status, callbacks, u, mode).reason = "ok",
         isUri(u)
  PROVE  /\ status # "revoked"
         /\ u.text = "web" /\ ~u.long
         /\ checkTransport(u, mode) = "ok"
         /\ checkCallback(status, callbacks, u, mode).registered \in matching(callbacks, u)
  <1> DEFINE check == checkCallback(status, callbacks, u, mode)
  <1>1. status # "revoked"
    BY DEF checkCallback, rejected
  <1>2. checkUri(u) = "ok"
    BY <1>1 DEF checkCallback, rejected
  <1>3. checkTransport(u, mode) = "ok"
    BY <1>1, <1>2 DEF checkCallback, rejected
  <1>4. check = IF callbacks = {} THEN rejected("NO_CALLBACK_REGISTERED")
                ELSE IF matching(callbacks, u) = {} THEN rejected("CALLBACK_NOT_REGISTERED")
                ELSE [reason |-> "ok", registered |-> CHOOSE e \in matching(callbacks, u) : TRUE]
    BY <1>1, <1>2, <1>3 DEF checkCallback
  <1>5. check.registered \in matching(callbacks, u)
    BY <1>4 DEF rejected
  <1>6. u.text = "web" /\ ~u.long
    BY <1>2 DEF checkUri, schemeRejection, isUri
  <1> QED
    BY <1>1, <1>3, <1>5, <1>6

(* "An admin cannot register a callback that would later be refused": what *)
(* registration accepts, the authorization endpoint accepts in the same    *)
(* mode, whatever else is registered, as long as it is registered and the  *)
(* application is not revoked.                                             *)
THEOREM RegistrableIsAccepted ==
  ASSUME NEW status, status # "revoked", NEW callbacks, NEW u \in callbacks, NEW mode \in Mode,
         isUri(u), validateRegistrableCallback(u, mode) = "ok"
  PROVE  checkCallback(status, callbacks, u, mode).reason = "ok"
  <1>1. checkUri(u) = "ok"
    BY DEF validateRegistrableCallback
  <1>2. checkTransport(u, mode) = "ok"
    <2>1. "text" \notin {u.query, u.fragment}
      BY <1>1 DEF validateRegistrableCallback
    <2> QED
      BY <1>1, <2>1 DEF validateRegistrableCallback
  <1>3. u.text = "web"
    BY <1>1 DEF checkUri, schemeRejection, isUri
  <1>4. u \in matching(callbacks, u)
    BY <1>3 DEF matching
  <1> QED
    BY <1>1, <1>2, <1>4 DEF checkCallback

(* "The same transport rules the server applies": the form and the script  *)
(* apply them as far as they know them. What they accept the server would  *)
(* register, unless it is too long or, in production, on the user's own    *)
(* machine; and they refuse nothing that it would register, but plain http *)
(* to a loopback host they have not heard of.                              *)
THEOREM FormAgreesWithServer ==
  ASSUME NEW u, NEW mode \in Mode, isUri(u)
  PROVE  /\ /\ describeCallback(u) = "ok"
            /\ ~u.long
            /\ mode = "production" => ~isLoopbackHost(u.host)
            => validateRegistrableCallback(u, mode) = "ok"
         /\ /\ validateRegistrableCallback(u, mode) = "ok"
            /\ u.scheme # "https" => u.host \in FormHost
            => describeCallback(u) = "ok"
  <1>1. ASSUME describeCallback(u) = "ok", ~u.long,
               mode = "production" => ~isLoopbackHost(u.host)
        PROVE  validateRegistrableCallback(u, mode) = "ok"
    <2>1. u.text = "web" /\ "text" \notin {u.query, u.fragment}
      BY <1>1 DEF describeCallback, isUri
    <2>2. u.host \in FormHost \/ u.scheme = "https"
      BY <1>1, <2>1 DEF describeCallback
    <2>3. checkUri(u) = "ok"
      BY <1>1, <2>1 DEF checkUri
    <2>4. checkTransport(u, mode) = "ok"
      BY <1>1, <2>2, HostAssumption DEF checkTransport, isLoopbackHost
    <2> QED
      BY <2>1, <2>3, <2>4 DEF validateRegistrableCallback
  <1>2. ASSUME validateRegistrableCallback(u, mode) = "ok",
               u.scheme # "https" => u.host \in FormHost
        PROVE  describeCallback(u) = "ok"
    <2>1. checkUri(u) = "ok"
      BY <1>2 DEF validateRegistrableCallback
    <2>2. "text" \notin {u.query, u.fragment}
      BY <1>2, <2>1 DEF validateRegistrableCallback
    <2>3. u.text = "web"
      BY <2>1 DEF checkUri, schemeRejection, isUri
    <2> QED
      BY <1>2, <2>2, <2>3 DEF describeCallback
  <1> QED
    BY <1>1, <1>2

(* So a list that the form sends, or the script writes, is one the server  *)
(* refuses none of, with those two exceptions.                             *)
THEOREM FormListIsRegistrable ==
  ASSUME NEW callbacks, NEW mode \in Mode,
         callbacksValid(callbacks) \/ provisionAccepts(callbacks),
         \A u \in callbacks : /\ isUri(u) /\ ~u.long
                              /\ mode = "production" => ~isLoopbackHost(u.host)
  PROVE  validateCallbackList(callbacks, mode) = {}
  <1>1. ASSUME NEW u \in callbacks
        PROVE  validateRegistrableCallback(u, mode) = "ok"
    <2>1. describeCallback(u) = "ok"
      BY DEF callbacksValid, provisionAccepts
    <2> QED
      BY <2>1, FormAgreesWithServer
  <1> QED
    BY <1>1 DEF validateCallbackList

(* "The redirect target is always the REGISTERED callback": what an        *)
(* accepted request redirects to is a registered URL up to the query and   *)
(* fragment, none of which it inherits from either, and names the same     *)
(* host, port, scheme and path as the request.                             *)
THEOREM RedirectIsRegistered ==
  ASSUME NEW status, NEW callbacks, NEW u, NEW mode, NEW params,
         isUri(u), \A e \in callbacks : isUri(e),
         checkCallback(status, callbacks, u, mode).reason = "ok"
  PROVE  LET registered == checkCallback(status, callbacks, u, mode).registered
             target == buildCallbackRedirect(registered, params).target
         IN /\ registered \in callbacks
            /\ canonicalizeCallback(target) = canonicalizeCallback(u)
            /\ target.query = "none" /\ target.fragment = "none"
  <1>1. PICK registered : registered = checkCallback(status, callbacks, u, mode).registered
    OBVIOUS
  <1>2. registered \in matching(callbacks, u)
    BY <1>1, CheckOk
  <1>3. registered \in callbacks /\ canonicalizeCallback(registered) = canonicalizeCallback(u)
    BY <1>2 DEF matching
  <1>4. PICK target : target = [registered EXCEPT !.query = "none", !.fragment = "none"]
    OBVIOUS
  <1>5. DOMAIN registered = {"text", "long", "scheme", "host", "port", "path", "slashes", "query",
                             "fragment", "spelling"}
    BY <1>3 DEF isUri
  <1>6. /\ target.scheme = registered.scheme /\ target.host = registered.host
        /\ target.port = registered.port /\ target.path = registered.path
        /\ target.query = "none" /\ target.fragment = "none"
    BY <1>4, <1>5
  <1>7. canonicalizeCallback(target) = canonicalizeCallback(registered)
    BY <1>6 DEF canonicalizeCallback
  <1> QED
    BY <1>1, <1>3, <1>4, <1>6, <1>7 DEF buildCallbackRedirect

(* "Anything remotely reachable must be TLS": a code travels over https,   *)
(* or stays on the machine during development.                             *)
THEOREM CodesTravelSafely ==
  ASSUME NEW status, NEW callbacks, NEW u, NEW mode \in Mode, isUri(u),
         checkCallback(status, callbacks, u, mode).reason = "ok"
  PROVE  LET registered == checkCallback(status, callbacks, u, mode).registered IN
         \/ registered.scheme = "https" /\ ~isLoopbackHost(registered.host)
         \/ mode = "development" /\ isLoopbackHost(registered.host)
  <1>1. PICK registered : registered = checkCallback(status, callbacks, u, mode).registered
    OBVIOUS
  <1>2. registered \in matching(callbacks, u) /\ checkTransport(u, mode) = "ok"
    BY <1>1, CheckOk
  <1>3. registered.scheme = u.scheme /\ registered.host = u.host
    BY <1>2 DEF matching, canonicalizeCallback
  <1>4. \/ u.scheme = "https" /\ ~isLoopbackHost(u.host)
        \/ mode = "development" /\ isLoopbackHost(u.host)
    <2>1. CASE isLoopbackHost(u.host)
      BY <1>2, <2>1 DEF checkTransport, Mode
    <2>2. CASE ~isLoopbackHost(u.host)
      BY <1>2, <2>2 DEF checkTransport
    <2> QED
      BY <2>1, <2>2
  <1> QED
    BY <1>1, <1>3, <1>4

(* A code is bound to the registered spelling, and the exchange compares   *)
(* with what it resolves its own redirect_uri to: two spellings of one     *)
(* callback resolve to the same registered URL while the set stands.       *)
THEOREM SpellingsResolveAlike ==
  ASSUME NEW status, NEW callbacks, NEW u, NEW v, NEW mode, isUri(u), isUri(v),
         canonicalizeCallback(u) = canonicalizeCallback(v),
         checkCallback(status, callbacks, u, mode).reason = "ok",
         checkCallback(status, callbacks, v, mode).reason = "ok"
  PROVE  checkCallback(status, callbacks, u, mode).registered
           = checkCallback(status, callbacks, v, mode).registered
  <1>1. matching(callbacks, u) = matching(callbacks, v)
    BY DEF matching
  <1>2. ASSUME NEW x, isUri(x), checkCallback(status, callbacks, x, mode).reason = "ok"
        PROVE  checkCallback(status, callbacks, x, mode).registered
                 = CHOOSE e \in matching(callbacks, x) : TRUE
    <2>1. status # "revoked" /\ x.text = "web" /\ ~x.long /\ checkTransport(x, mode) = "ok"
          /\ matching(callbacks, x) # {}
      BY <1>2, CheckOk
    <2>2. checkUri(x) = "ok"
      BY <2>1 DEF checkUri
    <2>3. callbacks # {}
      BY <2>1 DEF matching
    <2> QED
      BY <2>1, <2>2, <2>3 DEF checkCallback
  <1> QED
    BY <1>1, <1>2

-----------------------------------------------------------------------------
(* The invariant.                                                          *)

(* A request.                                                              *)
RequestRow == [pc : Pc, kind : {"page", "approve", "exchange", "verify", None}, app : App \cup {None},
               secret : Nat, code : Request \cup {None}, redirect : Url \cup {None},
               wallet : Wallet \cup {None}, usedAt : Nat, seen : SUBSET Facts]

TablesOK ==
  /\ apps \in [App -> Application]
  /\ chain \in [App -> [Wallet -> BOOLEAN]]
  /\ codes \in [Request -> Grant]
  /\ requests \in [Request -> RequestRow]
  /\ clock \in Nat

(* Where a request has passed the checks on the row.                       *)
Admitted == {"callbacks", "slug", "consume", "evaluating", "issue", "done", "denied"}

(* What it takes to be where a request is: each check that lies behind it  *)
(* saw its fact at some instant, so the fact is among the seen ones.       *)
Earned(q, seen) ==
  /\ q.pc = "idle" => q.wallet = None
  /\ q.pc # "idle" => q.app \in App /\ q.kind \in {"page", "approve", "exchange", "verify"}
  /\ q.pc # "idle" /\ q.kind = "exchange" => q.code \in Request
  /\ q.pc # "idle" /\ q.kind = "verify" => q.wallet \in Wallet
  /\ q.pc \in {"row", "callbacks"} /\ q.kind # "verify" => q.redirect \in Url
  /\ q.pc \in {"row", "callbacks", "consume"} /\ q.kind = "exchange" => q.wallet = None
  /\ q.pc = "callbacks" => q.kind # "verify"
  /\ q.pc = "slug" => q.kind = "verify"
  /\ q.pc = "consume" => q.kind = "exchange"
  /\ q.pc = "issue" => q.kind = "approve"
  /\ q.pc = "denied" => ofBrowser(q)
  /\ q.pc \in {"evaluating", "issue", "done"} => q.wallet \in Wallet
  /\ q.pc \in Admitted => "active" \in seen /\ (ofBrowser(q) \/ "secret" \in seen)
  /\ q.pc \in Admitted \ {"callbacks", "slug"} /\ q.kind # "verify" =>
       "callback" \in seen /\ q.redirect \in Url
  /\ q.pc \in {"issue", "done"} => "granted" \in seen

RequestsEarned == \A r \in Request : Earned(requests[r], requests[r].seen)

(* A code was issued by an approval that is over and says the same.        *)
Consented(c) ==
  codes[c].row # "none" =>
    /\ requests[c].kind = "approve" /\ requests[c].pc \in {"done", "denied"}
    /\ codes[c].app = requests[c].app /\ codes[c].redirect = requests[c].redirect
    /\ codes[c].wallet = requests[c].wallet /\ codes[c].wallet \in Wallet
    /\ codes[c].app \in App /\ codes[c].redirect \in Url
    /\ {"active", "callback", "granted"} \subseteq requests[c].seen

Redeemed(q) == q.kind = "exchange" /\ q.wallet # None

(* The exchange whose update returned the row of a code, and what the row  *)
(* was compared with.                                                      *)
Used(q) ==
  Redeemed(q) =>
    /\ q.code \in Request
    /\ codes[q.code].row \in {"used", "purged"}
    /\ q.pc \in {"evaluating", "done"} =>
         /\ codes[q.code].app = q.app /\ codes[q.code].redirect = q.redirect
         /\ codes[q.code].wallet = q.wallet /\ codes[q.code].expiresAt > q.usedAt

SpentOnce ==
  \A r1, r2 \in Request :
    Redeemed(requests[r1]) /\ Redeemed(requests[r2]) /\ requests[r1].code = requests[r2].code
      => r1 = r2

Linked ==
  /\ \A c \in Request : Consented(c)
  /\ \A r \in Request : Used(requests[r])
  /\ SpentOnce

AuthInv == TablesOK /\ RequestsEarned /\ Linked

LEMMA AuthInitInv == AuthInit => AuthInv
<1> SUFFICES ASSUME AuthInit PROVE AuthInv
  OBVIOUS
<1>1. Idle \in RequestRow
  BY DEF Idle, RequestRow, Pc
<1>2. TablesOK
  BY <1>1, AuthorizationAssumption DEF AuthInit, TablesOK, Application, NoGrant, Grant
<1>3. \A r \in Request : requests[r].pc = "idle" /\ requests[r].wallet = None
  BY DEF AuthInit, Idle
<1>4. RequestsEarned
  BY <1>3 DEF RequestsEarned, Earned, Admitted
<1>5. Linked
  BY <1>3 DEF AuthInit, Linked, Consented, Used, SpentOnce, Redeemed, NoGrant
<1>6. QED
  BY <1>2, <1>4, <1>5 DEF AuthInv

-----------------------------------------------------------------------------
(* One request takes a step.                                               *)

(* What is remembered of a request.                                        *)
LEMMA ObservedRow ==
  ASSUME NEW q \in RequestRow, NEW as, NEW ch, NEW o, o = observed(q, as, ch)
  PROVE  /\ o \in RequestRow
         /\ o.pc = q.pc /\ o.kind = q.kind /\ o.app = q.app /\ o.code = q.code
         /\ o.wallet = q.wallet
         /\ q.pc \notin {"refused", "signIn"} =>
              o.redirect = q.redirect /\ o.usedAt = q.usedAt /\ o.seen = q.seen \cup holds(q, as, ch)
<1>1. holds(q, as, ch) \subseteq Facts
  BY DEF holds
<1>2. CASE q.pc \in {"refused", "signIn"}
  <2>1. o = [pc |-> q.pc, kind |-> q.kind, app |-> q.app, secret |-> 0, code |-> q.code,
             redirect |-> None, wallet |-> q.wallet, usedAt |-> 0, seen |-> {}]
    BY <1>2 DEF observed, Idle
  <2>2. /\ q.pc \in Pc /\ q.kind \in {"page", "approve", "exchange", "verify", None}
        /\ q.app \in App \cup {None} /\ q.code \in Request \cup {None}
        /\ q.wallet \in Wallet \cup {None}
    BY DEF RequestRow
  <2>3. o \in RequestRow
    BY <2>1, <2>2 DEF RequestRow
  <2>4. o.pc = q.pc /\ o.kind = q.kind /\ o.app = q.app /\ o.code = q.code /\ o.wallet = q.wallet
    BY <2>1
  <2>5. QED
    BY <1>2, <2>3, <2>4, Zenon
<1>3. CASE q.pc \notin {"refused", "signIn"}
  <2>1. o = [q EXCEPT !.seen = @ \cup holds(q, as, ch)]
    BY <1>3 DEF observed
  <2>2. QED
    BY <1>1, <1>3, <2>1 DEF RequestRow
<1>4. QED
  BY <1>2, <1>3

LEMMA ObservedEarned ==
  ASSUME NEW q \in RequestRow, NEW as, NEW ch, NEW o, o = observed(q, as, ch),
         Earned(q, q.seen \cup holds(q, as, ch))
  PROVE  Earned(o, o.seen)
<1>1. PICK seen : seen = holds(q, as, ch)
  OBVIOUS
<1>2. CASE q.pc \in {"refused", "signIn"}
  <2>1. o.pc = q.pc /\ o.kind = q.kind /\ o.app = q.app /\ o.code = q.code /\ o.wallet = q.wallet
    BY <1>2 DEF observed, Idle
  <2>2. QED
    BY <1>2, <2>1 DEF Earned, Admitted
<1>3. CASE q.pc \notin {"refused", "signIn"}
  <2>1. o = [q EXCEPT !.seen = @ \cup seen]
    BY <1>1, <1>3 DEF observed
  <2>2. o.seen = q.seen \cup seen /\ o = [q EXCEPT !.seen = o.seen]
    BY <2>1 DEF RequestRow
  <2>3. /\ o.pc = q.pc /\ o.kind = q.kind /\ o.app = q.app /\ o.code = q.code
        /\ o.wallet = q.wallet /\ o.redirect = q.redirect
    BY <2>2 DEF RequestRow
  <2>4. PICK s : s = o.seen /\ Earned(q, s)
    BY <1>1, <2>2
  <2>5. Earned(o, s)
    BY ONLY <2>3, <2>4 DEF Earned, ofBrowser
  <2>6. QED
    BY <2>4, <2>5
<1>4. QED
  BY <1>2, <1>3

LEMMA StepEarned ==
  ASSUME AuthInv, NEW r \in Request, NEW q \in RequestRow, step(r, q),
         Earned(q, q.seen \cup holds(q, apps, chain))
  PROVE  /\ requests' \in [Request -> RequestRow]
         /\ requests'[r] = observed(q, apps, chain)
         /\ \A x \in Request \ {r} : requests'[x] = requests[x]
         /\ RequestsEarned'
<1>1. PICK o : o = observed(q, apps, chain)
  OBVIOUS
<1>2. o \in RequestRow /\ Earned(o, o.seen)
  BY <1>1, ObservedRow, ObservedEarned
<1>3. requests' = [requests EXCEPT ![r] = o]
  BY <1>1 DEF step
<1>4. QED
  BY <1>1, <1>2, <1>3 DEF AuthInv, TablesOK, RequestsEarned

(* What OneTimeGrant sees of the codes, and a step it sees nothing of.     *)
gate(c) == CASE codes[c].row = "none"   -> "unissued"
             [] codes[c].row = "unused" -> "live"
             [] OTHER                   -> "over"

states == [c \in Request |-> gate(c)]
winners == [c \in Request |-> redeemers(c)]

GrantStep ==
  \/ \E c \in Request : states[c] = "unissued" /\ states' = [states EXCEPT ![c] = "live"]
                         /\ winners' = winners
  \/ \E c, r \in Request : states[c] = "live" /\ states' = [states EXCEPT ![c] = "over"]
                            /\ winners' = [winners EXCEPT ![c] = {r}]
  \/ \E cs \in SUBSET Request : /\ \A c \in cs : states[c] = "live"
                               /\ states' = [c \in Request |-> IF c \in cs THEN "over" ELSE states[c]]
                               /\ winners' = winners
  \/ states' = states /\ winners' = winners

LEMMA SameWinners ==
  ASSUME \A r \in Request :
           /\ Redeemed(requests'[r]) <=> Redeemed(requests[r])
           /\ Redeemed(requests[r]) => requests'[r].code = requests[r].code
  PROVE  winners' = winners
<1>1. \A c \in Request : redeemers(c)' = redeemers(c)
  BY DEF redeemers, Redeemed
<1>2. QED
  BY <1>1 DEF winners

LEMMA SameStates ==
  ASSUME \A c \in Request : codes'[c].row = codes[c].row
  PROVE  states' = states
<1>1. \A c \in Request : gate(c)' = gate(c)
  BY DEF gate
<1>2. QED
  BY <1>1 DEF states

(* A step of a request that is not over redeems nothing.                   *)
Quiet(r, q) ==
  /\ requests[r].pc \notin {"done", "denied"}
  /\ Redeemed(q) <=> Redeemed(requests[r])
  /\ Redeemed(q) => q.code = requests[r].code

LEMMA QuietWinners ==
  ASSUME AuthInv, NEW r \in Request, NEW q \in RequestRow, step(r, q), Quiet(r, q)
  PROVE  winners' = winners
<1>1. PICK o : o = observed(q, apps, chain)
  OBVIOUS
<1>2. o.kind = q.kind /\ o.code = q.code /\ o.wallet = q.wallet
  BY <1>1, ObservedRow
<1>3. requests' = [requests EXCEPT ![r] = o]
  BY <1>1 DEF step
<1>4. \A x \in Request :
        /\ Redeemed(requests'[x]) <=> Redeemed(requests[x])
        /\ Redeemed(requests[x]) => requests'[x].code = requests[x].code
  BY <1>2, <1>3 DEF AuthInv, TablesOK, Quiet, Redeemed
<1>5. QED
  BY <1>4, SameWinners

(* A step that leaves the codes alone and redeems none.                    *)
LEMMA StepInv ==
  ASSUME AuthInv, NEW r \in Request, NEW q \in RequestRow, step(r, q), UNCHANGED codes,
         Earned(q, q.seen \cup holds(q, apps, chain)), Used(q), Quiet(r, q)
  PROVE  AuthInv' /\ GrantStep
<1>1. /\ requests' \in [Request -> RequestRow] /\ RequestsEarned'
      /\ requests'[r] = observed(q, apps, chain)
      /\ \A x \in Request \ {r} : requests'[x] = requests[x]
  BY StepEarned
<1>2. TablesOK'
  BY <1>1 DEF AuthInv, TablesOK, step
<1>3. PICK o : o = observed(q, apps, chain)
  OBVIOUS
<1>4. /\ o.pc = q.pc /\ o.kind = q.kind /\ o.app = q.app /\ o.code = q.code /\ o.wallet = q.wallet
      /\ q.pc \in {"evaluating", "done"} => o.redirect = q.redirect /\ o.usedAt = q.usedAt
  BY <1>3, ObservedRow
<1>5. \A c \in Request : Consented(c)'
  BY <1>1 DEF AuthInv, Linked, Consented, Quiet
<1>6. \A x \in Request : Used(requests[x])'
  <2>1. Used(o)
    BY <1>4 DEF Used, Redeemed
  <2>2. QED
    BY <1>1, <1>3, <2>1 DEF AuthInv, Linked, Used, Redeemed
<1>7. SpentOnce'
  BY <1>1, <1>3, <1>4 DEF AuthInv, Linked, SpentOnce, Redeemed, Quiet
<1>8. GrantStep
  BY QuietWinners, SameStates DEF GrantStep
<1>9. QED
  BY <1>1, <1>2, <1>5, <1>6, <1>7, <1>8 DEF AuthInv, Linked

-----------------------------------------------------------------------------
(* The steps of a request.                                                 *)

LEMMA HoldsFacts ==
  ASSUME NEW q, NEW as, NEW ch
  PROVE  /\ "active" \in holds(q, as, ch) <=> as[q.app].status = "active"
         /\ "secret" \in holds(q, as, ch) <=> as[q.app].secret = q.secret
         /\ "callback" \in holds(q, as, ch) <=> q.redirect \in as[q.app].callbacks
         /\ holds(q, as, ch) \subseteq Facts
BY DEF holds, Facts

(* A request begins, before it has seen or redeemed anything.              *)
LEMMA BeginInv ==
  ASSUME AuthInv, NEW r \in Request, NEW q \in RequestRow, begin(r, q),
         q.pc = "row", q.app \in App, q.kind \in {"page", "approve", "exchange", "verify"},
         q.kind = "exchange" => q.code \in Request /\ q.wallet = None,
         q.kind = "verify" => q.wallet \in Wallet,
         q.kind # "verify" => q.redirect \in Url
  PROVE  AuthInv' /\ GrantStep
<1>1. requests[r].pc = "idle" /\ requests[r].wallet = None
  BY DEF begin, AuthInv, RequestsEarned, Earned
<1>2. ~Redeemed(q) /\ Quiet(r, q)
  BY <1>1 DEF Redeemed, Quiet
<1>3. Used(q)
  BY <1>2 DEF Used
<1>4. Earned(q, q.seen \cup holds(q, apps, chain))
  BY DEF Earned, Admitted
<1>5. step(r, q) /\ UNCHANGED codes
  BY DEF begin
<1>6. QED
  BY <1>2, <1>3, <1>4, <1>5, StepInv

LEMMA BeginningsInv ==
  ASSUME AuthInv, NEW r \in Request, NEW p \in App
  PROVE  /\ \A u \in Url, w \in Wallet \cup {None} :
              AuthorizePage(r, p, u, w) \/ approve(r, p, u, w) => AuthInv' /\ GrantStep
         /\ \A s \in 0..apps[p].secret, c \in Request, u \in Url :
              exchange(r, p, s, c, u) => AuthInv' /\ GrantStep
         /\ \A s \in 0..apps[p].secret, w \in Wallet :
              verify(r, p, s, w) => AuthInv' /\ GrantStep
<1>1. ASSUME NEW u \in Url, NEW w \in Wallet \cup {None}, NEW kind \in {"page", "approve"},
             NEW q, q = [Idle EXCEPT !.pc = "row", !.kind = kind, !.app = p, !.redirect = u, !.wallet = w],
             begin(r, q)
      PROVE  AuthInv' /\ GrantStep
  <2>1. q = [pc |-> "row", kind |-> kind, app |-> p, secret |-> 0, code |-> None,
             redirect |-> u, wallet |-> w, usedAt |-> 0, seen |-> {}]
    BY <1>1 DEF Idle
  <2>2. q \in RequestRow
    BY <2>1 DEF RequestRow, Pc
  <2>3. QED
    BY <1>1, <2>1, <2>2, BeginInv
<1>2. ASSUME NEW s \in 0..apps[p].secret, NEW c \in Request, NEW u \in Url,
             NEW q, q = [Idle EXCEPT !.pc = "row", !.kind = "exchange", !.app = p, !.secret = s,
                                     !.code = c, !.redirect = u],
             begin(r, q)
      PROVE  AuthInv' /\ GrantStep
  <2>1. q = [pc |-> "row", kind |-> "exchange", app |-> p, secret |-> s, code |-> c,
             redirect |-> u, wallet |-> None, usedAt |-> 0, seen |-> {}]
    BY <1>2 DEF Idle
  <2>2. q \in RequestRow
    BY <2>1 DEF RequestRow, Pc, AuthInv, TablesOK, Application
  <2>3. QED
    BY <1>2, <2>1, <2>2, BeginInv
<1>3. ASSUME NEW s \in 0..apps[p].secret, NEW w \in Wallet,
             NEW q, q = [Idle EXCEPT !.pc = "row", !.kind = "verify", !.app = p, !.secret = s, !.wallet = w],
             begin(r, q)
      PROVE  AuthInv' /\ GrantStep
  <2>1. q = [pc |-> "row", kind |-> "verify", app |-> p, secret |-> s, code |-> None,
             redirect |-> None, wallet |-> w, usedAt |-> 0, seen |-> {}]
    BY <1>3 DEF Idle
  <2>2. q \in RequestRow
    BY <2>1 DEF RequestRow, Pc, AuthInv, TablesOK, Application
  <2>3. QED
    BY <1>3, <2>1, <2>2, BeginInv
<1>4. QED
  BY <1>1, <1>2, <1>3 DEF AuthorizePage, approve, exchange, verify

(* A request goes on, and nothing of it changes but where it is.           *)
LEMMA GotoInv ==
  ASSUME AuthInv, NEW r \in Request, NEW pc \in Pc, goto(r, pc), UNCHANGED codes,
         requests[r].pc \notin {"idle", "done", "denied"}, pc # "idle",
         pc \in {"evaluating", "done"} =>
           requests[r].kind # "exchange" \/ requests[r].pc \in {"evaluating", "done"},
         NEW q, q = [requests[r] EXCEPT !.pc = pc],
         Earned(q, q.seen \cup holds(q, apps, chain))
  PROVE  AuthInv' /\ GrantStep
<1>1. /\ requests[r] \in RequestRow /\ q \in RequestRow
      /\ q.pc = pc /\ q.kind = requests[r].kind /\ q.app = requests[r].app
      /\ q.code = requests[r].code /\ q.redirect = requests[r].redirect
      /\ q.wallet = requests[r].wallet /\ q.usedAt = requests[r].usedAt
  BY DEF AuthInv, TablesOK, RequestRow
<1>2. Quiet(r, q)
  BY <1>1 DEF Quiet, Redeemed
<1>3. Used(q)
  <2>1. Used(requests[r])
    BY DEF AuthInv, Linked
  <2>2. QED
    BY <1>1, <2>1 DEF Used, Redeemed
<1>4. step(r, q)
  BY DEF goto
<1>5. QED
  BY <1>1, <1>2, <1>3, <1>4, StepInv

(* Nothing is asked of a request that is refused.                          *)
LEMMA RefusedInv ==
  ASSUME AuthInv, NEW r \in Request, goto(r, "refused"), UNCHANGED codes,
         requests[r].pc \notin {"idle", "done", "denied"}
  PROVE  AuthInv' /\ GrantStep
<1>1. PICK q : q = [requests[r] EXCEPT !.pc = "refused"]
  OBVIOUS
<1>2. /\ requests[r] \in RequestRow /\ Earned(requests[r], requests[r].seen)
      /\ q.pc = "refused" /\ q.kind = requests[r].kind /\ q.app = requests[r].app
      /\ q.code = requests[r].code /\ q.wallet = requests[r].wallet
  BY <1>1 DEF AuthInv, TablesOK, RequestsEarned, RequestRow
<1>3. Earned(q, q.seen \cup holds(q, apps, chain))
  BY <1>2 DEF Earned, Admitted
<1>4. QED
  BY <1>1, <1>3, GotoInv DEF Pc

LEMMA ClientIdInv ==
  ASSUME AuthInv, NEW r \in Request, findApplicationByClientId(r)
  PROVE  AuthInv' /\ GrantStep
<1>1. /\ requests[r].pc = "row" /\ UNCHANGED codes
      /\ requests[r] \in RequestRow /\ Earned(requests[r], requests[r].seen)
  BY DEF findApplicationByClientId, AuthInv, TablesOK, RequestsEarned
<1>2. requests[r].app \in App /\ apps[requests[r].app] \in Application
  BY <1>1 DEF Earned, AuthInv, TablesOK
<1>3. CASE rowRefused(requests[r], apps[requests[r].app])
  BY <1>1, <1>3, RefusedInv DEF findApplicationByClientId
<1>4. CASE ~rowRefused(requests[r], apps[requests[r].app])
  <2>1. PICK pc \in {"slug", "callbacks"} :
          goto(r, pc) /\ (pc = "slug" <=> requests[r].kind = "verify")
    BY <1>1, <1>4 DEF findApplicationByClientId
  <2>2. PICK q : q = [requests[r] EXCEPT !.pc = pc]
    OBVIOUS
  <2>3. /\ q.pc = pc /\ q.kind = requests[r].kind /\ q.app = requests[r].app
        /\ q.code = requests[r].code /\ q.redirect = requests[r].redirect
        /\ q.wallet = requests[r].wallet /\ q.secret = requests[r].secret
        /\ q.seen = requests[r].seen
    BY <1>1, <2>2 DEF RequestRow
  <2>4. "active" \in holds(q, apps, chain) /\ (ofBrowser(q) \/ "secret" \in holds(q, apps, chain))
    BY <1>2, <1>4, <2>3, HoldsFacts DEF rowRefused, ofBrowser, Application
  <2>5. Earned(q, q.seen \cup holds(q, apps, chain))
    BY <1>1, <2>1, <2>3, <2>4 DEF Earned, Admitted
  <2>6. QED
    BY <1>1, <2>1, <2>2, <2>5, GotoInv DEF Pc
<1>5. QED
  BY <1>3, <1>4

(* What resolveCallback stands for is registered, and a redirect_uri.      *)
LEMMA CallbackInv ==
  ASSUME AuthInv, NEW r \in Request, resolveCallback(r)
  PROVE  AuthInv' /\ GrantStep
<1>1. /\ requests[r].pc = "callbacks" /\ UNCHANGED codes
      /\ requests[r] \in RequestRow /\ Earned(requests[r], requests[r].seen)
  BY DEF resolveCallback, AuthInv, TablesOK, RequestsEarned
<1>2. PICK check : check = checkCallback("active", readCallbacks(requests[r].app), requests[r].redirect, NodeEnv)
  OBVIOUS
<1>3. CASE check.reason # "ok"
  BY <1>1, <1>2, <1>3, RefusedInv DEF resolveCallback
<1>4. CASE check.reason = "ok"
  <2>1. /\ requests[r].app \in App /\ requests[r].kind \in {"page", "approve", "exchange"}
        /\ requests[r].redirect \in Url
        /\ "active" \in requests[r].seen
        /\ requests[r].kind = "exchange" =>
             requests[r].code \in Request /\ requests[r].wallet = None /\ "secret" \in requests[r].seen
    BY <1>1 DEF Earned, Admitted, ofBrowser
  <2>2. check.registered \in apps[requests[r].app].callbacks
    <3>1. isUri(requests[r].redirect)
      BY <2>1, AuthorizationAssumption
    <3>2. check.registered \in matching(apps[requests[r].app].callbacks, requests[r].redirect)
      BY <1>2, <1>4, <3>1, CheckOk DEF readCallbacks
    <3>3. QED
      BY <3>2 DEF matching
  <2>3. check.registered \in Url
    BY <2>1, <2>2 DEF AuthInv, TablesOK, Application, Registrable
  <2>4. PICK pc : pc = afterCallback(requests[r])
    OBVIOUS
  <2>5. PICK usedAt : usedAt = IF requests[r].kind = "exchange" THEN clock ELSE 0
    OBVIOUS
  <2>6. PICK q : q = [requests[r] EXCEPT !.pc = pc, !.redirect = check.registered, !.usedAt = usedAt]
    OBVIOUS
  <2>7. step(r, q)
    BY <1>1, <1>2, <1>4, <2>4, <2>5, <2>6 DEF resolveCallback
  <2>8. usedAt \in Nat
    BY <2>5 DEF AuthInv, TablesOK
  <2>9. \/ pc = "consume" /\ requests[r].kind = "exchange"
        \/ pc \in {"signIn", "denied"} /\ requests[r].kind # "exchange"
        \/ pc = "evaluating" /\ requests[r].kind # "exchange" /\ requests[r].wallet # None
    BY <2>1, <2>4 DEF afterCallback
  <2>10. /\ q.pc = pc /\ q.kind = requests[r].kind /\ q.app = requests[r].app
         /\ q.code = requests[r].code /\ q.redirect = check.registered
         /\ q.wallet = requests[r].wallet /\ q.secret = requests[r].secret
         /\ q.seen = requests[r].seen /\ q \in RequestRow
    BY <1>1, <2>3, <2>6, <2>8, <2>9 DEF RequestRow, Pc
  <2>11. "callback" \in holds(q, apps, chain)
    BY <2>2, <2>10, HoldsFacts
  <2>12. requests[r].wallet # None => requests[r].wallet \in Wallet
    BY <1>1 DEF RequestRow
  <2>13. Earned(q, q.seen \cup holds(q, apps, chain))
    BY <2>1, <2>3, <2>9, <2>10, <2>11, <2>12 DEF Earned, Admitted, ofBrowser
  <2>14. ~Redeemed(q) /\ Quiet(r, q) /\ Used(q)
    BY <1>1, <2>1, <2>10 DEF Redeemed, Quiet, Used
  <2>15. QED
    BY <1>1, <2>7, <2>10, <2>13, <2>14, StepInv
<1>5. QED
  BY <1>3, <1>4

LEMMA SlugInv ==
  ASSUME AuthInv, NEW r \in Request, findApplicationBySlug(r)
  PROVE  AuthInv' /\ GrantStep
<1>1. /\ requests[r].pc = "slug" /\ UNCHANGED codes
      /\ requests[r] \in RequestRow /\ Earned(requests[r], requests[r].seen)
  BY DEF findApplicationBySlug, AuthInv, TablesOK, RequestsEarned
<1>2. CASE apps[requests[r].app].status = "revoked"
  BY <1>1, <1>2, RefusedInv DEF findApplicationBySlug
<1>3. CASE apps[requests[r].app].status # "revoked"
  <2>1. goto(r, "evaluating")
    BY <1>1, <1>3 DEF findApplicationBySlug
  <2>2. PICK q : q = [requests[r] EXCEPT !.pc = "evaluating"]
    OBVIOUS
  <2>3. /\ q.pc = "evaluating" /\ q.kind = requests[r].kind /\ q.app = requests[r].app
        /\ q.wallet = requests[r].wallet /\ q.seen = requests[r].seen
    BY <1>1, <2>2 DEF RequestRow
  <2>4. Earned(q, q.seen \cup holds(q, apps, chain)) /\ requests[r].kind = "verify"
    BY <1>1, <2>3 DEF Earned, Admitted, ofBrowser
  <2>5. QED
    BY <1>1, <2>1, <2>2, <2>4, GotoInv DEF Pc
<1>4. QED
  BY <1>2, <1>3

LEMMA AllowInv ==
  ASSUME AuthInv, NEW r \in Request, allow(r)
  PROVE  AuthInv' /\ GrantStep
<1>1. /\ requests[r].pc = "evaluating" /\ "granted" \in requests[r].seen /\ UNCHANGED codes
      /\ requests[r] \in RequestRow /\ Earned(requests[r], requests[r].seen)
  BY DEF allow, AuthInv, TablesOK, RequestsEarned
<1>2. PICK pc \in {"issue", "done"} : goto(r, pc) /\ (pc = "issue" => requests[r].kind = "approve")
  BY DEF allow
<1>3. PICK q : q = [requests[r] EXCEPT !.pc = pc]
  OBVIOUS
<1>4. /\ q.pc = pc /\ q.kind = requests[r].kind /\ q.app = requests[r].app
      /\ q.code = requests[r].code /\ q.redirect = requests[r].redirect
      /\ q.wallet = requests[r].wallet /\ q.seen = requests[r].seen
  BY <1>1, <1>3 DEF RequestRow
<1>5. Earned(q, q.seen \cup holds(q, apps, chain))
  BY <1>1, <1>2, <1>4 DEF Earned, Admitted, ofBrowser
<1>6. QED
  BY <1>1, <1>2, <1>3, <1>5, GotoInv DEF Pc

LEMMA FailInv ==
  ASSUME AuthInv, NEW r \in Request, fail(r)
  PROVE  AuthInv' /\ GrantStep
<1>1. /\ requests[r].pc \notin {"idle", "done", "denied", "refused", "signIn"} /\ UNCHANGED codes
      /\ requests[r] \in RequestRow /\ Earned(requests[r], requests[r].seen)
  BY DEF fail, running, AuthInv, TablesOK, RequestsEarned
<1>2. CASE ofBrowser(requests[r]) /\ requests[r].pc \in {"evaluating", "issue"}
  <2>1. goto(r, "denied")
    BY <1>2 DEF fail, failure
  <2>2. PICK q : q = [requests[r] EXCEPT !.pc = "denied"]
    OBVIOUS
  <2>3. /\ q.pc = "denied" /\ q.kind = requests[r].kind /\ q.app = requests[r].app
        /\ q.redirect = requests[r].redirect /\ q.seen = requests[r].seen
    BY <1>1, <2>2 DEF RequestRow
  <2>4. Earned(q, q.seen \cup holds(q, apps, chain))
    BY <1>1, <1>2, <2>3 DEF Earned, Admitted, ofBrowser
  <2>5. QED
    BY <1>1, <2>1, <2>2, <2>4, GotoInv DEF Pc
<1>3. CASE ~(ofBrowser(requests[r]) /\ requests[r].pc \in {"evaluating", "issue"})
  <2>1. goto(r, "refused")
    BY <1>3 DEF fail, failure
  <2>2. QED
    BY <1>1, <2>1, RefusedInv
<1>4. QED
  BY <1>2, <1>3

(* The conditional update changes a row: of what OneTimeGrant sees, the    *)
(* code is over, and whoever presented it before got nothing.              *)
LEMMA RowUsed ==
  ASSUME AuthInv, NEW c \in Request, codes[c].row = "unused",
         codes' = [codes EXCEPT ![c].row = "used"]
  PROVE  /\ codes' \in [Request -> Grant]
         /\ \A d \in Request :
              /\ codes'[d].row = IF d = c THEN "used" ELSE codes[d].row
              /\ codes'[d].app = codes[d].app /\ codes'[d].redirect = codes[d].redirect
              /\ codes'[d].wallet = codes[d].wallet /\ codes'[d].expiresAt = codes[d].expiresAt
         /\ \A x \in Request : Redeemed(requests[x]) => requests[x].code # c
         /\ states[c] = "live" /\ states' = [states EXCEPT ![c] = "over"] /\ winners[c] = {}
<1>1. codes \in [Request -> Grant]
  BY DEF AuthInv, TablesOK
<1>2. /\ codes' \in [Request -> Grant]
      /\ \A d \in Request :
           /\ codes'[d].row = IF d = c THEN "used" ELSE codes[d].row
           /\ codes'[d].app = codes[d].app /\ codes'[d].redirect = codes[d].redirect
           /\ codes'[d].wallet = codes[d].wallet /\ codes'[d].expiresAt = codes[d].expiresAt
  BY <1>1 DEF Grant
<1>3. \A x \in Request : Redeemed(requests[x]) => requests[x].code # c
  BY DEF AuthInv, Linked, Used
<1>4. states[c] = "live"
  BY DEF states, gate
<1>5. states' = [states EXCEPT ![c] = "over"]
  <2>1. gate(c)' = "over"
    BY <1>2 DEF gate
  <2>2. \A d \in Request \ {c} : gate(d)' = gate(d)
    BY <1>2 DEF gate
  <2>3. QED
    BY <2>1, <2>2 DEF states
<1>6. winners[c] = {}
  BY <1>3 DEF winners, redeemers, Redeemed
<1>7. QED
  BY <1>2, <1>3, <1>4, <1>5, <1>6

(* Every promise about the codes survives the update of one row, whether   *)
(* the request r that made it is served or never learns of it.             *)
LEMMA RowUsedLinked ==
  ASSUME AuthInv, NEW r \in Request, requests[r].pc = "consume",
         NEW c \in Request, c = requests[r].code, codes[c].row = "unused",
         codes' = [codes EXCEPT ![c].row = "used"],
         NEW o \in RequestRow, requests' = [requests EXCEPT ![r] = o],
         Redeemed(o) => o.code = c, o.pc # "done", Used(o)'
  PROVE  Linked'
<1>1. /\ \A d \in Request :
           /\ codes'[d].row = IF d = c THEN "used" ELSE codes[d].row
           /\ codes'[d].app = codes[d].app /\ codes'[d].redirect = codes[d].redirect
           /\ codes'[d].wallet = codes[d].wallet /\ codes'[d].expiresAt = codes[d].expiresAt
      /\ \A x \in Request : Redeemed(requests[x]) => requests[x].code # c
  BY RowUsed
<1>2. /\ requests'[r] = o
      /\ \A x \in Request \ {r} : requests'[x] = requests[x]
  BY DEF AuthInv, TablesOK
<1>3. \A d \in Request : Consented(d)'
  <2> SUFFICES ASSUME NEW d \in Request PROVE Consented(d)'
    OBVIOUS
  <2>1. Consented(d)
    BY DEF AuthInv, Linked
  <2>2. codes'[d].row # "none" => codes[d].row # "none" /\ d # r
    BY <1>1, <2>1 DEF Consented
  <2>3. QED
    BY <1>1, <1>2, <2>1, <2>2 DEF Consented
<1>4. \A x \in Request : Used(requests[x])'
  <2> SUFFICES ASSUME NEW x \in Request PROVE Used(requests[x])'
    OBVIOUS
  <2>1. CASE x = r
    BY <1>2, <2>1
  <2>2. CASE x # r
    <3>1. Used(requests[x]) /\ requests'[x] = requests[x]
      BY <1>2, <2>2 DEF AuthInv, Linked
    <3>2. QED
      BY <1>1, <3>1 DEF Used, Redeemed
  <2>3. QED
    BY <2>1, <2>2
<1>5. SpentOnce'
  BY <1>1, <1>2 DEF AuthInv, Linked, SpentOnce, Redeemed
<1>6. QED
  BY <1>3, <1>4, <1>5 DEF Linked

LEMMA ConsumeInv ==
  ASSUME AuthInv, NEW r \in Request, consume(r)
  PROVE  AuthInv' /\ GrantStep
<1>1. /\ requests[r].pc = "consume"
      /\ requests[r] \in RequestRow /\ Earned(requests[r], requests[r].seen)
  BY DEF consume, AuthInv, TablesOK, RequestsEarned
<1>2. PICK c \in Request : c = requests[r].code
  BY <1>1 DEF Earned
<1>3. requests[r].kind = "exchange" /\ requests[r].wallet = None
  BY <1>1 DEF Earned
<1>4. CASE ~matches(requests[r], codes[c])
  BY <1>1, <1>2, <1>4, RefusedInv DEF consume
<1>5. CASE matches(requests[r], codes[c])
  <2>1. PICK w : w = codes[c].wallet
    OBVIOUS
  <2>2. PICK q : q = [requests[r] EXCEPT !.pc = "evaluating", !.wallet = w]
    OBVIOUS
  <2>3. PICK o : o = observed(q, apps, chain)
    OBVIOUS
  <2>4. /\ codes' = [codes EXCEPT ![c].row = "used"] /\ step(r, q)
        /\ codes[c].row = "unused" /\ codes[c].app = requests[r].app
        /\ codes[c].redirect = requests[r].redirect /\ codes[c].expiresAt > requests[r].usedAt
    BY <1>1, <1>2, <1>5, <2>1, <2>2 DEF consume, matches
  <2>5. w \in Wallet
    BY <2>1, <2>4 DEF AuthInv, Linked, Consented
  <2>6. /\ q.pc = "evaluating" /\ q.kind = "exchange" /\ q.app = requests[r].app
        /\ q.code = c /\ q.redirect = requests[r].redirect /\ q.wallet = w
        /\ q.usedAt = requests[r].usedAt /\ q.seen = requests[r].seen /\ q \in RequestRow
    <3>1. PICK old \in RequestRow : old = requests[r] /\ old.kind = "exchange" /\ old.code = c
      BY <1>1, <1>2, <1>3
    <3>2. q = [old EXCEPT !.pc = "evaluating", !.wallet = w]
      BY <2>2, <3>1
    <3>3. q.pc = "evaluating" /\ q.wallet = w /\ q \in RequestRow
      BY <2>5, <3>2 DEF RequestRow, Pc
    <3>4. /\ q.kind = old.kind /\ q.app = old.app /\ q.code = old.code /\ q.seen = old.seen
          /\ q.redirect = old.redirect /\ q.usedAt = old.usedAt
      BY <3>2 DEF RequestRow
    <3>5. QED
      BY <3>1, <3>3, <3>4
  <2>7. Earned(q, q.seen \cup holds(q, apps, chain))
    <3>1. PICK old : old = requests[r]
      OBVIOUS
    <3>2. old.pc = "consume" /\ old.kind = "exchange" /\ Earned(old, old.seen)
      BY <1>1, <1>3, <3>1
    <3>3. /\ q.pc = "evaluating" /\ q.kind = "exchange" /\ q.app = old.app /\ q.code = old.code
          /\ q.redirect = old.redirect /\ q.wallet \in Wallet /\ q.seen = old.seen
      BY <1>2, <2>5, <2>6, <3>1
    <3>4. QED
      BY <3>2, <3>3 DEF Earned, Admitted, ofBrowser
  <2>8. /\ requests' \in [Request -> RequestRow] /\ RequestsEarned'
        /\ requests'[r] = o /\ \A x \in Request \ {r} : requests'[x] = requests[x]
    BY <2>3, <2>4, <2>6, <2>7, StepEarned
  <2>9. requests' = [requests EXCEPT ![r] = o]
    BY <2>3, <2>4 DEF step
  <2>10. /\ o \in RequestRow /\ o.pc = "evaluating" /\ o.kind = "exchange" /\ o.code = c
         /\ o.wallet = w /\ o.app = requests[r].app /\ o.redirect = requests[r].redirect
         /\ o.usedAt = requests[r].usedAt
    BY <2>3, <2>6, ObservedRow
  <2>11. /\ codes' \in [Request -> Grant]
         /\ codes'[c].row = "used" /\ codes'[c].app = codes[c].app
         /\ codes'[c].redirect = codes[c].redirect /\ codes'[c].wallet = w
         /\ codes'[c].expiresAt = codes[c].expiresAt
         /\ \A x \in Request : Redeemed(requests[x]) => requests[x].code # c
         /\ states[c] = "live" /\ states' = [states EXCEPT ![c] = "over"] /\ winners[c] = {}
    <3>1. codes' = [codes EXCEPT ![c].row = "used"] /\ codes[c].row = "unused"
      BY <2>4
    <3>2. /\ codes' \in [Request -> Grant]
          /\ \A d \in Request :
               /\ codes'[d].row = IF d = c THEN "used" ELSE codes[d].row
               /\ codes'[d].app = codes[d].app /\ codes'[d].redirect = codes[d].redirect
               /\ codes'[d].wallet = codes[d].wallet /\ codes'[d].expiresAt = codes[d].expiresAt
      BY <3>1, RowUsed
    <3>3. /\ \A x \in Request : Redeemed(requests[x]) => requests[x].code # c
          /\ states[c] = "live" /\ states' = [states EXCEPT ![c] = "over"] /\ winners[c] = {}
      BY <3>1, RowUsed
    <3>4. QED
      BY <2>1, <3>2, <3>3
  <2>12. Used(o)'
    BY <2>4, <2>10, <2>11 DEF Used, Redeemed
  <2>13. Linked'
    BY <1>1, <1>2, <2>4, <2>9, <2>10, <2>12, RowUsedLinked
  <2>14. TablesOK'
    BY <2>4, <2>8, <2>11 DEF AuthInv, TablesOK, step
  <2>15. winners' = [winners EXCEPT ![c] = {r}]
    <3>1. redeemers(c)' = {r}
      BY <2>5, <2>8, <2>10, <2>11, AuthorizationAssumption DEF redeemers, Redeemed
    <3>2. \A d \in Request \ {c} : redeemers(d)' = redeemers(d)
      BY <1>2, <2>8, <2>10 DEF redeemers
    <3>3. QED
      BY <3>1, <3>2 DEF winners
  <2>16. QED
    BY <2>8, <2>11, <2>13, <2>14, <2>15 DEF AuthInv, GrantStep
<1>6. QED
  BY <1>4, <1>5

LEMMA UnheardInv ==
  ASSUME AuthInv, NEW r \in Request, consumeUnheard(r)
  PROVE  AuthInv' /\ GrantStep
<1>1. /\ requests[r].pc = "consume"
      /\ requests[r] \in RequestRow /\ Earned(requests[r], requests[r].seen)
  BY DEF consumeUnheard, AuthInv, TablesOK, RequestsEarned
<1>2. PICK c \in Request : c = requests[r].code
  BY <1>1 DEF Earned
<1>3. requests[r].kind = "exchange" /\ requests[r].wallet = None /\ requests[r].app \in App
  BY <1>1 DEF Earned
<1>4. PICK q : q = [requests[r] EXCEPT !.pc = "refused"]
  OBVIOUS
<1>5. PICK o : o = observed(q, apps, chain)
  OBVIOUS
<1>6. codes' = [codes EXCEPT ![c].row = "used"] /\ step(r, q) /\ codes[c].row = "unused"
  BY <1>2, <1>4 DEF consumeUnheard, matches, goto
<1>7. /\ q.pc = "refused" /\ q.kind = "exchange" /\ q.app = requests[r].app
      /\ q.code = c /\ q.wallet = None /\ q \in RequestRow
  BY <1>1, <1>2, <1>3, <1>4 DEF RequestRow, Pc
<1>8. Earned(q, q.seen \cup holds(q, apps, chain))
  BY <1>2, <1>3, <1>7 DEF Earned, Admitted
<1>9. /\ requests' \in [Request -> RequestRow] /\ RequestsEarned'
      /\ requests'[r] = o /\ \A x \in Request \ {r} : requests'[x] = requests[x]
  BY <1>5, <1>6, <1>7, <1>8, StepEarned
<1>10. requests' = [requests EXCEPT ![r] = o]
  BY <1>5, <1>6 DEF step
<1>11. o \in RequestRow /\ o.pc = "refused" /\ o.wallet = None
  BY <1>5, <1>7, ObservedRow
<1>12. /\ codes' \in [Request -> Grant]
       /\ states[c] = "live" /\ states' = [states EXCEPT ![c] = "over"]
  BY <1>1, <1>2, <1>6, RowUsed
<1>13. Used(o)'
  BY <1>11 DEF Used, Redeemed
<1>14. Linked'
  BY <1>1, <1>2, <1>6, <1>10, <1>11, <1>13, RowUsedLinked DEF Redeemed
<1>15. TablesOK'
  BY <1>6, <1>9, <1>12 DEF AuthInv, TablesOK, step
<1>16. winners' = winners
  BY <1>1, <1>3, <1>6, <1>7, QuietWinners DEF Quiet, Redeemed
<1>17. GrantStep
  <2>1. states' = [d \in Request |-> IF d \in {c} THEN "over" ELSE states[d]]
    BY <1>12 DEF states
  <2>2. {c} \in SUBSET Request /\ \A d \in {c} : states[d] = "live"
    BY <1>12
  <2>3. QED
    BY <1>16, <2>1, <2>2 DEF GrantStep
<1>18. QED
  BY <1>9, <1>14, <1>15, <1>17 DEF AuthInv

(* The insert: the row was not there, so nobody redeemed it.               *)
LEMMA IssueInv ==
  ASSUME AuthInv, NEW r \in Request, issueAuthorizationCode(r)
  PROVE  AuthInv' /\ GrantStep
<1>1. /\ requests[r].pc = "issue"
      /\ requests[r] \in RequestRow /\ Earned(requests[r], requests[r].seen)
  BY DEF issueAuthorizationCode, AuthInv, TablesOK, RequestsEarned
<1>2. /\ requests[r].kind = "approve" /\ requests[r].app \in App /\ requests[r].redirect \in Url
      /\ requests[r].wallet \in Wallet
      /\ {"active", "callback", "granted"} \subseteq requests[r].seen
  BY <1>1 DEF Earned, Admitted
<1>3. PICK pc \in {"done", "denied"} : goto(r, pc)
  BY DEF issueAuthorizationCode
<1>4. PICK g : g = issued(requests[r])
  OBVIOUS
<1>5. codes' = [codes EXCEPT ![r] = g]
  BY <1>4 DEF issueAuthorizationCode
<1>6. /\ g \in Grant /\ g.row = "unused" /\ g.app = requests[r].app
      /\ g.redirect = requests[r].redirect /\ g.wallet = requests[r].wallet
  BY <1>2, <1>4, AuthorizationAssumption DEF issued, Grant, AuthInv, TablesOK
<1>7. PICK q : q = [requests[r] EXCEPT !.pc = pc]
  OBVIOUS
<1>8. /\ q.pc = pc /\ q.kind = "approve" /\ q.app = requests[r].app
      /\ q.code = requests[r].code /\ q.redirect = requests[r].redirect
      /\ q.wallet = requests[r].wallet /\ q.seen = requests[r].seen /\ q \in RequestRow
  BY <1>1, <1>2, <1>7 DEF RequestRow, Pc
<1>9. Earned(q, q.seen \cup holds(q, apps, chain))
  BY <1>1, <1>2, <1>8 DEF Earned, Admitted, ofBrowser
<1>10. step(r, q)
  BY <1>3, <1>7 DEF goto
<1>11. PICK o : o = observed(q, apps, chain)
  OBVIOUS
<1>12. /\ requests' \in [Request -> RequestRow] /\ RequestsEarned'
       /\ requests'[r] = o /\ \A x \in Request \ {r} : requests'[x] = requests[x]
  BY <1>8, <1>9, <1>10, <1>11, StepEarned
<1>13. /\ o.pc = pc /\ o.kind = "approve" /\ o.app = requests[r].app
       /\ o.wallet = requests[r].wallet /\ o.redirect = requests[r].redirect
       /\ {"active", "callback", "granted"} \subseteq o.seen
  <2>1. /\ o.pc = pc /\ o.kind = "approve" /\ o.app = requests[r].app
        /\ o.wallet = requests[r].wallet
    BY <1>8, <1>11, ObservedRow
  <2>2. q.pc \notin {"refused", "signIn"}
    BY <1>8
  <2>3. o.redirect = q.redirect /\ o.seen = q.seen \cup holds(q, apps, chain)
    BY <1>8, <1>11, <2>2, ObservedRow
  <2>4. QED
    BY <1>2, <1>8, <2>1, <2>3
<1>14. codes[r].row = "none"
  BY <1>1 DEF AuthInv, Linked, Consented
<1>15. \A x \in Request : Redeemed(requests[x]) => requests[x].code # r
  BY <1>14 DEF AuthInv, Linked, Used
<1>16. codes'[r] = g /\ \A d \in Request \ {r} : codes'[d] = codes[d]
  BY <1>5 DEF AuthInv, TablesOK
<1>17. TablesOK'
  BY <1>5, <1>6, <1>10, <1>12 DEF AuthInv, TablesOK, step
<1>18. \A c \in Request : Consented(c)'
  <2> SUFFICES ASSUME NEW c \in Request PROVE Consented(c)'
    OBVIOUS
  <2>1. CASE c = r
    BY <1>2, <1>6, <1>12, <1>13, <1>16, <2>1 DEF Consented
  <2>2. CASE c # r
    BY <1>12, <1>16, <2>2 DEF AuthInv, Linked, Consented
  <2>3. QED
    BY <2>1, <2>2
<1>19. \A x \in Request : Used(requests[x])'
  <2> SUFFICES ASSUME NEW x \in Request PROVE Used(requests[x])'
    OBVIOUS
  <2>1. CASE x = r
    BY <1>12, <1>13, <2>1 DEF Used, Redeemed
  <2>2. CASE x # r
    BY <1>12, <1>15, <1>16, <2>2 DEF AuthInv, Linked, Used, Redeemed
  <2>3. QED
    BY <2>1, <2>2
<1>20. SpentOnce'
  BY <1>12, <1>13 DEF AuthInv, Linked, SpentOnce, Redeemed
<1>21. winners' = winners
  BY <1>1, <1>2, <1>8, <1>10, QuietWinners DEF Quiet, Redeemed
<1>22. states[r] = "unissued" /\ states' = [states EXCEPT ![r] = "live"]
  <2>1. gate(r) = "unissued" /\ gate(r)' = "live"
    BY <1>6, <1>14, <1>16 DEF gate
  <2>2. \A d \in Request \ {r} : gate(d)' = gate(d)
    BY <1>16 DEF gate
  <2>3. QED
    BY <2>1, <2>2 DEF states
<1>23. QED
  BY <1>12, <1>17, <1>18, <1>19, <1>20, <1>21, <1>22 DEF AuthInv, Linked, GrantStep

-----------------------------------------------------------------------------
(* The steps of the world around.                                          *)

(* The purge drops the unused rows it deletes. The used ones were over.    *)
LEMMA PurgeInv ==
  ASSUME AuthInv, purge_expired_authorization_codes
  PROVE  AuthInv' /\ GrantStep
<1>1. UNCHANGED <<apps, chain, requests, clock>>
  BY DEF purge_expired_authorization_codes
<1>2. \A c \in Request :
        /\ codes'[c] \in Grant
        /\ codes'[c].app = codes[c].app /\ codes'[c].redirect = codes[c].redirect
        /\ codes'[c].wallet = codes[c].wallet /\ codes'[c].expiresAt = codes[c].expiresAt
        /\ \/ codes'[c].row = codes[c].row
           \/ codes'[c].row = "purged" /\ codes[c].row \in {"unused", "used"}
  <2> SUFFICES ASSUME NEW c \in Request, NEW g, g = codes[c], NEW h, h = codes'[c]
               PROVE  /\ h \in Grant
                      /\ h.app = g.app /\ h.redirect = g.redirect
                      /\ h.wallet = g.wallet /\ h.expiresAt = g.expiresAt
                      /\ \/ h.row = g.row
                         \/ h.row = "purged" /\ g.row \in {"unused", "used"}
    OBVIOUS
  <2>1. g \in Grant
    BY DEF AuthInv, TablesOK
  <2>2. \/ h = g
        \/ g.row \in {"unused", "used"} /\ h = [g EXCEPT !.row = "purged"]
    <3>1. codes'[c] = IF codes[c].row \in {"unused", "used"} /\ codes[c].expiresAt + PurgeGrace < clock
                      THEN [codes[c] EXCEPT !.row = "purged"] ELSE codes[c]
      BY DEF purge_expired_authorization_codes
    <3>2. QED
      BY <3>1
  <2>3. CASE h = g
    BY <2>1, <2>3
  <2>4. CASE g.row \in {"unused", "used"} /\ h = [g EXCEPT !.row = "purged"]
    BY <2>1, <2>4 DEF Grant
  <2>5. QED
    BY <2>2, <2>3, <2>4
<1>3. TablesOK'
  BY <1>1, <1>2 DEF AuthInv, TablesOK, purge_expired_authorization_codes
<1>4. RequestsEarned' /\ SpentOnce'
  BY <1>1 DEF AuthInv, RequestsEarned, Linked, SpentOnce
<1>5. \A c \in Request : Consented(c)'
  BY <1>1, <1>2 DEF AuthInv, Linked, Consented
<1>6. \A x \in Request : Used(requests[x])'
  <2> SUFFICES ASSUME NEW x \in Request, Redeemed(requests[x]) PROVE Used(requests[x])'
    BY <1>1 DEF Used, Redeemed
  <2>1. Used(requests[x]) /\ requests[x].code \in Request
    BY DEF AuthInv, Linked, Used
  <2>2. QED
    BY <1>1, <1>2, <2>1 DEF Used
<1>7. GrantStep
  <2> DEFINE cs == {c \in Request : codes[c].row = "unused" /\ codes'[c].row # "unused"}
  <2>1. \A c \in cs : states[c] = "live"
    BY DEF states, gate
  <2>2. \A c \in Request : gate(c)' = IF c \in cs THEN "over" ELSE gate(c)
    BY <1>2 DEF gate
  <2>3. states' = [c \in Request |-> IF c \in cs THEN "over" ELSE states[c]]
    BY <2>2 DEF states
  <2>4. winners' = winners
    BY <1>1, SameWinners
  <2>5. cs \in SUBSET Request
    OBVIOUS
  <2> HIDE DEF cs
  <2>6. QED
    BY <2>1, <2>3, <2>4, <2>5 DEF GrantStep
<1>8. QED
  BY <1>3, <1>4, <1>5, <1>6, <1>7 DEF AuthInv, Linked

(* Whatever changes in the registry or on the chain, each request that is  *)
(* running may have seen it, and what it has seen it keeps.                *)
LEMMA WorldInv ==
  ASSUME AuthInv, NEW as \in [App -> Application], NEW ch \in [App -> [Wallet -> BOOLEAN]],
         world(as, ch)
  PROVE  AuthInv' /\ GrantStep
<1>1. \A x \in Request :
        /\ requests'[x] \in RequestRow /\ Earned(requests'[x], requests'[x].seen)
        /\ requests'[x].pc = requests[x].pc /\ requests'[x].kind = requests[x].kind
        /\ requests'[x].app = requests[x].app /\ requests'[x].code = requests[x].code
        /\ requests'[x].wallet = requests[x].wallet /\ requests'[x].redirect = requests[x].redirect
        /\ requests'[x].usedAt = requests[x].usedAt
        /\ requests[x].seen \subseteq requests'[x].seen
  <2> SUFFICES ASSUME NEW x \in Request, NEW q, q = requests[x]
               PROVE  \E o : /\ o = requests'[x]
                             /\ o \in RequestRow /\ Earned(o, o.seen)
                             /\ o.pc = q.pc /\ o.kind = q.kind /\ o.app = q.app /\ o.code = q.code
                             /\ o.wallet = q.wallet /\ o.redirect = q.redirect /\ o.usedAt = q.usedAt
                             /\ q.seen \subseteq o.seen
    OBVIOUS
  <2>1. q \in RequestRow /\ Earned(q, q.seen)
    BY DEF AuthInv, TablesOK, RequestsEarned
  <2>2. CASE ~running(q)
    BY <2>1, <2>2 DEF world
  <2>3. CASE running(q)
    <3>1. PICK o : o = observed(q, as, ch)
      OBVIOUS
    <3>2. q.pc \notin {"refused", "signIn"}
      BY <2>3 DEF running
    <3>3. Earned(q, q.seen \cup holds(q, as, ch))
      BY <2>1 DEF Earned
    <3>4. Earned(o, o.seen) /\ o \in RequestRow
      BY <2>1, <3>1, <3>3, ObservedEarned, ObservedRow
    <3>5. PICK seen : seen = q.seen \cup holds(q, as, ch)
      OBVIOUS
    <3>6. o = [q EXCEPT !.seen = seen]
      BY <3>1, <3>2, <3>5 DEF observed
    <3>7. requests'[x] = o
      BY <2>3, <3>1 DEF world
    <3>8. /\ o.pc = q.pc /\ o.kind = q.kind /\ o.app = q.app /\ o.code = q.code
          /\ o.wallet = q.wallet /\ o.redirect = q.redirect /\ o.usedAt = q.usedAt
          /\ o.seen = seen
      BY <2>1, <3>6 DEF RequestRow
    <3>9. QED
      BY <3>4, <3>5, <3>7, <3>8
  <2>4. QED
    BY <2>2, <2>3
<1>2. UNCHANGED <<codes, clock>> /\ apps' = as /\ chain' = ch
  BY DEF world
<1>3. TablesOK'
  BY <1>1, <1>2 DEF AuthInv, TablesOK, world
<1>4. RequestsEarned'
  BY <1>1 DEF RequestsEarned
<1>5. \A c \in Request : Consented(c)'
  <2> SUFFICES ASSUME NEW c \in Request PROVE Consented(c)'
    OBVIOUS
  <2>1. Consented(c)
    BY DEF AuthInv, Linked
  <2>2. QED
    BY <1>1, <1>2, <2>1 DEF Consented
<1>6. \A x \in Request : Used(requests[x])'
  <2> SUFFICES ASSUME NEW x \in Request PROVE Used(requests[x])'
    OBVIOUS
  <2>1. Used(requests[x])
    BY DEF AuthInv, Linked
  <2>2. QED
    BY <1>1, <1>2, <2>1 DEF Used, Redeemed
<1>7. SpentOnce'
  BY <1>1 DEF AuthInv, Linked, SpentOnce, Redeemed
<1>8. GrantStep
  BY <1>1, <1>2, SameStates, SameWinners DEF GrantStep, Redeemed
<1>9. QED
  BY <1>3, <1>4, <1>5, <1>6, <1>7, <1>8 DEF AuthInv, Linked

LEMMA RegistryInv ==
  ASSUME AuthInv, registryMoves
  PROVE  AuthInv' /\ GrantStep
<1>1. PICK p \in App : \E a :
        /\ \/ \E s \in {"active", "revoked"} : a = [apps[p] EXCEPT !.status = s]
           \/ a = [apps[p] EXCEPT !.secret = @ + 1]
           \/ a = [apps[p] EXCEPT !.callbacks = {}]
           \/ \E us \in SUBSET Registrable : a = [apps[p] EXCEPT !.callbacks = @ \cup us]
        /\ world([apps EXCEPT ![p] = a], chain)
  BY DEF registryMoves
<1>2. apps \in [App -> Application] /\ chain \in [App -> [Wallet -> BOOLEAN]]
  BY DEF AuthInv, TablesOK
<1>3. PICK a :
        /\ \/ \E s \in {"active", "revoked"} : a = [apps[p] EXCEPT !.status = s]
           \/ a = [apps[p] EXCEPT !.secret = @ + 1]
           \/ a = [apps[p] EXCEPT !.callbacks = {}]
           \/ \E us \in SUBSET Registrable : a = [apps[p] EXCEPT !.callbacks = @ \cup us]
        /\ world([apps EXCEPT ![p] = a], chain)
  BY <1>1
<1>4. a \in Application
  <2>1. PICK old \in Application : old = apps[p]
    BY <1>2
  <2>2. ASSUME NEW s \in {"active", "revoked"} PROVE [old EXCEPT !.status = s] \in Application
    BY DEF Application
  <2>3. [old EXCEPT !.secret = @ + 1] \in Application /\ [old EXCEPT !.callbacks = {}] \in Application
    BY DEF Application
  <2>4. ASSUME NEW us \in SUBSET Registrable PROVE [old EXCEPT !.callbacks = @ \cup us] \in Application
    BY DEF Application
  <2>5. QED
    BY <1>3, <2>1, <2>2, <2>3, <2>4
<1>5. [apps EXCEPT ![p] = a] \in [App -> Application]
  BY <1>2, <1>4
<1>6. QED
  BY <1>2, <1>3, <1>5, WorldInv

LEMMA ChainInv ==
  ASSUME AuthInv, chainMoves
  PROVE  AuthInv' /\ GrantStep
<1>1. PICK p \in App, w \in Wallet : world(apps, [chain EXCEPT ![p][w] = ~@])
  BY DEF chainMoves
<1>2. apps \in [App -> Application] /\ chain \in [App -> [Wallet -> BOOLEAN]]
  BY DEF AuthInv, TablesOK
<1>3. [chain EXCEPT ![p][w] = ~@] \in [App -> [Wallet -> BOOLEAN]]
  BY <1>2
<1>4. QED
  BY <1>1, <1>2, <1>3, WorldInv

LEMMA AuthNextInv == AuthInv /\ [AuthNext]_authVars => AuthInv' /\ GrantStep
<1> SUFFICES ASSUME AuthInv, [AuthNext]_authVars PROVE AuthInv' /\ GrantStep
  OBVIOUS
<1>1. ASSUME NEW r \in Request, NEW p \in App,
             \/ \E u \in Url, w \in Wallet \cup {None} :
                  AuthorizePage(r, p, u, w) \/ approve(r, p, u, w)
             \/ \E s \in 0..apps[p].secret, c \in Request, u \in Url : exchange(r, p, s, c, u)
             \/ \E s \in 0..apps[p].secret, w \in Wallet : verify(r, p, s, w)
      PROVE  AuthInv' /\ GrantStep
  BY <1>1, BeginningsInv
<1>2. ASSUME NEW r \in Request, requestStep(r) PROVE AuthInv' /\ GrantStep
  BY <1>2, ClientIdInv, CallbackInv, SlugInv, ConsumeInv, UnheardInv, AllowInv, IssueInv, FailInv
     DEF requestStep
<1>3. CASE purge_expired_authorization_codes
  BY <1>3, PurgeInv
<1>4. CASE registryMoves
  BY <1>4, RegistryInv
<1>5. CASE chainMoves
  BY <1>5, ChainInv
<1>6. ASSUME UNCHANGED <<apps, chain, codes, requests>>, clock' \in Nat
      PROVE  AuthInv' /\ GrantStep
  <2>1. TablesOK' /\ RequestsEarned'
    BY <1>6 DEF AuthInv, TablesOK, RequestsEarned
  <2>2. Linked'
    BY <1>6 DEF AuthInv, Linked, Consented, Used, SpentOnce
  <2>3. GrantStep
    BY <1>6, SameStates, SameWinners DEF GrantStep
  <2>4. QED
    BY <2>1, <2>2, <2>3 DEF AuthInv
<1>7. CASE Tick
  BY <1>6, <1>7 DEF Tick, AuthInv, TablesOK
<1>8. CASE UNCHANGED authVars
  BY <1>6, <1>8 DEF authVars, AuthInv, TablesOK
<1>9. QED
  BY <1>1, <1>2, <1>3, <1>4, <1>5, <1>7, <1>8 DEF AuthNext

-----------------------------------------------------------------------------
(* Type correctness of sign in with owneX.                                 *)
THEOREM AuthTypeCorrect == AuthSpec => []AuthTypeOK
<1>1. AuthInv => AuthTypeOK
  <2> SUFFICES ASSUME AuthInv PROVE AuthTypeOK
    OBVIOUS
  <2>1. DOMAIN requests = Request
    BY DEF AuthInv, TablesOK
  <2>2. ASSUME NEW r \in Request, NEW q, q = requests[r]
        PROVE  /\ q.pc \in Pc /\ q.seen \subseteq Facts /\ DOMAIN q = DOMAIN Idle
               /\ q.pc # "idle" => q.app \in App
               /\ q.pc = "evaluating" => q.wallet \in Wallet
    <3>1. q \in RequestRow /\ Earned(q, q.seen)
      BY <2>2 DEF AuthInv, TablesOK, RequestsEarned
    <3>2. DOMAIN q = DOMAIN Idle
      BY <3>1 DEF RequestRow, Idle
    <3>3. QED
      BY <3>1, <3>2 DEF RequestRow, Earned
  <2>3. \A c \in Request : codes[c].row # "none" => codes[c].redirect \in Url /\ codes[c].app \in App
    BY DEF AuthInv, Linked, Consented
  <2>4. QED
    BY <2>1, <2>2, <2>3 DEF AuthTypeOK, AuthInv, TablesOK
<1>2. QED
  BY <1>1, AuthInitInv, AuthNextInv, PTL DEF AuthSpec

(* Claims, revalidations and consent forms are earned, whatever the        *)
(* administrators and the chain do between the steps of the request, and   *)
(* however many requests race: a code links the exchange that redeemed it  *)
(* to the approval it was issued by.                                       *)
THEOREM ClaimsAreEarned == AuthSpec => []ClaimsEarned
<1>1. AuthInv => ClaimsEarned
  <2> SUFFICES ASSUME AuthInv, NEW r \in Request, requests[r].pc = "done"
               PROVE  LET q == requests[r]  g == codes[q.code]  consent == requests[q.code] IN
                      /\ q.kind = "exchange" =>
                           /\ q.seen = Facts
                           /\ g.app = q.app /\ g.redirect = q.redirect /\ g.expiresAt > q.usedAt
                           /\ consent.kind = "approve" /\ consent.app = q.app
                           /\ consent.wallet = q.wallet /\ consent.redirect = q.redirect
                           /\ {"active", "callback", "granted"} \subseteq consent.seen
                      /\ q.kind = "verify" => {"active", "secret", "granted"} \subseteq q.seen
                      /\ q.kind = "page" => {"active", "callback", "granted"} \subseteq q.seen
    BY DEF ClaimsEarned
  <2>1. PICK q : q = requests[r]
    OBVIOUS
  <2>2. q.seen \subseteq Facts /\ Earned(q, q.seen) /\ Used(q)
    BY <2>1 DEF AuthInv, TablesOK, RequestRow, RequestsEarned, Linked
  <2>3. /\ "active" \in q.seen /\ "granted" \in q.seen
        /\ ofBrowser(q) \/ "secret" \in q.seen
        /\ q.kind # "verify" => "callback" \in q.seen
        /\ q.wallet \in Wallet
    BY <2>1, <2>2 DEF Earned, Admitted
  <2>4. q.kind \in {"exchange", "verify"} => "secret" \in q.seen
    BY <2>3 DEF ofBrowser
  <2>5. q.kind = "exchange" => q.seen = Facts
    BY <2>2, <2>3, <2>4 DEF Facts
  <2>6. ASSUME q.kind = "exchange"
        PROVE  LET g == codes[q.code]  consent == requests[q.code] IN
               /\ g.app = q.app /\ g.redirect = q.redirect /\ g.expiresAt > q.usedAt
               /\ consent.kind = "approve" /\ consent.app = q.app
               /\ consent.wallet = q.wallet /\ consent.redirect = q.redirect
               /\ {"active", "callback", "granted"} \subseteq consent.seen
    <3>1. Redeemed(q)
      BY <2>3, <2>6, AuthorizationAssumption DEF Redeemed
    <3>2. PICK c \in Request : c = q.code
      BY <2>2, <3>1 DEF Used
    <3>3. /\ codes[c].row # "none" /\ codes[c].app = q.app /\ codes[c].redirect = q.redirect
          /\ codes[c].wallet = q.wallet /\ codes[c].expiresAt > q.usedAt
      BY <2>1, <2>2, <3>1, <3>2 DEF Used
    <3>4. /\ requests[c].kind = "approve" /\ codes[c].app = requests[c].app
          /\ codes[c].redirect = requests[c].redirect /\ codes[c].wallet = requests[c].wallet
          /\ {"active", "callback", "granted"} \subseteq requests[c].seen
      BY <3>3 DEF AuthInv, Linked, Consented
    <3>5. QED
      BY <3>2, <3>3, <3>4
  <2>7. QED
    BY <2>1, <2>3, <2>4, <2>5, <2>6
<1>2. QED
  BY <1>1, AuthInitInv, AuthNextInv, PTL DEF AuthSpec

(* No browser is sent, with a code or with an error, anywhere but where a  *)
(* callback of the application pointed while it was asking.                *)
THEOREM RedirectsAreRegistered == AuthSpec => []RedirectsRegistered
<1>1. AuthInv => RedirectsRegistered
  <2> SUFFICES ASSUME AuthInv, NEW r \in Request, leadsTo(requests[r]) \cap Url # {}
               PROVE  {"active", "callback"} \subseteq requests[r].seen
    BY DEF RedirectsRegistered
  <2>1. Earned(requests[r], requests[r].seen) /\ requests[r] \in RequestRow
    BY DEF AuthInv, TablesOK, RequestsEarned
  <2>2. requests[r].kind \in {"page", "approve"} /\ requests[r].pc \in {"done", "denied"}
    BY <2>1, AuthorizationAssumption DEF leadsTo, SignInCard, RejectionCard, RequestRow, Pc
  <2>3. QED
    BY <2>1, <2>2 DEF Earned, Admitted
<1>2. QED
  BY <1>1, AuthInitInv, AuthNextInv, PTL DEF AuthSpec

(* Authorization codes are one-time grants: Authorization implements       *)
(* OneTimeGrant, so of the exchanges that race for a code at most one is   *)
(* served, whatever the purge, lost answers and the registry do.           *)
THEOREM CodesRefineGrants == AuthSpec => CodesAreOneTimeGrants
<1>1. AuthInit => Codes!Init
  <2> SUFFICES ASSUME AuthInit PROVE Codes!Init
    OBVIOUS
  <2>1. \A c \in Request : gate(c) = "unissued"
    BY DEF AuthInit, gate, NoGrant
  <2>2. \A c \in Request : redeemers(c) = {}
    BY DEF AuthInit, redeemers, Idle
  <2>3. QED
    BY <2>1, <2>2 DEF Codes!Init, gate
<1>2. GrantStep => [Codes!Next]_Codes!grantVars
  BY DEF GrantStep, states, winners, gate, Codes!Next, Codes!Issue, Codes!Redeem,
         Codes!Drop, Codes!grantVars
<1>3. QED
  BY <1>1, <1>2, AuthInitInv, AuthNextInv, PTL DEF AuthSpec, CodesAreOneTimeGrants, Codes!Spec
=============================================================================
