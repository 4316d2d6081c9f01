------------------------------ MODULE Authorization ------------------------------
(***************************************************************************)
(* Sign in with owneX: app/authorize/page.tsx asks for consent,            *)
(* app/api/authorize/approve issues a code, the code is exchanged for      *)
(* claims by app/api/authorize/exchange, and app/api/roles/verify answers  *)
(* a partner who asks again later. Each is a request whose steps are       *)
(* separated by awaits; administrators' statements on the application,     *)
(* transactions on the chain and other requests run in between.            *)
(*                                                                         *)
(* The registry moves here one statement at a time (ApplicationRegistry    *)
(* has the requests those statements belong to), and an evaluation of live *)
(* access is what LiveAccess shows of it: it may refuse at any time, and   *)
(* allows only what the chain allowed at some instant since it began.      *)
(* Which callback a redirect_uri names is decided by CallbackAllowlist.    *)
(***************************************************************************)
EXTENDS CallbackAllowlist, FiniteSets

CONSTANTS
  App,        \* applications, each of one organization and with a client_id
  Url,        \* the redirect_uris that are requested or registered
  NodeEnv,    \* callbackMode(): "development" or "production"
  Wallet,
  Request,    \* requests; the code an approval issues is named after it
  None,       \* null
  CodeTTL,    \* AUTHORIZATION_CODE_TTL_MS
  PurgeGrace, \* purge_expired_authorization_codes' one hour
  MaxTime,    \* bound: the last instant
  MaxOf,      \* bound: how many of the requests are of a kind
  MaxMoves    \* bound: statements on the registry and turns of the chain

ASSUME AuthorizationAssumption ==
  /\ None \notin App \cup Url \cup Wallet \cup Request
  /\ NodeEnv \in Mode /\ \A u \in Url : isUri(u)
  /\ MaxOf \in [{"page", "approve", "exchange", "verify"} -> Nat]
  /\ CodeTTL \in Nat \ {0} /\ PurgeGrace \in Nat /\ MaxTime \in Nat /\ MaxMoves \in Nat

VARIABLES
  apps,     \* tables applications and application_callbacks
  chain,    \* whether the chain lets a wallet into an application
  codes,    \* table authorization_codes
  requests, \* the requests and how far they are
  clock,
  moves     \* counts towards MaxMoves

authVars == <<apps, chain, codes, requests, clock, moves>>

Registrable == {u \in Url : validateRegistrableCallback(u, NodeEnv) = "ok"}

(* secret counts the rotations, so nobody holds a secret of the future. A  *)
(* draft passes the checks on the status as an active application does.    *)
Application == [status : {"active", "revoked"}, secret : Nat, callbacks : SUBSET Registrable]

Grant == [row : {"none", "unused", "used", "purged"}, app : App \cup {None},
          wallet : Wallet \cup {None}, redirect : Url \cup {None}, expiresAt : Nat]

NoGrant == [row |-> "none", app |-> None, wallet |-> None, redirect |-> None, expiresAt |-> 0]

(* "refused" is a plain error response or a card without a way back,       *)
(* "denied" redirects or links to the callback, "done" is a code, claims,  *)
(* allowed: true or the consent form, and "signIn" the page of a visitor   *)
(* without a session.                                                      *)
Pc == {"idle", "row", "callbacks", "slug", "consume", "evaluating", "issue",
       "done", "denied", "refused", "signIn"}

(* seen is history: which of these facts held at some instant since the    *)
(* request began; "granted" since its evaluation began.                    *)
Facts == {"active", "secret", "callback", "granted"}

Idle == [pc |-> "idle", kind |-> None, app |-> None, secret |-> 0, code |-> None,
         redirect |-> None, wallet |-> None, usedAt |-> 0, seen |-> {}]

AuthTypeOK ==
  /\ apps \in [App -> Application]
  /\ chain \in [App -> [Wallet -> BOOLEAN]]
  /\ codes \in [Request -> Grant]
  /\ DOMAIN requests = Request
  /\ \A r \in Request :
       LET q == requests[r] IN
       /\ q.pc \in Pc /\ q.seen \subseteq Facts /\ DOMAIN q = DOMAIN Idle
       /\ q.pc # "idle" => q.app \in App
       /\ q.pc = "evaluating" => q.wallet \in Wallet
  /\ \A c \in Request : codes[c].row # "none" => codes[c].redirect \in Url /\ codes[c].app \in App
  /\ clock \in Nat

AuthInit ==
  /\ apps = [p \in App |-> [status |-> "active", secret |-> 0, callbacks |-> Registrable]]
  /\ chain = [p \in App |-> [w \in Wallet |-> TRUE]]
  /\ codes = [c \in Request |-> NoGrant]
  /\ requests = [r \in Request |-> Idle]
  /\ clock = 1
  /\ moves = 0

-----------------------------------------------------------------------------
(* What a request could have seen, and its steps.                          *)

running(q) == q.pc \notin {"idle", "done", "denied", "refused", "signIn"}

(* The consent page and its form act for the wallet of the browser's       *)
(* session; the other two for whoever has a client secret.                 *)
ofBrowser(q) == q.kind \in {"page", "approve"}

holds(q, as, ch) ==
  LET a == as[q.app] IN
  {f \in Facts :
     CASE f = "active"   -> a.status = "active"
       [] f = "secret"   -> a.secret = q.secret
       [] f = "callback" -> q.redirect \in a.callbacks
       [] f = "granted"  -> q.pc = "evaluating" /\ ch[q.app][q.wallet]}

(* Of a refused request nothing is remembered but whether it used up a     *)
(* code.                                                                   *)
observed(q, as, ch) ==
  IF q.pc \in {"refused", "signIn"}
  THEN [Idle EXCEPT !.pc = q.pc, !.kind = q.kind, !.app = q.app, !.code = q.code, !.wallet = q.wallet]
  ELSE [q EXCEPT !.seen = @ \cup holds(q, as, ch)]

step(r, q) ==
  /\ requests' = [requests EXCEPT ![r] = observed(q, apps, chain)]
  /\ UNCHANGED <<apps, chain, clock, moves>>

goto(r, pc) == step(r, [requests[r] EXCEPT !.pc = pc])

begin(r, q) ==
  /\ requests[r].pc = "idle"
  /\ Cardinality({v \in Request : requests[v].kind = q.kind}) < MaxOf[q.kind]
  /\ step(r, q)
  /\ UNCHANGED codes

(* The browser is sent to the consent page, by anybody; the checks up to   *)
(* the callback are those of the approval that may follow.                 *)
AuthorizePage(r, p, u, w) ==
  begin(r, [Idle EXCEPT !.pc = "row", !.kind = "page", !.app = p, !.redirect = u, !.wallet = w])

(* The browser submits the consent form; w is the wallet of its session.   *)
approve(r, p, u, w) ==
  begin(r, [Idle EXCEPT !.pc = "row", !.kind = "approve", !.app = p, !.redirect = u, !.wallet = w])

(* Anybody who got hold of a code and a client secret.                     *)
exchange(r, p, secret, c, u) ==
  /\ codes[c].row # "none"
  /\ begin(r, [Idle EXCEPT !.pc = "row", !.kind = "exchange", !.app = p, !.secret = secret,
                           !.code = c, !.redirect = u])

verify(r, p, secret, w) ==
  begin(r, [Idle EXCEPT !.pc = "row", !.kind = "verify", !.app = p, !.secret = secret, !.wallet = w])

(* The checks on the row: the application is not revoked and, where a      *)
(* client has to show one, the secret verifies.                            *)
rowRefused(q, a) ==
  \/ a.status = "revoked"
  \/ ~ofBrowser(q) /\ a.secret # q.secret

findApplicationByClientId(r) ==
  LET q == requests[r] IN
  /\ q.pc = "row"
  /\ goto(r, IF rowRefused(q, apps[q.app]) THEN "refused"
             ELSE IF q.kind = "verify" THEN "slug" ELSE "callbacks")
  /\ UNCHANGED codes

(* What comes after the callback: the code is used, the chain is asked, or *)
(* the browser has nobody signed in (SignInCard, which leads nowhere but   *)
(* to owneX, and a redirect with an error).                                *)
afterCallback(q) ==
  CASE q.kind = "exchange"                  -> "consume"
    [] q.wallet = None /\ q.kind = "page"    -> "signIn"
    [] q.wallet = None /\ q.kind = "approve" -> "denied"
    [] OTHER                                -> "evaluating"

readCallbacks(p) == apps[p].callbacks

resolveCallback_requested(r) == \* mutant: the answer goes where the request asks
  LET q == requests[r]
      check == checkCallback("active", readCallbacks(q.app), q.redirect, NodeEnv)
  IN
  /\ q.pc = "callbacks"
  /\ IF check.reason = "ok"
     THEN step(r, [q EXCEPT !.pc = afterCallback(q), !.usedAt = IF q.kind = "exchange" THEN clock ELSE 0])
     ELSE goto(r, "refused")
  /\ UNCHANGED codes

(* checkCallback: from here on the request stands for the registered URL,  *)
(* not for what it submitted. The status was read with the row. The time   *)
(* an exchange compares with the deadline is taken here, before the        *)
(* statement that compares it.                                             *)
resolveCallback(r) ==
  LET q == requests[r]
      check == checkCallback("active", readCallbacks(q.app), q.redirect, NodeEnv)
  IN
  /\ q.pc = "callbacks"
  /\ IF check.reason = "ok"
     THEN step(r, [q EXCEPT !.pc = afterCallback(q), !.redirect = check.registered,
                            !.usedAt = IF q.kind = "exchange" THEN clock ELSE 0])
     ELSE goto(r, "refused")
  /\ UNCHANGED codes

(* roles/verify reads the application again, by its slug.                  *)
findApplicationBySlug(r) ==
  /\ requests[r].pc = "slug"
  /\ goto(r, IF apps[requests[r].app].status = "revoked" THEN "refused" ELSE "evaluating")
  /\ UNCHANGED codes

(* WHERE code, client_id, redirect_uri, used_at IS NULL, expires_at > now. *)
matches(q, g) ==
  /\ g.row = "unused"
  /\ g.app = q.app /\ g.redirect = q.redirect
  /\ g.expiresAt > q.usedAt

consume_readOnly(r) == \* mutant: the code is looked up and left as it is
  LET q == requests[r]  g == codes[q.code] IN
  /\ q.pc = "consume"
  /\ IF matches(q, g)
     THEN step(r, [q EXCEPT !.pc = "evaluating", !.wallet = g.wallet])
     ELSE goto(r, "refused")
  /\ UNCHANGED codes

consume_carriedClaims(r) == \* mutant: the claims of the approval are handed out
  LET q == requests[r]  g == codes[q.code] IN
  /\ q.pc = "consume"
  /\ IF matches(q, g)
     THEN /\ codes' = [codes EXCEPT ![q.code].row = "used"]
          /\ step(r, [q EXCEPT !.pc = "done", !.wallet = g.wallet])
     ELSE goto(r, "refused") /\ UNCHANGED codes

(* One conditional UPDATE that returns the row it changed. Access is read  *)
(* after it.                                                               *)
consume(r) ==
  LET q == requests[r]  g == codes[q.code] IN
  /\ q.pc = "consume"
  /\ IF matches(q, g)
     THEN /\ codes' = [codes EXCEPT ![q.code].row = "used"]
          /\ step(r, [q EXCEPT !.pc = "evaluating", !.wallet = g.wallet])
     ELSE goto(r, "refused") /\ UNCHANGED codes

(* The update is committed and its answer is lost: 503, the code is burnt. *)
consumeUnheard(r) ==
  LET q == requests[r] IN
  /\ q.pc = "consume"
  /\ matches(q, codes[q.code])
  /\ codes' = [codes EXCEPT ![q.code].row = "used"]
  /\ goto(r, "refused")

(* evaluateLiveAccess allows.                                              *)
allow(r) ==
  LET q == requests[r] IN
  /\ q.pc = "evaluating"
  /\ "granted" \in q.seen
  /\ goto(r, IF q.kind = "approve" THEN "issue" ELSE "done")
  /\ UNCHANGED codes

(* Where an error takes a request: an approval that knows the callback     *)
(* redirects there and the page has a link back to it (DenialCard, or a    *)
(* RejectionCard with backTo); the others answer, and a page that knows no *)
(* callback has a RejectionCard without.                                   *)
failure(q) == IF ofBrowser(q) /\ q.pc \in {"evaluating", "issue"} THEN "denied" ELSE "refused"

(* The evaluation denies or the chain is unavailable, or a statement fails *)
(* without effect.                                                         *)
fail(r) ==
  /\ running(requests[r])
  /\ goto(r, failure(requests[r]))
  /\ UNCHANGED codes

(* Where an answer takes the browser, None being owneX's own pages: the    *)
(* links of the card the page shows and of the form's Cancel, and the      *)
(* redirects of an approval.                                               *)
SignInCard == {None}
RejectionCard(backTo) == {None} \cup backTo
DenialCard(denyHref) == {denyHref}

leadsTo(q) ==
  CASE q.kind = "page" /\ q.pc = "signIn" -> SignInCard
    [] q.kind = "page" /\ q.pc = "refused" -> RejectionCard({})
    [] q.kind = "page" /\ q.pc = "denied"  -> DenialCard(q.redirect) \cup RejectionCard({q.redirect})
    [] q.kind = "page" /\ q.pc = "done"    -> {q.redirect}
    [] q.kind = "approve" /\ q.pc \in {"done", "denied"} -> {q.redirect}
    [] OTHER -> {}

issued(q) == [row |-> "unused", app |-> q.app, wallet |-> q.wallet, redirect |-> q.redirect,
              expiresAt |-> clock + CodeTTL]

(* The insert, heard of or not.                                            *)
issueAuthorizationCode(r) ==
  LET q == requests[r] IN
  /\ q.pc = "issue"
  /\ codes' = [codes EXCEPT ![r] = issued(q)]
  /\ goto(r, "done") \/ goto(r, "denied")

purge_expired_authorization_codes ==
  /\ codes' = [c \in Request |->
                 IF codes[c].row \in {"unused", "used"} /\ codes[c].expiresAt + PurgeGrace < clock
                 THEN [codes[c] EXCEPT !.row = "purged"] ELSE codes[c]]
  /\ UNCHANGED <<apps, chain, requests, clock, moves>>

-----------------------------------------------------------------------------
(* The world around the requests.                                          *)

world(as, ch) ==
  /\ moves < MaxMoves
  /\ moves' = moves + 1
  /\ apps' = as
  /\ chain' = ch
  /\ requests' = [r \in Request |-> IF running(requests[r]) THEN observed(requests[r], as, ch)
                                              ELSE requests[r]]
  /\ UNCHANGED <<codes, clock>>

(* One statement of an administrator's request.                            *)
registryMoves ==
  \E p \in App :
    \E a \in {[apps[p] EXCEPT !.status = s] : s \in {"active", "revoked"}}
             \cup {[apps[p] EXCEPT !.secret = @ + 1]}
             \cup {[apps[p] EXCEPT !.callbacks = {}]}
             \cup {[apps[p] EXCEPT !.callbacks = @ \cup us] : us \in SUBSET Registrable} :
      /\ a # apps[p]
      /\ world([apps EXCEPT ![p] = a], chain)

(* An identity is revoked, a membership lapses or is restored...           *)
chainMoves ==
  \E p \in App, w \in Wallet : world(apps, [chain EXCEPT ![p][w] = ~@])

Tick ==
  /\ clock < MaxTime
  /\ clock' = clock + 1
  /\ UNCHANGED <<apps, chain, codes, requests, moves>>

requestStep(r) ==
  \/ findApplicationByClientId(r)
  \/ resolveCallback(r)
  \/ findApplicationBySlug(r)
  \/ consume(r)
  \/ consumeUnheard(r)
  \/ allow(r)
  \/ issueAuthorizationCode(r)
  \/ fail(r)

AuthNext ==
  \/ \E r \in Request, p \in App :
       \/ \E u \in Url, w \in Wallet \cup {None} : AuthorizePage(r, p, u, w) \/ approve(r, p, u, w)
       \/ \E s \in 0..apps[p].secret, c \in Request, u \in Url : exchange(r, p, s, c, u)
       \/ \E s \in 0..apps[p].secret, w \in Wallet : verify(r, p, s, w)
  \/ \E r \in Request : requestStep(r)
  \/ purge_expired_authorization_codes
  \/ registryMoves
  \/ chainMoves
  \/ Tick

AuthSpec == AuthInit /\ [][AuthNext]_authVars

-----------------------------------------------------------------------------
(* What is promised.                                                       *)

(* The exchanges whose update returned the row of a code.                  *)
redeemers(c) == {r \in Request : requests[r].kind = "exchange" /\ requests[r].code = c
                                   /\ requests[r].wallet # None}

Codes == INSTANCE OneTimeGrant WITH
  Grant    <- Request,
  Redeemer <- Request,
  state    <- [c \in Request |-> CASE codes[c].row = "none"   -> "unissued"
                                   [] codes[c].row = "unused" -> "live"
                                   [] OTHER                   -> "over"],
  served   <- [c \in Request |-> redeemers(c)]

(* An authorization code is a one-time grant: "Consumed atomically so a    *)
(* replay cannot succeed", whichever exchanges present it and however the  *)
(* purge, lost answers and the deadline fall between their steps.          *)
CodesAreOneTimeGrants == Codes!Spec

(* Claims are earned. A partner that got claims presented, for an          *)
(* application that was not revoked, a secret and a callback that were     *)
(* good while it asked; the code was issued to that very application for   *)
(* that callback, on the consent of the wallet the claims are about, while *)
(* the chain allowed it; it was not expired; and the chain allowed the     *)
(* wallet again after the code was used up, so "an identity revoked in the *)
(* seconds since consent cannot complete a sign-in". A revalidation that   *)
(* answers allowed does so for an application that was not revoked, to a   *)
(* client whose secret was good, about a wallet the chain allowed, each    *)
(* while it was asking. And a form with an approve button was shown for a  *)
(* registered callback of an application that was not revoked, to a wallet *)
(* the chain allowed: "An RPC failure renders "cannot verify" - never an   *)
(* approve button".                                                        *)
ClaimsEarned ==
  \A r \in Request :
    LET q == requests[r]  g == codes[q.code]  consent == requests[q.code] IN
    q.pc = "done" =>
      /\ q.kind = "exchange" =>
           /\ q.seen = Facts
           /\ g.app = q.app /\ g.redirect = q.redirect /\ g.expiresAt > q.usedAt
           /\ consent.kind = "approve" /\ consent.app = q.app
           /\ consent.wallet = q.wallet /\ consent.redirect = q.redirect
           /\ {"active", "callback", "granted"} \subseteq consent.seen
      /\ q.kind = "verify" => {"active", "secret", "granted"} \subseteq q.seen
      /\ q.kind = "page" => {"active", "callback", "granted"} \subseteq q.seen

(* "The redirect target is always the REGISTERED callback": an approval    *)
(* sends the browser, with a code or with an error, and a page links back, *)
(* only where the application's callbacks pointed while it ran, and        *)
(* nowhere at all for an application that was revoked throughout.          *)
RedirectsRegistered ==
  \A r \in Request :
    leadsTo(requests[r]) \cap Url # {} =>
      {"active", "callback"} \subseteq requests[r].seen
=============================================================================
