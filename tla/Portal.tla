--------------------------------- MODULE Portal ---------------------------------
(***************************************************************************)
(* The employee portal, a partner that signs its users in with owneX. It   *)
(* keeps nothing but a sealed cookie per browser (lib/session.ts). A       *)
(* request carries the cookie the browser has when it is sent, and its     *)
(* response replaces that cookie whole when it arrives, so requests of one *)
(* browser that overlap do not see each other's writes, and responses may  *)
(* arrive in any order or not at all.                                      *)
(*                                                                         *)
(* owneX is what Authorization shows of it: a code is issued on the        *)
(* consent of a wallet the chain allows, it redeems once, and claims and   *)
(* revalidations are given only while the chain allows the wallet. Its     *)
(* consent page takes the state from the link, in whatever browser that is *)
(* opened and with whichever wallet is signed in there.                    *)
(***************************************************************************)
EXTENDS Naturals

CONSTANTS
  Browser,
  Wallet,
  Request,  \* requests to the portal; the state a login draws is named after it
  Consent,  \* visits to owneX's consent page; the code one issues is named after it
  None,     \* undefined
  StateTTL, \* the five minutes a state lives
  MaxTime,  \* bound: the last instant
  MaxMoves  \* bound: turns of the chain

ASSUME PortalAssumption ==
  /\ None \notin Wallet \cup Request \cup Consent \cup Browser
  /\ None \notin {"login", "callback", "dashboard", "assets"}
  /\ StateTTL \in Nat /\ MaxTime \in Nat /\ MaxMoves \in Nat

VARIABLES
  jar,      \* the portal's cookie in each browser
  requests,
  consents, \* what owneX's consent page answered, and whether the code is used up
  allowed,  \* the wallets the chain lets into the portal
  spent,    \* history: states a callback of which was answered in the browser
  clock,
  moves     \* counts towards MaxMoves

portalVars == <<jar, requests, consents, allowed, spent, clock, moves>>

(* PortalSession. orgId and verifiedAt go with the wallet.                 *)
PortalSession == [wallet : Wallet \cup {None}, state : Request \cup {None}, stateExpires : Nat]

Empty == [wallet |-> None, state |-> None, stateExpires |-> 0]

(* "answered" is a response on its way with the cookie it sets; "rendered" *)
(* and "listed" are pages, the second with the assets in it.               *)
Pc == {"idle", "received", "exchange", "answered", "done", "verify", "list",
       "rendered", "listed", "denied"}

(* granted is history: the chain allowed the wallet at some instant since  *)
(* the evaluation the request waits for, or was last answered by, began.   *)
Unsent == [kind |-> None, pc |-> "idle", browser |-> None, cookie |-> Empty, state |-> None,
           code |-> None, spent |-> {}, granted |-> FALSE]

NoConsent == [row |-> "none", state |-> None, wallet |-> None]

PortalTypeOK ==
  /\ jar \in [Browser -> PortalSession]
  /\ requests \in
       [Request -> [kind : {None, "login", "callback", "dashboard", "assets"}, pc : Pc,
                    browser : Browser \cup {None}, cookie : PortalSession,
                    state : Request \cup {None}, code : Consent \cup {None},
                    spent : SUBSET Request, granted : BOOLEAN]]
  /\ consents \in [Consent -> [row : {"none", "error", "live", "over"}, state : Request \cup {None},
                               wallet : Wallet \cup {None}]]
  /\ allowed \in SUBSET Wallet
  /\ spent \in [Browser -> SUBSET Request]
  /\ clock \in Nat /\ moves \in Nat

PortalInit ==
  /\ jar = [b \in Browser |-> Empty]
  /\ requests = [r \in Request |-> Unsent]
  /\ consents = [c \in Consent |-> NoConsent]
  /\ allowed = Wallet
  /\ spent = [b \in Browser |-> {}]
  /\ clock = 1
  /\ moves = 0

-----------------------------------------------------------------------------
(* Requests.                                                               *)

send(r, q) ==
  /\ requests[r].pc = "idle"
  /\ requests' = [requests EXCEPT ![r] = q]
  /\ UNCHANGED <<jar, consents, allowed, spent, clock, moves>>

goto(r, q) ==
  /\ requests' = [requests EXCEPT ![r] = q]
  /\ UNCHANGED <<jar, allowed, spent, clock, moves>>

login_keepsWallet(r, b) == \* mutant: a state is added to the session that is there
  send(r, [Unsent EXCEPT !.kind = "login", !.pc = "answered", !.browser = b,
             !.cookie = [jar[b] EXCEPT !.state = r, !.stateExpires = clock + StateTTL]])

(* GET /api/login: every field of the session is given a new value.        *)
login(r, b) ==
  send(r, [Unsent EXCEPT !.kind = "login", !.pc = "answered", !.browser = b,
             !.cookie = [wallet |-> None, state |-> r, stateExpires |-> clock + StateTTL]])

(* The browser follows a redirect of the consent page, or opens a link     *)
(* somebody passed on, or opens either again.                              *)
callback(r, b, c) ==
  /\ consents[c].row # "none"
  /\ send(r, [Unsent EXCEPT !.kind = "callback", !.pc = "received", !.browser = b,
                !.cookie = jar[b], !.spent = spent[b], !.state = consents[c].state,
                !.code = IF consents[c].row = "error" THEN None ELSE c])

(* The session as the first save of the callback leaves it.                *)
withoutState(store) == [store EXCEPT !.state = None, !.stateExpires = 0]

statesMatch(q) == q.state # None /\ q.cookie.state = q.state /\ q.cookie.stateExpires >= clock

checkState_any(r) == \* mutant: some pending state will do
  LET q == requests[r] IN
  /\ q.pc = "received"
  /\ goto(r, [q EXCEPT !.cookie = withoutState(@),
                       !.pc = IF q.cookie.state # None /\ q.code # None THEN "exchange" ELSE "answered"])
  /\ UNCHANGED consents

checkState_deniedKeeps(r) == \* mutant: the state is cleared where it is used
  LET q == requests[r] IN
  /\ q.pc = "received"
  /\ goto(r, [q EXCEPT !.pc = IF statesMatch(q) /\ q.code # None THEN "exchange" ELSE "answered"])
  /\ UNCHANGED consents

(* GET /api/callback up to the exchange. The state is taken out of the     *)
(* session before anything is looked at, and stays out if that is a denial.*)
checkState(r) ==
  LET q == requests[r] IN
  /\ q.pc = "received"
  /\ goto(r, [q EXCEPT !.cookie = withoutState(@),
                       !.pc = IF statesMatch(q) /\ q.code # None THEN "exchange" ELSE "answered"])
  /\ UNCHANGED consents

(* owneX redeems the code: the claims name the wallet that consented.      *)
exchange(r) ==
  LET q == requests[r]  c == consents[q.code] IN
  /\ q.pc = "exchange"
  /\ c.row = "live" /\ c.wallet \in allowed
  /\ consents' = [consents EXCEPT ![q.code].row = "over"]
  /\ goto(r, [q EXCEPT !.cookie.wallet = c.wallet, !.pc = "answered"])

(* owneX refuses, cannot be reached, or its answer is lost with the code   *)
(* used up: the redirect to /denied carries the session without its state. *)
exchangeFails(r) ==
  LET q == requests[r] IN
  /\ q.pc = "exchange"
  /\ consents' \in {consents, [consents EXCEPT ![q.code].row = "over"]}
  /\ goto(r, [q EXCEPT !.pc = "answered"])

(* The browser stores the cookie of a response, in the order they come.    *)
(* Of the request nothing is left but that it was made.                    *)
arrive(r) ==
  LET q == requests[r]  b == q.browser IN
  /\ q.pc = "answered"
  /\ jar' = [jar EXCEPT ![b] = q.cookie]
  /\ spent' = [spent EXCEPT ![b] = IF q.kind = "callback" THEN @ \cup {q.state} ELSE @]
  /\ requests' = [requests EXCEPT ![r] = [Unsent EXCEPT !.kind = q.kind, !.pc = "done", !.browser = b]]
  /\ UNCHANGED <<consents, allowed, clock, moves>>

(* A page of the browser's session. Without a wallet it is the front page. *)
open(r, b, page) ==
  /\ jar[b].wallet # None
  /\ send(r, [Unsent EXCEPT !.kind = page, !.pc = "verify", !.browser = b, !.cookie = jar[b],
                            !.granted = jar[b].wallet \in allowed])

verifyAccess_open(r) == \* mutant: an owneX that cannot be reached does not stop the page
  LET q == requests[r] IN
  /\ q.pc = "verify"
  /\ goto(r, IF q.kind = "assets" THEN [q EXCEPT !.pc = "list", !.granted = q.cookie.wallet \in allowed]
                                  ELSE [q EXCEPT !.pc = "rendered"])
  /\ UNCHANGED consents

(* roles/verify answers that the wallet is allowed: the dashboard is       *)
(* rendered, the assets page goes on to /api/portal/assets.                *)
verifyAccess(r) ==
  LET q == requests[r] IN
  /\ q.pc = "verify" /\ q.granted
  /\ goto(r, IF q.kind = "assets" THEN [q EXCEPT !.pc = "list", !.granted = q.cookie.wallet \in allowed]
                                  ELSE [q EXCEPT !.pc = "rendered"])
  /\ UNCHANGED consents

(* /api/portal/assets evaluates access anew before it reads the assets.    *)
listAssets(r) ==
  /\ requests[r].pc = "list" /\ requests[r].granted
  /\ goto(r, [requests[r] EXCEPT !.pc = "listed"])
  /\ UNCHANGED consents

(* Refused or unreachable: /denied, or the page with an empty list.        *)
pageFails(r) ==
  LET q == requests[r] IN
  /\ q.pc \in {"verify", "list"}
  /\ goto(r, [q EXCEPT !.pc = IF q.pc = "verify" THEN "denied" ELSE "rendered"])
  /\ UNCHANGED consents

-----------------------------------------------------------------------------
(* The world around the portal.                                            *)

(* The consent page, by the link a login led to: in that login's browser   *)
(* or where the link was passed on, a wallet that is signed in to owneX    *)
(* there agrees, or an error comes back. The state is handed through.      *)
consent(c, l) ==
  /\ consents[c].row = "none"
  /\ requests[l].kind = "login" /\ requests[l].pc = "done"
  /\ \/ \E w \in allowed : consents' = [consents EXCEPT ![c] = [row |-> "live", state |-> l, wallet |-> w]]
     \/ consents' = [consents EXCEPT ![c] = [row |-> "error", state |-> l, wallet |-> None]]
  /\ UNCHANGED <<jar, requests, allowed, spent, clock, moves>>

(* A wallet is revoked or let in again; whoever waits for an evaluation    *)
(* may be answered by a read before or after.                              *)
chainMoves(w) ==
  /\ moves < MaxMoves
  /\ moves' = moves + 1
  /\ allowed' = (allowed \cup {w}) \ (allowed \cap {w})
  /\ requests' = [r \in Request |->
       LET q == requests[r] IN
       [q EXCEPT !.granted = @ \/ (q.pc \in {"verify", "list"} /\ q.cookie.wallet \in allowed')]]
  /\ UNCHANGED <<jar, consents, spent, clock>>

(* The cookie ends: its eight hours are over, or the user removes it.      *)
forget(b) ==
  /\ jar[b] # Empty
  /\ jar' = [jar EXCEPT ![b] = Empty]
  /\ UNCHANGED <<requests, consents, allowed, spent, clock, moves>>

Tick ==
  /\ clock < MaxTime
  /\ clock' = clock + 1
  /\ UNCHANGED <<jar, requests, consents, allowed, spent, moves>>

PortalNext ==
  \/ \E r \in Request, b \in Browser :
       \/ login(r, b)
       \/ \E c \in Consent : callback(r, b, c)
       \/ \E page \in {"dashboard", "assets"} : open(r, b, page)
  \/ \E r \in Request :
       \/ checkState(r)
       \/ exchange(r)
       \/ exchangeFails(r)
       \/ arrive(r)
       \/ verifyAccess(r)
       \/ listAssets(r)
       \/ pageFails(r)
  \/ \E c \in Consent, l \in Request : consent(c, l)
  \/ \E w \in Wallet : chainMoves(w)
  \/ \E b \in Browser : forget(b)
  \/ Tick

PortalSpec == PortalInit /\ [][PortalNext]_portalVars

-----------------------------------------------------------------------------
(* What the portal promises.                                               *)

(* Wallet w agreed to a login that browser b started, and the code it gave *)
(* for that is used up.                                                    *)
signedIn(b, w) ==
  \E c \in Consent :
    /\ consents[c].row = "over" /\ consents[c].wallet = w
    /\ requests[consents[c].state].kind = "login"
    /\ requests[consents[c].state].browser = b

(* No browser is signed in with a consent that was given to another's      *)
(* login. The wallet of a browser's session agreed to a login this very    *)
(* browser started - in whatever browser it did so, whatever callbacks are *)
(* opened where, however requests overlap and in whichever order their     *)
(* cookies come back.                                                      *)
SessionEarned == \A b \in Browser : jar[b].wallet # None => signedIn(b, jar[b].wallet)

(* "Single use: clear it whatever happens next": once a callback with a    *)
(* state was answered in a browser, with a sign-in or with a denial, no    *)
(* callback sent from there later gets past the check with it, also when   *)
(* responses to logins and other callbacks were still to come.             *)
StateSpentOnce == \A r \in Request : requests[r].pc = "exchange" => requests[r].state \notin requests[r].spent

(* "A revocation appears on the very next request": a page that is         *)
(* rendered, and a list of assets, is for a wallet that the chain allowed  *)
(* at an instant while that page waited for just this evaluation, and that *)
(* agreed to a login of the browser it is shown in, whatever became of the *)
(* browser's session since.                                                *)
RenderedWasAllowed ==
  \A r \in Request :
    LET q == requests[r] IN
    /\ q.pc \in {"rendered", "listed"} => signedIn(q.browser, q.cookie.wallet)
    /\ q.pc = "listed" \/ (q.pc = "rendered" /\ q.kind = "dashboard") => q.granted

(* The comments' own words: "a replayed callback finds nothing to match    *)
(* against". Two callbacks sent with the same cookie both do.              *)
ReplayFindsNothing ==
  \A r1, r2 \in Request :
    requests[r1].pc = "exchange" /\ requests[r2].pc = "exchange" /\ requests[r1].state = requests[r2].state
      => r1 = r2

(* "A stale wallet cannot survive a half-finished flow": after a login     *)
(* there is no wallet until a callback of that login puts one there.       *)
(* A callback that was under way when the login started puts its own.      *)
NoStaleWallet ==
  [][\A r \in Request : requests[r].kind = "callback" /\ requests[r].pc = "answered" /\ requests'[r].pc = "done"
       /\ requests[r].cookie.wallet # None => jar[requests[r].browser].state \in {None, requests[r].state}]_portalVars
=============================================================================
