------------------------------ MODULE PortalProofs ------------------------------
(***************************************************************************)
(* The portal's promises for any number of browsers, wallets, requests and *)
(* visits to the consent page.                                             *)
(***************************************************************************)
EXTENDS Portal, TLAPS

RequestType ==
  [kind : {None, "login", "callback", "dashboard", "assets"}, pc : Pc,
   browser : Browser \cup {None}, cookie : PortalSession,
   state : Request \cup {None}, code : Consent \cup {None},
   spent : SUBSET Request, granted : BOOLEAN]

ConsentType ==
  [row : {"none", "error", "live", "over"}, state : Request \cup {None}, wallet : Wallet \cup {None}]

(* The state l was drawn by a login of browser b.                          *)
Login(l, b) == l \in Request /\ requests[l].kind = "login" /\ requests[l].browser = b

Done(l) == requests[l].pc = "done"

Earned(b, w) ==
  \E c \in Consent :
    /\ consents[c].row = "over"
    /\ consents[c].wallet = w
    /\ Login(consents[c].state, b)

GoodConsent(c) ==
  /\ c.row # "none" => c.state \in Request /\ requests[c.state].kind = "login" /\ Done(c.state)
  /\ c.row \in {"live", "over"} => c.wallet \in Wallet

GoodSession(b, store, gone) ==
  /\ store.wallet # None => Earned(b, store.wallet)
  /\ store.state # None => Login(store.state, b) /\ Done(store.state) /\ store.state \notin gone

GoodCallback(q) ==
  /\ q.pc \in {"received", "exchange", "answered"}
  /\ q.state \in Request /\ requests[q.state].kind = "login" /\ Done(q.state)
  /\ q.code # None => consents[q.code].row \in {"live", "over"} /\ consents[q.code].state = q.state
  /\ q.cookie.state # None => q.pc = "received" /\ GoodSession(q.browser, q.cookie, q.spent)
  /\ q.pc = "exchange" =>
       q.code # None /\ requests[q.state].browser = q.browser /\ q.state \notin q.spent

GoodPage(q) ==
  /\ q.pc \in {"verify", "list", "rendered", "listed", "denied"}
  /\ q.cookie.wallet # None
  /\ q.pc \in {"list", "listed"} => q.kind = "assets"
  /\ q.pc = "listed" \/ (q.pc = "rendered" /\ q.kind = "dashboard") => q.granted

(* What a request has to show, whatever the others do.                     *)
GoodRequest(r, q) ==
  /\ q.kind = None <=> q.pc = "idle"
  /\ q.kind # None => q.browser \in Browser
  /\ q.cookie.wallet # None => Earned(q.browser, q.cookie.wallet)
  /\ q.kind = "login" => q.pc = "done" \/ (q.pc = "answered" /\ q.cookie.state = r)
  /\ q.kind = "callback" => q.pc = "done" \/ GoodCallback(q)
  /\ q.kind \in {"dashboard", "assets"} => GoodPage(q)

IInv ==
  /\ PortalTypeOK
  /\ \A c \in Consent : GoodConsent(consents[c])
  /\ \A b \in Browser : GoodSession(b, jar[b], spent[b])
  /\ \A b \in Browser : \A l \in spent[b] : requests[l].kind = "login" /\ Done(l)
  /\ \A r \in Request : GoodRequest(r, requests[r])

-----------------------------------------------------------------------------
(* What never goes away: a login and its browser, that it was answered,    *)
(* and a consent once it is given.                                         *)

LoginsKept ==
  \A l \in Request : requests[l].kind = "login" =>
    /\ requests'[l].kind = "login" /\ requests'[l].browser = requests[l].browser
    /\ Done(l) => Done(l)'

ConsentsKept ==
  \A c \in Consent : consents[c].row # "none" =>
    /\ consents'[c].state = consents[c].state
    /\ consents'[c].wallet = consents[c].wallet
    /\ consents[c].row \in {"live", "over"} => consents'[c].row \in {"live", "over"}
    /\ consents[c].row = "over" => consents'[c].row = "over"

LEMMA EarnedKept ==
  ASSUME LoginsKept, ConsentsKept, NEW b, NEW w, Earned(b, w)
  PROVE  Earned(b, w)'
  BY DEF LoginsKept, ConsentsKept, Earned, Login

LEMMA ConsentKept ==
  ASSUME LoginsKept, NEW c, GoodConsent(c)
  PROVE  GoodConsent(c)'
  BY DEF LoginsKept, GoodConsent, Login, Done

LEMMA SessionKept ==
  ASSUME LoginsKept, ConsentsKept, NEW b, NEW store, NEW gone, GoodSession(b, store, gone)
  PROVE  GoodSession(b, store, gone)'
  BY EarnedKept DEF LoginsKept, GoodSession, Login, Done

LEMMA RequestKept ==
  ASSUME LoginsKept, ConsentsKept, NEW r, NEW q \in RequestType, GoodRequest(r, q)
  PROVE  GoodRequest(r, q)'
  <1>1. q.cookie.wallet # None => Earned(q.browser, q.cookie.wallet)'
    BY EarnedKept DEF GoodRequest
  <1>2. ASSUME GoodCallback(q) PROVE GoodCallback(q)'
    <2>1. q.state \in Request /\ requests'[q.state].kind = "login" /\ Done(q.state)'
          /\ requests'[q.state].browser = requests[q.state].browser
      BY <1>2 DEF GoodCallback, LoginsKept
    <2>2. q.code # None => consents'[q.code].row \in {"live", "over"} /\ consents'[q.code].state = q.state
      BY <1>2 DEF GoodCallback, ConsentsKept, RequestType
    <2>3. q.cookie.state # None => q.pc = "received" /\ GoodSession(q.browser, q.cookie, q.spent)'
      BY <1>2, SessionKept DEF GoodCallback
    <2> QED
      BY <1>2, <2>1, <2>2, <2>3 DEF GoodCallback
  <1> QED
    BY <1>1, <1>2 DEF GoodRequest, GoodPage

(* A request that takes a step, or a new one, next to consents that are    *)
(* given or used up, keeps the invariant if it is good itself.             *)
LEMMA Replaced ==
  ASSUME IInv, NEW r \in Request, NEW q \in RequestType,
         requests' = [requests EXCEPT ![r] = q],
         UNCHANGED <<jar, allowed, spent>>, clock' \in Nat, moves' \in Nat,
         consents' \in [Consent -> ConsentType], ConsentsKept,
         \A c \in Consent : consents'[c] = consents[c] \/ GoodConsent(consents'[c]),
         requests[r].kind = "login" => q.kind = "login" /\ q.browser = requests[r].browser
                                       /\ (requests[r].pc = "done" => q.pc = "done"),
         GoodRequest(r, q)'
  PROVE  IInv'
  <1>1. PortalTypeOK'
    BY DEF IInv, PortalTypeOK, RequestType, ConsentType
  <1>2. LoginsKept
    BY DEF IInv, PortalTypeOK, LoginsKept, Done
  <1>3. ASSUME NEW c \in Consent PROVE GoodConsent(consents[c])'
    <2>1. PICK g : g = consents'[c]
      OBVIOUS
    <2>2. GoodConsent(g)
      BY <2>1 DEF IInv
    <2> QED
      BY <1>2, <2>1, <2>2, ConsentKept
  <1>4. ASSUME NEW b \in Browser PROVE GoodSession(b, jar[b], spent[b])'
    <2>1. PICK store, gone : store = jar[b] /\ gone = spent[b]
      OBVIOUS
    <2>2. GoodSession(b, store, gone)'
      BY <1>2, <2>1, SessionKept DEF IInv
    <2> QED
      BY <2>1, <2>2
  <1>5. ASSUME NEW b \in Browser, NEW l \in spent'[b] PROVE requests'[l].kind = "login" /\ Done(l)'
    BY <1>2 DEF IInv, PortalTypeOK, LoginsKept
  <1>6. ASSUME NEW x \in Request PROVE GoodRequest(x, requests[x])'
    <2>1. PICK y : y = requests'[x]
      OBVIOUS
    <2>2. CASE x = r
      <3>1. requests'[x] = q
        BY <2>2 DEF IInv, PortalTypeOK
      <3> QED
        BY <2>2, <3>1
    <2>3. CASE x # r
      <3>1. y = requests[x] /\ y \in RequestType
        BY <2>1, <2>3 DEF IInv, PortalTypeOK, RequestType
      <3>2. GoodRequest(x, y)'
        BY <1>2, <3>1, RequestKept DEF IInv
      <3> QED
        BY <2>1, <3>2
    <2> QED
      BY <2>2, <2>3
  <1> QED
    BY <1>1, <1>3, <1>4, <1>5, <1>6 DEF IInv

-----------------------------------------------------------------------------
(* The actions. A sent request is new, so nobody refers to it yet.         *)

LEMMA Sent ==
  ASSUME IInv, NEW r \in Request, NEW q \in RequestType, send(r, q), GoodRequest(r, q)
  PROVE  IInv'
  <1>3. requests[r].kind = None /\ requests[r].kind # "login"
    BY DEF IInv, GoodRequest, send, PortalTypeOK, GoodCallback
  <1>4. LoginsKept /\ ConsentsKept
    BY <1>3 DEF LoginsKept, ConsentsKept, IInv, PortalTypeOK, send, Done
  <1>5. GoodRequest(r, q)'
    BY <1>4, RequestKept
  <1> QED
    BY <1>3, <1>4, <1>5, Replaced DEF send, IInv, PortalTypeOK, ConsentType

LEMMA LoginStep ==
  ASSUME IInv, NEW r \in Request, NEW b \in Browser, login(r, b)
  PROVE  IInv'
  <1>1. PICK q : q = [Unsent EXCEPT !.kind = "login", !.pc = "answered", !.browser = b,
                        !.cookie = [wallet |-> None, state |-> r, stateExpires |-> clock + StateTTL]]
    OBVIOUS
  <1>2. q \in RequestType /\ send(r, q) /\ q.browser = b
    <2>1. [wallet |-> None, state |-> r, stateExpires |-> clock + StateTTL] \in PortalSession
      BY PortalAssumption DEF PortalSession, IInv, PortalTypeOK
    <2> QED
      BY <1>1, <2>1 DEF login, Unsent, RequestType, Pc
  <1>3. q.kind = "login" /\ q.pc = "answered" /\ q.browser = b /\ q.cookie.wallet = None /\ q.cookie.state = r
    BY <1>1 DEF Unsent
  <1>4. GoodRequest(r, q)
    BY <1>3, PortalAssumption DEF GoodRequest
  <1> QED
    BY <1>2, <1>4, Sent

LEMMA CallbackStep ==
  ASSUME IInv, NEW r \in Request, NEW b \in Browser, NEW c \in Consent, callback(r, b, c)
  PROVE  IInv'
  <1>1. PICK q : q = [Unsent EXCEPT !.kind = "callback", !.pc = "received", !.browser = b,
                        !.cookie = jar[b], !.spent = spent[b], !.state = consents[c].state,
                        !.code = IF consents[c].row = "error" THEN None ELSE c]
    OBVIOUS
  <1>2. q \in RequestType /\ send(r, q) /\ q.browser = b
    BY <1>1 DEF callback, Unsent, RequestType, PortalSession, Pc, IInv, PortalTypeOK
  <1>4. /\ q.kind = "callback" /\ q.pc = "received" /\ q.browser = b /\ q.cookie = jar[b]
        /\ q.state = consents[c].state /\ q.spent = spent[b]
        /\ q.code = IF consents[c].row = "error" THEN None ELSE c
    BY <1>1, <1>2 DEF Unsent, RequestType
  <1>5. GoodCallback(q)
    <2>1. GoodConsent(consents[c]) /\ consents[c].row \in {"error", "live", "over"}
      BY DEF IInv, callback, PortalTypeOK
    <2>2. GoodSession(b, jar[b], spent[b])
      BY DEF IInv
    <2> QED
      BY <1>4, <2>1, <2>2 DEF GoodCallback, GoodConsent, Login
  <1>6. GoodRequest(r, q)
    BY <1>4, <1>5, PortalAssumption DEF GoodRequest, IInv, GoodSession
  <1> QED
    BY <1>2, <1>6, Sent

LEMMA OpenStep ==
  ASSUME IInv, NEW r \in Request, NEW b \in Browser, NEW page \in {"dashboard", "assets"},
         open(r, b, page)
  PROVE  IInv'
  <1>1. PICK q : q = [Unsent EXCEPT !.kind = page, !.pc = "verify", !.browser = b, !.cookie = jar[b],
                                    !.granted = jar[b].wallet \in allowed]
    OBVIOUS
  <1>2. q \in RequestType /\ send(r, q) /\ q.browser = b
    <2>1. jar[b] \in PortalSession /\ (jar[b].wallet \in allowed) \in BOOLEAN
      BY DEF IInv, PortalTypeOK
    <2>2. q.kind = page /\ page \in {None, "login", "callback", "dashboard", "assets"}
      BY <1>1 DEF Unsent
    <2> QED
      BY <1>1, <2>1, <2>2 DEF open, Unsent, RequestType, Pc
  <1>4. q.kind = page /\ q.pc = "verify" /\ q.browser = b /\ q.cookie = jar[b]
    BY <1>1, <1>2 DEF Unsent, RequestType
  <1>5. GoodRequest(r, q)
    BY <1>4, PortalAssumption DEF GoodRequest, GoodPage, open, IInv, GoodSession
  <1> QED
    BY <1>2, <1>5, Sent

(* A step of a request that touches no consent.                            *)
LEMMA Gone ==
  ASSUME IInv, NEW r \in Request, NEW q \in RequestType, goto(r, q), UNCHANGED consents,
         q.kind = requests[r].kind, q.browser = requests[r].browser, requests[r].pc # "done",
         GoodRequest(r, q)
  PROVE  IInv'
  <1>1. LoginsKept /\ ConsentsKept
    BY DEF LoginsKept, ConsentsKept, IInv, PortalTypeOK, goto, Done
  <1>2. GoodRequest(r, q)'
    BY <1>1, RequestKept
  <1> QED
    BY <1>1, <1>2, Replaced DEF goto, IInv, PortalTypeOK, ConsentType

LEMMA CheckStateStep ==
  ASSUME IInv, NEW r \in Request, checkState(r)
  PROVE  IInv'
  <1>1. PICK old : old = requests[r]
    OBVIOUS
  <1>2. PICK q : q = [old EXCEPT !.cookie = withoutState(@),
                        !.pc = IF statesMatch(old) /\ old.code # None THEN "exchange" ELSE "answered"]
    OBVIOUS
  <1>3. old \in RequestType /\ old.pc = "received" /\ GoodRequest(r, old) /\ old.kind = "callback"
    BY <1>1 DEF IInv, PortalTypeOK, RequestType, checkState, GoodRequest, GoodPage
  <1>4. q \in RequestType /\ goto(r, q) /\ UNCHANGED consents
    <2>1. withoutState(old.cookie) \in PortalSession
      BY <1>3 DEF withoutState, RequestType, PortalSession
    <2>2. q \in RequestType
      BY <1>2, <1>3, <2>1 DEF RequestType, Pc
    <2>3. QED
      BY <1>1, <1>2, <2>2 DEF checkState
  <1>5. /\ q.kind = "callback" /\ q.browser = old.browser /\ q.state = old.state /\ q.code = old.code
        /\ q.spent = old.spent /\ q.cookie.state = None /\ q.cookie.wallet = old.cookie.wallet
        /\ q.pc = IF statesMatch(old) /\ old.code # None THEN "exchange" ELSE "answered"
    BY <1>2, <1>3 DEF withoutState, RequestType, PortalSession
  <1>6. GoodCallback(q)
    BY <1>3, <1>5 DEF GoodRequest, GoodCallback, statesMatch, GoodSession, Login
  <1>7. GoodRequest(r, q)
    BY <1>3, <1>5, <1>6, PortalAssumption DEF GoodRequest
  <1> QED
    BY <1>1, <1>3, <1>4, <1>5, <1>7, Gone

(* Where a page may go, and with what.                                     *)
LEMMA PageGone ==
  ASSUME IInv, NEW r \in Request, requests[r].pc \in {"verify", "list"},
         NEW pc \in {"rendered", "list", "listed", "denied"}, NEW granted \in BOOLEAN,
         goto(r, [requests[r] EXCEPT !.pc = pc, !.granted = granted]), UNCHANGED consents,
         pc = "listed" \/ (pc = "rendered" /\ requests[r].kind = "dashboard") => granted,
         pc \in {"list", "listed"} => requests[r].kind = "assets"
  PROVE  IInv'
  <1>1. PICK old : old = requests[r]
    OBVIOUS
  <1>2. PICK q : q = [old EXCEPT !.pc = pc, !.granted = granted]
    OBVIOUS
  <1>3. old \in RequestType /\ GoodRequest(r, old) /\ old.kind \in {"dashboard", "assets"}
    BY <1>1 DEF IInv, PortalTypeOK, RequestType, GoodRequest, GoodCallback
  <1>4. /\ q \in RequestType /\ q.kind = old.kind /\ q.browser = old.browser /\ q.cookie = old.cookie
        /\ q.pc = pc /\ q.granted = granted
    <2>1. pc \in Pc
      BY DEF Pc
    <2> QED
      BY <1>2, <1>3, <2>1 DEF RequestType
  <1>5. GoodRequest(r, q)
    BY <1>1, <1>3, <1>4, PortalAssumption DEF GoodRequest, GoodPage
  <1> QED
    BY <1>1, <1>2, <1>3, <1>4, <1>5, Gone

LEMMA PageStep ==
  ASSUME IInv, NEW r \in Request, verifyAccess(r) \/ listAssets(r) \/ pageFails(r)
  PROVE  IInv'
  <1>1. PICK old : old = requests[r]
    OBVIOUS
  <1>2. old \in RequestType /\ old.pc \in {"verify", "list"} /\ GoodPage(old) /\ UNCHANGED consents
        /\ old.granted \in BOOLEAN
    BY <1>1 DEF IInv, PortalTypeOK, RequestType, GoodRequest, GoodCallback, verifyAccess, listAssets, pageFails
  <1>3. CASE verifyAccess(r) /\ old.kind = "assets"
    <2>1. (old.cookie.wallet \in allowed) \in BOOLEAN
      OBVIOUS
    <2> PICK g \in BOOLEAN : g = (old.cookie.wallet \in allowed)
      BY <2>1, Zenon
    <2>2. goto(r, [old EXCEPT !.pc = "list", !.granted = g])
      BY <1>1, <1>3 DEF verifyAccess
    <2> QED
      BY <1>1, <1>2, <1>3, <2>2, PageGone
  <1>4. CASE verifyAccess(r) /\ old.kind # "assets"
    <2>1. goto(r, [old EXCEPT !.pc = "rendered"]) /\ old.granted
      BY <1>1, <1>4 DEF verifyAccess
    <2>2. [old EXCEPT !.pc = "rendered"] = [old EXCEPT !.pc = "rendered", !.granted = old.granted]
      BY <1>2 DEF RequestType
    <2> QED
      BY <1>1, <1>2, <1>4, <2>1, <2>2, PageGone
  <1>5. CASE listAssets(r)
    <2>1. goto(r, [old EXCEPT !.pc = "listed"]) /\ old.granted /\ old.kind = "assets"
      BY <1>1, <1>2, <1>5 DEF listAssets, GoodPage
    <2>2. [old EXCEPT !.pc = "listed"] = [old EXCEPT !.pc = "listed", !.granted = old.granted]
      BY <1>2 DEF RequestType
    <2> QED
      BY <1>1, <1>2, <2>1, <2>2, PageGone
  <1>6. CASE pageFails(r)
    <2>1. PICK pc : pc = IF old.pc = "verify" THEN "denied" ELSE "rendered"
      OBVIOUS
    <2>2. goto(r, [old EXCEPT !.pc = pc]) /\ pc \in {"rendered", "denied"}
      BY <1>1, <1>6, <2>1 DEF pageFails
    <2>3. [old EXCEPT !.pc = pc] = [old EXCEPT !.pc = pc, !.granted = old.granted]
      BY <1>2 DEF RequestType
    <2>4. pc = "rendered" => old.kind = "assets"
      BY <1>2, <2>1 DEF GoodPage
    <2> QED
      BY <1>1, <1>2, <2>2, <2>3, <2>4, PageGone
  <1> QED
    BY <1>3, <1>4, <1>5, <1>6

(* The code is used up, or it was not: consents only ever move forward.    *)
LEMMA CodeSpent ==
  ASSUME IInv, NEW c \in Consent, consents[c].row \in {"live", "over"},
         consents' \in {consents, [consents EXCEPT ![c].row = "over"]}
  PROVE  /\ consents' \in [Consent -> ConsentType] /\ ConsentsKept
         /\ \A x \in Consent : consents'[x] = consents[x] \/ GoodConsent(consents'[x])
  <1>1. consents \in [Consent -> ConsentType]
    BY DEF IInv, PortalTypeOK, ConsentType
  <1>2. \A x \in Consent :
          /\ consents'[x] \in ConsentType
          /\ consents'[x].state = consents[x].state
          /\ consents'[x].wallet = consents[x].wallet
          /\ consents'[x] = consents[x] \/ (x = c /\ consents'[x].row = "over")
    BY <1>1 DEF ConsentType
  <1>3. \A x \in Consent : consents'[x] = consents[x] \/ GoodConsent(consents'[x])
    BY <1>2 DEF IInv, GoodConsent
  <1> QED
    BY <1>1, <1>2, <1>3 DEF ConsentsKept

LEMMA ExchangeStep ==
  ASSUME IInv, NEW r \in Request, exchange(r) \/ exchangeFails(r)
  PROVE  IInv'
  <1>1. PICK old, c : old = requests[r] /\ c = old.code
    OBVIOUS
  <1>2. old \in RequestType /\ old.pc = "exchange" /\ GoodRequest(r, old)
    BY <1>1 DEF IInv, PortalTypeOK, RequestType, exchange, exchangeFails
  <1>3. old.kind = "callback" /\ GoodCallback(old) /\ c \in Consent /\ c # None
    BY <1>1, <1>2, PortalAssumption DEF GoodRequest, GoodPage, GoodCallback, RequestType
  <1>4. consents[c].row \in {"live", "over"} /\ consents[c].state = old.state
        /\ consents' \in {consents, [consents EXCEPT ![c].row = "over"]}
    BY <1>1, <1>3 DEF GoodCallback, exchange, exchangeFails
  <1>5. /\ consents' \in [Consent -> ConsentType] /\ ConsentsKept
        /\ \A x \in Consent : consents'[x] = consents[x] \/ GoodConsent(consents'[x])
    BY <1>3, <1>4, CodeSpent
  <1>6. GoodConsent(consents[c]) /\ consents[c] \in ConsentType
    BY <1>3 DEF IInv, PortalTypeOK, ConsentType
  <1>7. PICK w : w = IF exchange(r) THEN consents[c].wallet ELSE old.cookie.wallet
    OBVIOUS
  <1>8. PICK q : q = [old EXCEPT !.cookie.wallet = w, !.pc = "answered"]
    OBVIOUS
  <1>9. w \in Wallet \cup {None}
    BY <1>2, <1>6, <1>7 DEF ConsentType, RequestType, PortalSession
  <1>10. /\ q \in RequestType /\ q.kind = "callback" /\ q.browser = old.browser /\ q.state = old.state
         /\ q.code = old.code /\ q.spent = old.spent /\ q.cookie.state = old.cookie.state
         /\ q.cookie.wallet = w /\ q.pc = "answered"
    BY <1>2, <1>3, <1>8, <1>9 DEF RequestType, PortalSession, Pc
  <1>11. goto(r, q)
    <2>1. CASE exchange(r)
      BY <1>1, <1>7, <1>8, <2>1 DEF exchange
    <2>2. CASE ~exchange(r)
      <3>1. [old EXCEPT !.pc = "answered"] = q
        BY <1>2, <1>7, <1>8, <2>2 DEF RequestType, PortalSession
      <3> QED
        BY <1>1, <2>2, <3>1 DEF exchangeFails
    <2> QED
      BY <2>1, <2>2
  <1>12. LoginsKept
    BY <1>1, <1>2, <1>3, <1>11 DEF LoginsKept, IInv, PortalTypeOK, goto, Done
  <1>13. w # None => Earned(old.browser, w)'
    <2>1. CASE exchange(r)
      <3>1. consents'[c].row = "over" /\ consents'[c].wallet = w /\ consents'[c].state = old.state
        BY <1>1, <1>3, <1>4, <1>6, <1>7, <2>1 DEF exchange, IInv, PortalTypeOK
      <3>2. Login(old.state, old.browser)
        BY <1>2, <1>3 DEF GoodCallback, Login
      <3>3. Login(old.state, old.browser)'
        BY <1>12, <3>2 DEF LoginsKept, Login
      <3> QED
        BY <1>3, <3>1, <3>2, <3>3 DEF Earned
    <2>2. CASE ~exchange(r)
      BY <1>2, <1>5, <1>7, <1>12, <2>2, EarnedKept DEF GoodRequest
    <2> QED
      BY <2>1, <2>2
  <1>14. GoodCallback(q)'
    <2>1. GoodCallback(q)
      BY <1>2, <1>3, <1>10 DEF GoodCallback
    <2>2. q.cookie.state = None
      BY <1>2, <1>3, <1>10 DEF GoodCallback
    <2> QED
      BY <1>5, <1>10, <1>12, <2>1, <2>2 DEF GoodCallback, LoginsKept, ConsentsKept, RequestType
  <1>15. GoodRequest(r, q)'
    BY <1>2, <1>3, <1>10, <1>13, <1>14, PortalAssumption DEF GoodRequest
  <1> QED
    BY <1>1, <1>3, <1>5, <1>10, <1>11, <1>15, Replaced DEF goto, IInv, PortalTypeOK
LEMMA ArriveStep ==
  ASSUME IInv, NEW r \in Request, arrive(r)
  PROVE  IInv'
  <1>1. PICK old, b : old = requests[r] /\ b = old.browser
    OBVIOUS
  <1>2. old \in RequestType /\ GoodRequest(r, old) /\ old.pc = "answered"
        /\ old.kind \in {"login", "callback"} /\ b \in Browser
    BY <1>1 DEF IInv, PortalTypeOK, RequestType, arrive, GoodRequest, GoodPage
  <1>3. PICK q : q = [Unsent EXCEPT !.kind = old.kind, !.pc = "done", !.browser = b]
    OBVIOUS
  <1>4. /\ q \in RequestType /\ requests' = [requests EXCEPT ![r] = q] /\ q.pc = "done"
        /\ q.kind = old.kind /\ q.browser = b /\ q.cookie.wallet = None
    <2>1. Empty \in PortalSession
      BY DEF Empty, PortalSession
    <2> QED
      BY <1>1, <1>2, <1>3, <2>1 DEF arrive, RequestType, Pc, Unsent, Empty
  <1>5. LoginsKept /\ ConsentsKept
    BY <1>1, <1>4 DEF LoginsKept, ConsentsKept, IInv, PortalTypeOK, arrive, Done
  <1>6. \A x \in Request : x # r => requests'[x] = requests[x]
    BY <1>4 DEF IInv, PortalTypeOK
  <1>7. requests'[r] = q
    BY <1>4 DEF IInv, PortalTypeOK
  <1>8. /\ \A x \in Browser : x # b => jar'[x] = jar[x] /\ spent'[x] = spent[x]
        /\ jar'[b] = old.cookie
        /\ spent'[b] = IF old.kind = "callback" THEN spent[b] \cup {old.state} ELSE spent[b]
    BY <1>1, <1>2 DEF IInv, PortalTypeOK, arrive
  <1>9. old.kind = "callback" => /\ old.state \in Request /\ requests[old.state].kind = "login"
                                 /\ Done(old.state) /\ old.cookie.state = None
    BY <1>2 DEF GoodRequest, GoodCallback
  <1>10. PortalTypeOK'
    <2>1. jar' \in [Browser -> PortalSession]
      BY <1>1, <1>2 DEF IInv, PortalTypeOK, RequestType, arrive
    <2>2. requests' \in [Request -> RequestType]
      <3>1. requests \in [Request -> RequestType]
        BY DEF IInv, PortalTypeOK, RequestType
      <3> QED
        BY <1>4, <3>1
    <2>3. spent' \in [Browser -> SUBSET Request]
      BY <1>1, <1>2, <1>9 DEF IInv, PortalTypeOK, arrive
    <2> QED
      BY <2>1, <2>2, <2>3 DEF IInv, PortalTypeOK, RequestType, arrive
  <1>11. ASSUME NEW c \in Consent PROVE GoodConsent(consents[c])'
    <2>1. PICK g : g = consents[c] /\ g = consents'[c]
      BY DEF arrive
    <2> QED
      BY <1>5, <2>1, ConsentKept DEF IInv
  <1>12. ASSUME NEW x \in Browser, NEW l \in spent'[x] PROVE requests'[l].kind = "login" /\ Done(l)'
    <2>1. l \in Request /\ requests[l].kind = "login" /\ Done(l)
      <3>1. l \in spent[x] \/ (old.kind = "callback" /\ l = old.state)
        BY <1>2, <1>8
      <3>2. l \in spent[x] => l \in Request /\ requests[l].kind = "login" /\ Done(l)
        BY DEF IInv, PortalTypeOK
      <3> QED
        BY <1>9, <3>1, <3>2
    <2> QED
      BY <1>5, <2>1 DEF LoginsKept
  <1>13. GoodRequest(r, q)'
    <2>1. GoodRequest(r, q)
      BY <1>2, <1>4, PortalAssumption DEF GoodRequest
    <2> QED
      BY <1>4, <1>5, <2>1, RequestKept
  <1>14. ASSUME NEW x \in Request PROVE GoodRequest(x, requests[x])'
    <2>1. PICK y : y = requests'[x]
      OBVIOUS
    <2>2. GoodRequest(x, y)'
      <3>1. CASE x = r
        BY <1>7, <1>13, <2>1, <3>1
      <3>2. CASE x # r
        <4>1. y = requests[x] /\ y \in RequestType
          BY <1>6, <2>1, <3>2 DEF IInv, PortalTypeOK, RequestType
        <4> QED
          BY <1>5, <4>1, RequestKept DEF IInv
      <3> QED
        BY <3>1, <3>2
    <2> QED
      BY <2>1, <2>2
  <1>15. ASSUME NEW x \in Browser PROVE GoodSession(x, jar[x], spent[x])'
    <2>1. PICK store, gone : store = jar'[x] /\ gone = spent'[x]
      OBVIOUS
    <2>2. CASE x # b
      <3>1. GoodSession(x, store, gone)
        <4>1. store = jar[x] /\ gone = spent[x]
          BY <1>8, <2>1, <2>2
        <4> QED
          BY <4>1 DEF IInv
      <3> QED
        BY <1>5, <2>1, <3>1, SessionKept
    <2>3. CASE x = b
      <3>1. store = old.cookie
        BY <1>8, <2>1, <2>3
      <3>2. store.wallet # None => Earned(b, store.wallet)'
        BY <1>1, <1>2, <1>5, <3>1, EarnedKept DEF GoodRequest
      <3>3. CASE old.kind = "callback"
        BY <1>9, <2>1, <2>3, <3>1, <3>2, <3>3 DEF GoodSession
      <3>4. CASE old.kind = "login"
        <4>1. store.state = r
          BY <1>2, <3>1, <3>4 DEF GoodRequest
        <4>2. r \notin spent[b]
          BY <1>1, <1>2 DEF IInv, Done
        <4>3. gone = spent[b]
          BY <1>8, <2>1, <2>3, <3>4
        <4>4. Login(r, b)' /\ Done(r)'
          BY <1>4, <1>7, <3>4 DEF Login, Done
        <4> QED
          BY <2>1, <2>3, <3>2, <4>1, <4>2, <4>3, <4>4 DEF GoodSession
      <3> QED
        BY <1>2, <3>3, <3>4
    <2> QED
      BY <2>2, <2>3
  <1> QED
    BY <1>10, <1>11, <1>12, <1>14, <1>15 DEF IInv

(* Steps that leave requests and what was consented as they are.           *)
LEMMA Beside ==
  ASSUME IInv, PortalTypeOK', UNCHANGED <<requests, spent>>, ConsentsKept,
         \A c \in Consent : consents'[c] = consents[c] \/ GoodConsent(consents'[c]),
         \A b \in Browser : jar'[b] = jar[b] \/ jar'[b] = Empty
  PROVE  IInv'
  <1>1. LoginsKept
    BY DEF LoginsKept, Done
  <1>2. ASSUME NEW c \in Consent PROVE GoodConsent(consents[c])'
    <2>1. PICK g : g = consents'[c]
      OBVIOUS
    <2>2. GoodConsent(g)
      BY <2>1 DEF IInv
    <2> QED
      BY <1>1, <2>1, <2>2, ConsentKept
  <1>3. ASSUME NEW b \in Browser PROVE GoodSession(b, jar[b], spent[b])'
    <2>1. PICK store, gone : store = jar'[b] /\ gone = spent'[b]
      OBVIOUS
    <2>2. GoodSession(b, store, gone)
      BY <2>1 DEF IInv, GoodSession, Empty
    <2> QED
      BY <1>1, <2>1, <2>2, SessionKept
  <1>4. ASSUME NEW x \in Request PROVE GoodRequest(x, requests[x])'
    <2>1. PICK y : y = requests[x] /\ y = requests'[x] /\ y \in RequestType
      BY DEF IInv, PortalTypeOK, RequestType
    <2>2. GoodRequest(x, y)'
      BY <1>1, <2>1, RequestKept DEF IInv
    <2> QED
      BY <2>1, <2>2
  <1> QED
    BY <1>2, <1>3, <1>4 DEF IInv, Done

LEMMA ConsentStep ==
  ASSUME IInv, NEW c \in Consent, NEW l \in Request, consent(c, l)
  PROVE  IInv'
  <1>1. PICK g : g = consents'[c]
    OBVIOUS
  <1>2. consents[c].row = "none" /\ requests[l].kind = "login" /\ Done(l)
        /\ \A x \in Consent : x # c => consents'[x] = consents[x]
    BY DEF consent, Done, IInv, PortalTypeOK
  <1>4. GoodConsent(g) /\ g \in ConsentType
    <2>1. CASE g = [row |-> "error", state |-> l, wallet |-> None]
      BY <1>2, <2>1 DEF GoodConsent, Done, ConsentType
    <2>2. CASE \E w \in allowed : g = [row |-> "live", state |-> l, wallet |-> w]
      BY <1>2, <2>2 DEF GoodConsent, Done, ConsentType, IInv, PortalTypeOK
    <2> QED
      BY <1>1, <2>1, <2>2 DEF consent, IInv, PortalTypeOK
  <1>5. consents' \in [Consent -> ConsentType]
    <2>1. DOMAIN consents' = Consent /\ consents' = [x \in Consent |-> consents'[x]]
      BY DEF consent, IInv, PortalTypeOK
    <2> QED
      BY <1>1, <1>2, <1>4, <2>1 DEF IInv, PortalTypeOK, ConsentType
  <1>6. PortalTypeOK'
    BY <1>5 DEF IInv, PortalTypeOK, consent, ConsentType
  <1>7. ConsentsKept
    BY <1>2 DEF ConsentsKept
  <1> QED
    BY <1>1, <1>2, <1>4, <1>6, <1>7, Beside DEF consent
LEMMA ForgetStep ==
  ASSUME IInv, NEW b \in Browser, forget(b)
  PROVE  IInv'
  <1>1. PortalTypeOK'
    BY PortalAssumption DEF IInv, PortalTypeOK, PortalSession, forget, Empty
  <1>2. \A x \in Browser : jar'[x] = jar[x] \/ jar'[x] = Empty
    BY DEF forget, IInv, PortalTypeOK
  <1> QED
    BY <1>1, <1>2, Beside DEF forget, ConsentsKept

LEMMA TickStep ==
  ASSUME IInv, Tick
  PROVE  IInv'
  <1>1. PortalTypeOK'
    BY DEF IInv, PortalTypeOK, Tick
  <1> QED
    BY <1>1, Beside DEF Tick, ConsentsKept

(* Only granted changes, and only from FALSE to TRUE.                      *)
LEMMA ChainStep ==
  ASSUME IInv, NEW w \in Wallet, chainMoves(w)
  PROVE  IInv'
  <1>1. ASSUME NEW x \in Request
        PROVE  /\ requests'[x] \in RequestType
               /\ requests'[x] = [requests[x] EXCEPT !.granted = requests'[x].granted]
               /\ requests[x].granted => requests'[x].granted
    <2>1. PICK q : q = requests[x] /\ q \in RequestType
      BY DEF IInv, PortalTypeOK, RequestType
    <2>2. requests'[x] = [q EXCEPT !.granted =
                            q.granted \/ (q.pc \in {"verify", "list"} /\ q.cookie.wallet \in allowed')]
      BY <2>1 DEF chainMoves
    <2>3. (q.granted \/ (q.pc \in {"verify", "list"} /\ q.cookie.wallet \in allowed')) \in BOOLEAN
      OBVIOUS
    <2> PICK g \in BOOLEAN :
          g = (q.granted \/ (q.pc \in {"verify", "list"} /\ q.cookie.wallet \in allowed'))
      BY <2>3, Zenon
    <2>4. requests'[x] = [q EXCEPT !.granted = g] /\ (q.granted => g)
      BY <2>2
    <2> QED
      BY <2>1, <2>4 DEF RequestType
  <1>2. DOMAIN requests' = Request /\ requests' = [x \in Request |-> requests'[x]]
    BY DEF chainMoves
  <1>3. PortalTypeOK'
    <2>1. requests' \in [Request -> RequestType]
      BY <1>1, <1>2
    <2>2. allowed' \in SUBSET Wallet /\ moves' \in Nat
      BY DEF chainMoves, IInv, PortalTypeOK
    <2> QED
      BY <2>1, <2>2 DEF chainMoves, IInv, PortalTypeOK, RequestType
  <1>4. ASSUME NEW x \in Request
        PROVE  /\ requests'[x].kind = requests[x].kind /\ requests'[x].pc = requests[x].pc
               /\ requests'[x].browser = requests[x].browser /\ requests'[x].cookie = requests[x].cookie
               /\ requests'[x].state = requests[x].state /\ requests'[x].code = requests[x].code
               /\ requests'[x].spent = requests[x].spent
    <2>1. PICK old, g : old = requests[x] /\ g = requests'[x].granted
      OBVIOUS
    <2>2. old \in RequestType /\ requests'[x] = [old EXCEPT !.granted = g]
      BY <1>1, <2>1 DEF IInv, PortalTypeOK, RequestType
    <2> QED
      BY <2>1, <2>2 DEF RequestType
  <1>5. LoginsKept /\ ConsentsKept
    BY <1>4 DEF LoginsKept, ConsentsKept, Done, chainMoves
  <1>6. ASSUME NEW c \in Consent PROVE GoodConsent(consents[c])'
    <2>1. PICK g : g = consents[c] /\ g = consents'[c]
      BY DEF chainMoves
    <2> QED
      BY <1>5, <2>1, ConsentKept DEF IInv
  <1>7. ASSUME NEW b \in Browser PROVE GoodSession(b, jar[b], spent[b])'
    <2>1. PICK store, gone : store = jar[b] /\ gone = spent[b] /\ store = jar'[b] /\ gone = spent'[b]
      BY DEF chainMoves
    <2> QED
      BY <1>5, <2>1, SessionKept DEF IInv
  <1>8. ASSUME NEW b \in Browser, NEW l \in spent'[b] PROVE requests'[l].kind = "login" /\ Done(l)'
    <2>1. l \in Request /\ requests[l].kind = "login" /\ Done(l)
      BY DEF chainMoves, IInv, PortalTypeOK
    <2> QED
      BY <1>5, <2>1 DEF LoginsKept
  <1>9. ASSUME NEW x \in Request PROVE GoodRequest(x, requests[x])'
    <2>1. PICK old, y : old = requests[x] /\ y = requests'[x]
      OBVIOUS
    <2>2. y \in RequestType /\ GoodRequest(x, old)
      BY <1>1, <2>1 DEF IInv
    <2>3. GoodRequest(x, y)
      BY <1>1, <1>4, <2>1, <2>2 DEF GoodRequest, GoodCallback, GoodPage, GoodSession
    <2>4. GoodRequest(x, y)'
      BY <1>5, <2>2, <2>3, RequestKept
    <2> QED
      BY <2>1, <2>4
  <1> QED
    BY <1>3, <1>6, <1>7, <1>8, <1>9 DEF IInv

-----------------------------------------------------------------------------
LEMMA Invariance == PortalSpec => []IInv
  <1>1. PortalInit => IInv
    <2> SUFFICES ASSUME PortalInit PROVE IInv
      OBVIOUS
    <2>1. PortalTypeOK
      BY PortalAssumption DEF PortalInit, PortalTypeOK, PortalSession, Empty, Unsent, NoConsent, Pc
    <2>2. \A c \in Consent : GoodConsent(consents[c])
      BY DEF PortalInit, NoConsent, GoodConsent
    <2>3. \A b \in Browser : GoodSession(b, jar[b], spent[b]) /\ spent[b] = {}
      BY DEF PortalInit, Empty, GoodSession
    <2>4. \A r \in Request : GoodRequest(r, requests[r])
      BY PortalAssumption DEF PortalInit, Unsent, Empty, GoodRequest
    <2> QED
      BY <2>1, <2>2, <2>3, <2>4 DEF IInv
  <1>2. IInv /\ [PortalNext]_portalVars => IInv'
    <2> SUFFICES ASSUME IInv, [PortalNext]_portalVars PROVE IInv'
      OBVIOUS
    <2>1. CASE \E r \in Request, b \in Browser :
                 \/ login(r, b)
                 \/ \E c \in Consent : callback(r, b, c)
                 \/ \E page \in {"dashboard", "assets"} : open(r, b, page)
      BY <2>1, LoginStep, CallbackStep, OpenStep
    <2>2. CASE \E r \in Request : checkState(r) \/ exchange(r) \/ exchangeFails(r) \/ arrive(r)
                                  \/ verifyAccess(r) \/ listAssets(r) \/ pageFails(r)
      BY <2>2, CheckStateStep, ExchangeStep, ArriveStep, PageStep
    <2>3. CASE \E c \in Consent, l \in Request : consent(c, l)
      BY <2>3, ConsentStep
    <2>4. CASE (\E w \in Wallet : chainMoves(w)) \/ (\E b \in Browser : forget(b)) \/ Tick
      BY <2>4, ChainStep, ForgetStep, TickStep
    <2>5. CASE UNCHANGED portalVars
      <3>1. PortalTypeOK'
        BY <2>5 DEF IInv, PortalTypeOK, portalVars
      <3> QED
        BY <2>5, <3>1, Beside DEF portalVars, ConsentsKept
    <2> QED
      BY <2>1, <2>2, <2>3, <2>4, <2>5 DEF PortalNext
  <1> QED
    BY <1>1, <1>2, PTL DEF PortalSpec

(* The state has the shape it is declared with.                            *)
THEOREM PortalTypeCorrect == PortalSpec => []PortalTypeOK
  BY Invariance, PTL DEF IInv

(* No browser is signed in by a consent to another browser's login,        *)
(* however requests, cookies and passed-on links cross.                    *)
THEOREM SessionsStayEarned == PortalSpec => []SessionEarned
  <1>1. IInv => SessionEarned
    BY DEF IInv, SessionEarned, GoodSession, Earned, Login, signedIn
  <1> QED
    BY <1>1, Invariance, PTL

(* A state that was answered once never passes the check of a later        *)
(* callback.                                                               *)
THEOREM StatesStaySpent == PortalSpec => []StateSpentOnce
  <1>1. ASSUME IInv, NEW r \in Request, requests[r].pc = "exchange"
        PROVE  requests[r].state \notin requests[r].spent
    <2>1. GoodRequest(r, requests[r]) /\ requests[r].kind \in {None, "login", "callback", "dashboard", "assets"}
      BY <1>1 DEF IInv, PortalTypeOK
    <2>2. requests[r].kind = "callback" /\ GoodCallback(requests[r])
      BY <1>1, <2>1 DEF GoodRequest, GoodPage
    <2> QED
      BY <1>1, <2>2 DEF GoodCallback
  <1>2. IInv => StateSpentOnce
    BY <1>1 DEF StateSpentOnce
  <1> QED
    BY <1>2, Invariance, PTL

(* Pages are rendered for a wallet that agreed to a login of the browser   *)
(* they are shown in, on an answer of the chain from while they were asked *)
(* for.                                                                    *)
THEOREM PagesWereAllowed == PortalSpec => []RenderedWasAllowed
  <1>1. ASSUME IInv, NEW r \in Request
        PROVE  LET q == requests[r] IN
               /\ q.pc \in {"rendered", "listed"} => signedIn(q.browser, q.cookie.wallet)
               /\ q.pc = "listed" \/ (q.pc = "rendered" /\ q.kind = "dashboard") => q.granted
    <2>1. PICK q : q = requests[r]
      OBVIOUS
    <2>2. GoodRequest(r, q) /\ q \in RequestType
      BY <1>1, <2>1 DEF IInv, PortalTypeOK, RequestType
    <2>3. q.pc \in {"rendered", "listed"} => q.kind \in {"dashboard", "assets"} /\ GoodPage(q)
      BY <2>2 DEF GoodRequest, GoodCallback, RequestType
    <2> QED
      BY <2>1, <2>2, <2>3 DEF GoodRequest, GoodPage, Earned, Login, signedIn
  <1>2. IInv => RenderedWasAllowed
    BY <1>1 DEF RenderedWasAllowed
  <1> QED
    BY <1>2, Invariance, PTL
=============================================================================
