-------------------------------- MODULE Console --------------------------------
(***************************************************************************)
(* The console in one browser tab: the wallet connection and the session   *)
(* snapshot (wallet-provider.tsx), the list a screen shows                 *)
(* (use-resource.ts), the write a form sends (use-transaction.ts) and the  *)
(* forms that use it. What React renders together is one step: when the    *)
(* session, the chain or the page changes, lists are asked for again and   *)
(* forms that are no longer on the page lose their state, while the write  *)
(* a form has started goes on.                                             *)
(*                                                                         *)
(* The wallet's answers and its notifications reach the page through one   *)
(* queue. The server reads the chain when it answers.                      *)
(***************************************************************************)
EXTENDS Sequences, FiniteSets, Naturals

CONSTANTS
  Run,      \* writes
  Load,     \* requests for the list of a screen that are in flight
  Org,
  NoOrg,    \* activeOrgId is null: no membership
  None,     \* null
  Kinds,    \* the forms a run looks at
  MaxMoves  \* bound: what people, the wallet and other tabs do of their own accord

(* Forms, each with the hook's optional halves. "dialog" is adding,        *)
(* changing or removing a member and overriding a permission; "card" is    *)
(* the role switches of an application.                                    *)
Form == {"dialog", "card", "register", "mint", "identity", "organisation"}
Prepares == {"register", "mint", "identity", "organisation"}
ReadsEvent == {"mint", "organisation"}
Dialogs == {"dialog", "register"}

PageOf(kind) == CASE kind = "mint" -> "mint"
                  [] kind \in {"identity", "organisation"} -> "onboarding"
                  [] OTHER -> "screen"

(* What a request for a list came back with; seen is history: the writes   *)
(* the server read.                                                        *)
Answer == [ok : BOOLEAN, loader : Nat, nonce : Nat, org : Org \cup {NoOrg}, seen : SUBSET Run]

ASSUME ConsoleAssumption ==
  /\ Kinds \subseteq Form
  /\ None \notin Org \cup {NoOrg} \cup Run \cup Form \cup Answer \cup {"ours", "other"}
  /\ NoOrg \notin Org
  /\ {"ours", "other", "unknown"} \cap Run = {}
  /\ MaxMoves \in Nat

VARIABLES
  landed,  \* writes that are in a block of the chain owneX reads
  wallet,  \* the chain the wallet is on
  channel, \* what the wallet has said and the page has not heard: chains and sent writes
  me,      \* what GET /api/identity/me finds for the account
  cookie,  \* the browser has a session cookie
  asks,    \* getMe calls in flight: who awaits it and what the server found
  tab,     \* what the wallet provider and the router hold
  screen,  \* the resource of the screen
  loads,
  form,    \* the form on the page: its kind and what its hook holds
  runs,
  closed,  \* history: writes whose dialog was closed after it said done
  moves    \* counts towards MaxMoves

consoleVars == <<landed, wallet, channel, me, cookie, asks, tab, screen, loads, form, runs,
                 closed, moves>>

NoForm == [kind |-> None, run |-> None, stage |-> "idle", warned |-> FALSE]

(* Before the first render of a screen, and when it is not on the page.    *)
NoScreen == [org |-> None, loader |-> 0, on |-> FALSE, nonce |-> 0, settled |-> None,
             since |-> {}, writes |-> {}]

NoLoad == [pc |-> "idle", live |-> FALSE, loader |-> 0, nonce |-> 0, org |-> None, seen |-> {}]

(* known and granted are history: the page knew the chain when the write   *)
(* was asked for, and every role was granted on owneX's chain.             *)
Unused == [kind |-> None, pc |-> "unused", chain |-> None, known |-> FALSE, granted |-> FALSE]

(* missed is history: since the page was loaded the wallet has said         *)
(* something of its chain after the page had asked for it and before it    *)
(* listened.                                                               *)
Booting == [active |-> FALSE, listens |-> FALSE, missed |-> FALSE, chainId |-> None,
            session |-> None, page |-> "screen", signIn |-> "idle"]

found == IF cookie THEN me ELSE None

SessionState == Org \cup {NoOrg, None}

TabState ==
  [active : BOOLEAN, listens : BOOLEAN, missed : BOOLEAN, chainId : {None, "ours", "other"},
   session : SessionState, page : {"screen", "mint", "onboarding"},
   signIn : {"idle", "connect", "verify", "me"}]

ScreenState ==
  [org : SessionState, loader : Nat, on : BOOLEAN, nonce : Nat, settled : Answer \cup {None},
   since : SUBSET Run, writes : SUBSET Run]

LoadState ==
  [pc : {"idle", "asked", "answered"}, live : BOOLEAN, loader : Nat, nonce : Nat,
   org : SessionState, seen : SUBSET Run]

FormState ==
  [kind : Form \cup {None}, run : Run \cup {None}, stage : {"idle", "busy", "done", "error"},
   warned : BOOLEAN]

RunState ==
  [kind : Form \cup {None},
   pc : {"unused", "preflight", "prepare", "sign", "sent", "mine", "record", "grant", "granting",
         "sync", "refresh", "over"},
   chain : {None, "ours", "other"}, known : BOOLEAN, granted : BOOLEAN]

ConsoleTypeOK ==
  /\ landed \subseteq Run /\ closed \subseteq Run /\ moves \in 0..MaxMoves
  /\ wallet \in {"ours", "other"}
  /\ channel \in Seq(Run \cup {"ours", "other", "unknown"})
  /\ me \in Org \cup {NoOrg} /\ cookie \in BOOLEAN
  /\ asks \subseteq [from : Run \cup {"boot", "signIn", "accounts", "overview"}, found : SessionState]
  /\ tab \in TabState /\ screen \in ScreenState /\ loads \in [Load -> LoadState]
  /\ form \in FormState /\ runs \in [Run -> RunState]

ConsoleInit ==
  /\ landed = {} /\ closed = {} /\ channel = <<>> /\ moves = 0
  /\ wallet = "ours"
  /\ me \in Org \cup {NoOrg} /\ cookie = TRUE
  /\ asks = {[from |-> "boot", found |-> me]}
  /\ tab = Booting
  /\ screen = NoScreen
  /\ loads = [l \in Load |-> NoLoad]
  /\ form = NoForm
  /\ runs = [r \in Run |-> Unused]

-----------------------------------------------------------------------------
(* What is rendered.                                                       *)

(* "Only meaningful once a chain is known."                                *)
wrongChain(t) == t.chainId = "other"

(* The gate every screen runs before it fetches. An unknown chain passes.  *)
gated(t) == wrongChain(t) \/ t.session = NoOrg

(* The sign-in control of the header.                                      *)
ConnectButton(t) ==
  IF t.session # None THEN "Sign out"
  ELSE IF t.signIn = "idle" THEN "Connect wallet" ELSE "Signing in"

(* What a form says of its write: the line under it, the alert when it did *)
(* not go through, and of a registration whether every role was granted.   *)
TransactionRail(f) ==
  CASE f.stage = "idle" -> "nothing" [] f.stage = "busy" -> "In progress"
    [] f.stage = "done" -> "Done"    [] f.stage = "error" -> "Stopped"

TransactionFailure(f) == IF f.stage = "error" THEN "The contract refused this" ELSE "nothing"

RegistrationSummary(f) ==
  [shown |-> f.kind = "register" /\ f.stage = "done", alert |-> f.warned]

fresh(s) == s.settled # None /\ s.settled.loader = s.loader /\ s.settled.nonce = s.nonce

status(s) == IF ~s.on THEN "idle"
             ELSE IF ~fresh(s) THEN "loading"
             ELSE IF s.settled.ok THEN "ready" ELSE "error"

status_anyNonce(s) == \* mutant: an earlier answer of the loader will do
  IF ~s.on THEN "idle"
  ELSE IF s.settled = None \/ s.settled.loader # s.loader THEN "loading"
  ELSE IF s.settled.ok THEN "ready" ELSE "error"

hasData(s) == s.settled # None /\ s.settled.ok

mounted_gateless(kind, t, s) == \* mutant: the gate covers the screen and its dialogs stay
  /\ kind # None /\ t.session # None /\ t.page = PageOf(kind)
  /\ t.page = "screen" => status(s) # "error" /\ hasData(s)
  /\ t.page = "onboarding" => t.chainId # "other" /\ t.session = NoOrg

(* A screen replaces its forms by a panel while it is gated, has failed,   *)
(* or has nothing to show. The mint wizard keeps its own state under the   *)
(* gate. Onboarding has nothing more to offer to a member.                 *)
mounted(kind, t, s) ==
  /\ kind # None /\ t.session # None /\ t.page = PageOf(kind)
  /\ t.page = "screen" => s.on /\ status(s) # "error" /\ (status(s) = "loading" => hasData(s))
  /\ t.page = "onboarding" => ~wrongChain(t) /\ t.session = NoOrg

(* useCallback makes a new loader when the organization changes.           *)
rerendered(t, s) ==
  IF t.session = None \/ t.page # "screen" THEN NoScreen
  ELSE [s EXCEPT !.org = t.session, !.on = ~gated(t),
                 !.loader = IF s.org = t.session THEN s.loader ELSE s.loader + 1]

(* The effect of useResource: when the loader or the nonce is another one, *)
(* what is in flight is cancelled and a request goes out.                  *)
fetch(ls, s) ==
  LET changed == <<s.on, s.loader, s.nonce>> # <<screen.on, screen.loader, screen.nonce>>
      cancelled == [l \in Load |-> [ls[l] EXCEPT !.live = FALSE]]
  IN
  IF s = NoScreen THEN loads' = [l \in Load |-> NoLoad]
  ELSE IF ~changed THEN loads' = ls
  ELSE IF ~s.on THEN loads' = cancelled
  ELSE \E l \in Load :
         /\ ls[l].pc = "idle"
         /\ loads' = [cancelled EXCEPT ![l] = [NoLoad EXCEPT !.pc = "asked", !.live = TRUE,
                                                 !.loader = s.loader, !.nonce = s.nonce, !.org = s.org]]

(* One render of the tab, with a resource and a form that may have been    *)
(* given something new. since is history: the writes there were when the   *)
(* list was last asked for because of a reload or another organization.    *)
render(t, s, ls, f) ==
  LET s1 == rerendered(t, s)
      asked == <<s1.loader, s1.nonce>> # <<screen.loader, screen.nonce>>
      s2 == IF s1 # NoScreen /\ asked THEN [s1 EXCEPT !.since = landed] ELSE s1
  IN
  /\ tab' = t
  /\ screen' = s2
  /\ fetch(ls, s2)
  /\ form' = IF mounted(f.kind, t, s2) THEN f ELSE NoForm

shows(t) == render(t, screen, loads, form)

showsForm(f) == render(tab, screen, loads, f)

(* The stage of a write is set in its own form, if that is still there.    *)
told(r, stage) == IF form.run = r THEN [form EXCEPT !.stage = stage] ELSE form

reloaded(s) == [s EXCEPT !.nonce = @ + 1]

-----------------------------------------------------------------------------
(* The list: use-resource.ts.                                              *)

(* A member route reads the chain for its answer.                          *)
serverReads(l) ==
  /\ loads[l].pc = "asked"
  /\ loads' = [loads EXCEPT ![l].pc = "answered", ![l].seen = landed]
  /\ UNCHANGED <<landed, wallet, channel, me, cookie, asks, tab, screen, form, runs, closed, moves>>

settles(l, ok) ==
  LET q == loads[l]
      answer == [ok |-> ok, loader |-> q.loader, nonce |-> q.nonce, org |-> q.org, seen |-> q.seen]
  IN render(tab, [screen EXCEPT !.settled = answer], [loads EXCEPT ![l] = NoLoad], form)

dropsLoad(l) ==
  /\ loads' = [loads EXCEPT ![l] = NoLoad]
  /\ UNCHANGED <<tab, screen, form>>

deliver_late(l, ok) == \* mutant: the cleanup does not cancel
  /\ IF ok THEN loads[l].pc = "answered" ELSE loads[l].pc # "idle"
  /\ settles(l, ok)
  /\ UNCHANGED <<landed, wallet, channel, me, cookie, asks, runs, closed, moves>>

(* An answer or an error arrives; the result remembers what asked for it.  *)
deliver(l, ok) ==
  /\ IF ok THEN loads[l].pc = "answered" ELSE loads[l].pc # "idle"
  /\ IF loads[l].live THEN settles(l, ok) ELSE dropsLoad(l)
  /\ UNCHANGED <<landed, wallet, channel, me, cookie, asks, runs, closed, moves>>

-----------------------------------------------------------------------------
(* Forms.                                                                  *)

open(kind) ==
  /\ form = NoForm
  /\ mounted(kind, tab, screen) /\ ~(kind = "mint" /\ gated(tab))
  /\ showsForm([NoForm EXCEPT !.kind = kind])
  /\ UNCHANGED <<landed, wallet, channel, me, cookie, asks, runs, closed, moves>>

(* A dialog is over the page: it keeps the focus, and its button, Escape   *)
(* and the backdrop do the same, ask it to close.                          *)
Modal == form.kind \in Dialogs

close_keepsList == \* mutant: the list is reloaded when the dialog is opened again
  /\ Modal /\ form.stage # "busy"
  /\ closed' = IF form.stage = "done" THEN closed \cup {form.run} ELSE closed
  /\ showsForm(NoForm)
  /\ UNCHANGED <<landed, wallet, channel, me, cookie, asks, runs, moves>>

(* close() of a dialog: refused while the hook is busy, which it is not    *)
(* yet while a registration checks its slug.                               *)
close ==
  /\ Modal /\ form.stage # "busy"
  /\ closed' = IF form.stage = "done" THEN closed \cup {form.run} ELSE closed
  /\ render(tab, IF form.stage = "done" THEN reloaded(screen) ELSE screen, loads, NoForm)
  /\ UNCHANGED <<landed, wallet, channel, me, cookie, asks, runs, moves>>

(* The other forms are left at any time, by a link, the back button or for *)
(* the next card.                                                          *)
leave ==
  /\ form # NoForm /\ ~Modal
  /\ showsForm(NoForm)
  /\ UNCHANGED <<landed, wallet, channel, me, cookie, asks, runs, closed, moves>>

-----------------------------------------------------------------------------
(* A write: run() of use-transaction.ts, with the specs the forms give it. *)

advance(r, pc) == runs' = [runs EXCEPT ![r].pc = pc]

keepsPage == UNCHANGED <<tab, screen, loads, form>>

started(kind) == IF kind \in Prepares THEN "prepare" ELSE "sign"

(* A registration looks its slug up through the wallet before the hook     *)
(* runs; without a wallet that is where it stops.                          *)
submit(r) ==
  /\ form.kind # None /\ runs[r].pc = "unused"
  /\ form.stage \in {"idle", "error"} \/ (form.kind = "card" /\ form.stage = "done")
  /\ form.run # None => runs[form.run].pc # "preflight"
  /\ ~gated(tab) \/ form.kind \in {"identity", "organisation"}
  /\ LET register == form.kind = "register"
         pc == IF ~tab.active THEN "over" ELSE IF register THEN "preflight" ELSE started(form.kind)
         stage == IF register THEN form.stage ELSE IF tab.active THEN "busy" ELSE "error"
     IN
     /\ runs' = [runs EXCEPT ![r] = [Unused EXCEPT !.kind = form.kind, !.pc = pc,
                                       !.known = tab.chainId # None]]
     /\ render(tab, IF form.kind = "card" THEN [screen EXCEPT !.writes = @ \cup {r}] ELSE screen, loads,
               [form EXCEPT !.run = r, !.stage = stage, !.warned = FALSE])
  /\ UNCHANGED <<landed, wallet, channel, me, cookie, asks, closed, moves>>

(* The slug is free on the wallet's chain, or it is not, or nobody there   *)
(* can tell.                                                               *)
preflight(r, ok) ==
  /\ runs[r].pc = "preflight"
  /\ ok => wallet = "ours"
  /\ advance(r, IF ok THEN "prepare" ELSE "over")
  /\ showsForm(IF ok THEN told(r, "busy") ELSE form)
  /\ UNCHANGED <<landed, wallet, channel, me, cookie, asks, closed, moves>>

prepare(r) ==
  /\ runs[r].pc = "prepare"
  /\ advance(r, "sign")
  /\ keepsPage
  /\ UNCHANGED <<landed, wallet, channel, me, cookie, asks, closed, moves>>

(* The owner approves and the wallet sends, to the chain it is on then.    *)
approve(r) ==
  /\ runs[r].pc = "sign"
  /\ runs' = [runs EXCEPT ![r].pc = "sent", ![r].chain = wallet]
  /\ channel' = Append(channel, r)
  /\ keepsPage
  /\ UNCHANGED <<landed, wallet, me, cookie, asks, closed, moves>>

(* Dismissing the prompt puts the form back as it was.                     *)
dismiss(r) ==
  /\ runs[r].pc = "sign"
  /\ advance(r, "over")
  /\ showsForm(told(r, "idle"))
  /\ UNCHANGED <<landed, wallet, channel, me, cookie, asks, closed, moves>>

(* The block. The new organization is the account's first membership.      *)
lands(r) ==
  /\ runs[r].chain = "ours" /\ r \notin landed
  /\ landed' = landed \cup {r}
  /\ IF runs[r].kind = "organisation" /\ me = NoOrg THEN me' \in Org ELSE me' = me
  /\ keepsPage
  /\ UNCHANGED <<wallet, channel, cookie, asks, runs, closed, moves>>

(* response.wait() returns.                                                *)
mined(r) ==
  /\ runs[r].pc = "mine"
  /\ runs[r].chain = "ours" => r \in landed
  /\ advance(r, "record")
  /\ keepsPage
  /\ UNCHANGED <<landed, wallet, channel, me, cookie, asks, closed, moves>>

(* A route refuses or fails, the transaction reverts, its receipt is not   *)
(* to be had, or the event is not in it or cannot be confirmed.            *)
writeFails(r) ==
  /\ runs[r].pc \in {"prepare", "sign", "mine"} \/ (runs[r].pc = "record" /\ runs[r].kind \in ReadsEvent)
  /\ advance(r, "over")
  /\ showsForm(told(r, "error"))
  /\ UNCHANGED <<landed, wallet, channel, me, cookie, asks, closed, moves>>

(* The record half. A mint and an organization are confirmed by what their *)
(* event names; a card reloads the list of the screen it was on; a         *)
(* registration goes on to grant the roles.                                *)
record(r) ==
  /\ runs[r].pc = "record"
  /\ runs[r].kind \in ReadsEvent => runs[r].chain = "ours"
  /\ advance(r, IF runs[r].kind = "register" THEN "grant" ELSE "sync")
  /\ IF r \in screen.writes THEN render(tab, reloaded(screen), loads, form) ELSE keepsPage
  /\ UNCHANGED <<landed, wallet, channel, me, cookie, asks, closed, moves>>

(* One setAppAccess per role, taken together: approved on one chain, or    *)
(* refused somewhere, which is reported in the form and not thrown.        *)
grant(r) ==
  /\ runs[r].pc = "grant"
  /\ runs' = [runs EXCEPT ![r].pc = "granting", ![r].granted = (wallet = "ours")]
  /\ channel' = Append(channel, r)
  /\ keepsPage
  /\ UNCHANGED <<landed, wallet, me, cookie, asks, closed, moves>>

grantRefused(r) ==
  /\ runs[r].pc = "grant"
  /\ advance(r, "sync")
  /\ showsForm(IF form.run = r THEN [form EXCEPT !.warned = TRUE] ELSE form)
  /\ UNCHANGED <<landed, wallet, channel, me, cookie, asks, closed, moves>>

(* syncAudit, whose failure is swallowed, and then refresh().              *)
sync(r) ==
  /\ runs[r].pc = "sync"
  /\ advance(r, "refresh")
  /\ asks' = asks \cup {[from |-> r, found |-> found]}
  /\ keepsPage
  /\ UNCHANGED <<landed, wallet, channel, me, cookie, closed, moves>>

-----------------------------------------------------------------------------
(* The wallet: its side of the provider and the page's.                    *)

(* What the wallet says of its chain reaches a page that listens.          *)
hear ==
  /\ channel # <<>>
  /\ LET said == Head(channel) IN
     IF said \in Run
     THEN /\ runs' = IF runs[said].pc = "over" THEN runs
                     ELSE [runs EXCEPT ![said].pc = IF @ = "sent" THEN "mine" ELSE "sync"]
          /\ keepsPage
     ELSE /\ shows(IF tab.listens THEN [tab EXCEPT !.chainId = IF said = "unknown" THEN None ELSE said]
                                  ELSE [tab EXCEPT !.missed = @ \/ tab.active])
          /\ UNCHANGED runs
  /\ channel' = Tail(channel)
  /\ UNCHANGED <<landed, wallet, me, cookie, asks, closed, moves>>

(* eth_chainId, whose failure leaves the chain unknown.                    *)
ChainRead == {wallet, None}

(* The silent reconnection of a page load: the wallet is chosen when it    *)
(* has answered. The effect that listens to it runs after that is on the   *)
(* page.                                                                   *)
reconnect ==
  /\ ~tab.active /\ channel = <<>>
  /\ \E c \in ChainRead : shows([tab EXCEPT !.active = TRUE, !.chainId = c])
  /\ UNCHANGED <<landed, wallet, channel, me, cookie, asks, runs, closed, moves>>

listen ==
  /\ tab.active /\ ~tab.listens
  /\ shows([tab EXCEPT !.listens = TRUE])
  /\ UNCHANGED <<landed, wallet, channel, me, cookie, asks, runs, closed, moves>>

(* signIn: the wallet is chosen before it is asked anything, and effects   *)
(* of a click run before what it waits for.                                *)
signIn ==
  /\ ConnectButton(tab) = "Connect wallet"
  /\ shows([tab EXCEPT !.active = TRUE, !.listens = TRUE, !.signIn = "connect"])
  /\ UNCHANGED <<landed, wallet, channel, me, cookie, asks, runs, closed, moves>>

readChain ==
  /\ tab.signIn = "connect" /\ channel = <<>>
  /\ \E c \in ChainRead : shows([tab EXCEPT !.chainId = c, !.signIn = "verify"])
  /\ UNCHANGED <<landed, wallet, channel, me, cookie, asks, runs, closed, moves>>

(* The challenge, the signature and its verification.                      *)
verified ==
  /\ tab.signIn = "verify"
  /\ cookie' = TRUE
  /\ asks' = asks \cup {[from |-> "signIn", found |-> me]}
  /\ shows([tab EXCEPT !.signIn = "me"])
  /\ UNCHANGED <<landed, wallet, channel, me, runs, closed, moves>>

signInFails ==
  /\ tab.signIn \in {"connect", "verify"}
  /\ shows([tab EXCEPT !.signIn = "idle"])
  /\ UNCHANGED <<landed, wallet, channel, me, cookie, asks, runs, closed, moves>>

-----------------------------------------------------------------------------
(* The session snapshot.                                                   *)

(* What becomes of an answer depends on who awaits it: the refresh of a    *)
(* write and the button on the overview, and a changed account, drop the   *)
(* session when the call fails; the other two leave it as it is.           *)
afterAnswer(q, s, ok) ==
  [tab EXCEPT !.session = IF ok THEN s ELSE IF q.from \in {"boot", "signIn"} THEN @ ELSE None,
              !.signIn = IF q.from = "signIn" THEN "idle" ELSE @]

(* The server may answer by what it finds at any time until then.          *)
answer(q, ok) ==
  /\ q \in asks
  /\ asks' = asks \ {q}
  /\ \E s \in {q.found, found} :
       LET done == q.from \in Run /\ runs[q.from].pc = "refresh" IN
       /\ runs' = IF done THEN [runs EXCEPT ![q.from].pc = "over"] ELSE runs
       /\ render(afterAnswer(q, s, ok), screen, loads, IF done THEN told(q.from, "done") ELSE form)
  /\ UNCHANGED <<landed, wallet, channel, me, cookie, closed, moves>>

moved == moves < MaxMoves /\ moves' = moves + 1

asksMe(from) ==
  /\ moved
  /\ asks' = asks \cup {[from |-> from, found |-> found]}
  /\ keepsPage
  /\ UNCHANGED <<landed, wallet, channel, me, cookie, runs, closed>>

(* Retry, on the panel that a failed list is replaced by.                  *)
retry ==
  /\ moved /\ status(screen) = "error"
  /\ render(tab, reloaded(screen), loads, form)
  /\ UNCHANGED <<landed, wallet, channel, me, cookie, asks, runs, closed>>

accountsChanged == tab.listens /\ asksMe("accounts")

reread == tab.session # None /\ asksMe("overview")

(* A failed logout request is swallowed.                                   *)
signOut ==
  /\ moved /\ ConnectButton(tab) = "Sign out"
  /\ cookie' \in {cookie, FALSE}
  /\ shows([tab EXCEPT !.session = None, !.signIn = "idle"])
  /\ UNCHANGED <<landed, wallet, channel, me, asks, runs, closed>>

(* What the wallet says when it is made to switch, or to add a chain it    *)
(* does not know: nothing if it is on it already.                          *)
switched == IF wallet = "ours" THEN <<>> ELSE <<"ours">>

(* "Switch network": the wallet notifies, and the page reads the chain.    *)
(* Nobody presses it before the effects of the page have run.              *)
fixChain ==
  /\ moved /\ tab.listens /\ wrongChain(tab)
  /\ wallet' = "ours"
  /\ \E read \in {"ours", "unknown"} : channel' = channel \o switched \o <<read>>
  /\ keepsPage
  /\ UNCHANGED <<landed, me, cookie, asks, runs, closed>>

(* The owner of the wallet, in the wallet.                                 *)
switchChain ==
  /\ moved
  /\ wallet' = IF wallet = "ours" THEN "other" ELSE "ours"
  /\ channel' = Append(channel, wallet')
  /\ keepsPage
  /\ UNCHANGED <<landed, me, cookie, asks, runs, closed>>

(* Other people change the memberships, other tabs sign out.               *)
elsewhere ==
  /\ moved
  /\ \/ me' \in (Org \cup {NoOrg}) \ {me} /\ UNCHANGED cookie
     \/ cookie /\ cookie' = FALSE /\ UNCHANGED me
  /\ keepsPage
  /\ UNCHANGED <<landed, wallet, channel, asks, runs, closed>>

navigate(page) ==
  /\ moved /\ tab.page # page
  /\ shows([tab EXCEPT !.page = page])
  /\ UNCHANGED <<landed, wallet, channel, me, cookie, asks, runs, closed>>

(* A reload of the page: what it was waiting for is nobody's any more.     *)
reloadPage ==
  /\ moved
  /\ runs' = [r \in Run |-> IF runs[r].pc = "unused" THEN Unused ELSE [runs[r] EXCEPT !.pc = "over"]]
  /\ asks' = {[from |-> "boot", found |-> found]}
  /\ channel' = <<>>
  /\ shows([Booting EXCEPT !.page = tab.page])
  /\ UNCHANGED <<landed, wallet, me, cookie, closed>>

runSteps(r) ==
  \/ submit(r) \/ prepare(r) \/ approve(r) \/ dismiss(r) \/ lands(r) \/ mined(r) \/ writeFails(r)
  \/ record(r) \/ grant(r) \/ grantRefused(r) \/ sync(r)
  \/ \E ok \in BOOLEAN : preflight(r, ok)

ConsoleNext ==
  \/ \E r \in Run : runSteps(r)
  \/ \E l \in Load : serverReads(l) \/ \E ok \in BOOLEAN : deliver(l, ok)
  \/ \E kind \in Kinds : open(kind)
  \/ \E q \in asks, ok \in BOOLEAN : answer(q, ok)
  \/ \E page \in {"screen", "mint", "onboarding"} : navigate(page)
  \/ retry \/ close \/ leave
  \/ hear \/ reconnect \/ listen \/ signIn \/ readChain \/ verified \/ signInFails
  \/ accountsChanged \/ reread \/ signOut \/ fixChain \/ switchChain \/ elsewhere \/ reloadPage

ConsoleSpec == ConsoleInit /\ [][ConsoleNext]_consoleVars

-----------------------------------------------------------------------------
(* A list that is shown as loaded is the current organization's and was    *)
(* read after a reload or a change of organization last asked for it; and  *)
(* a write whose dialog said done before it was closed is in it            *)
(* (use-resource.ts, onDone of the dialogs). When a gate lifts, the list   *)
(* of before is shown until the one that is asked for then arrives.        *)
ListIsCurrent ==
  status(screen) = "ready" =>
    /\ screen.settled.org = tab.session
    /\ screen.since \subseteq screen.settled.seen
    /\ closed \cap landed \subseteq screen.settled.seen

(* A screen that says it is loading is waiting for an answer that will be  *)
(* taken: answers that overtake each other do not leave it loading for     *)
(* ever (use-resource.ts).                                                 *)
LoadingIsAsking ==
  status(screen) = "loading" =>
    \E l \in Load : loads[l].live /\ loads[l].loader = screen.loader /\ loads[l].nonce = screen.nonce

(* A form that says done about a write which was started on a known chain  *)
(* is about a write that landed on owneX's, and a registration that says   *)
(* so without a warning has granted its roles there: whatever the wallet   *)
(* did after the one check of the chain (use-transaction.ts), and before   *)
(* it, unless it was switched in the moment of a page load in which the    *)
(* page had read the chain and did not listen yet (wallet-provider.tsx).   *)
DoneMeansLanded ==
  TransactionRail(form) = "Done" /\ runs[form.run].known /\ ~tab.missed =>
    /\ form.run \in landed
    /\ LET summary == RegistrationSummary(form) IN
       summary.shown /\ ~summary.alert => runs[form.run].granted

-----------------------------------------------------------------------------
(* What the interface says and the code does not keep.                     *)

(* "The contract refused this" (transaction-rail.tsx) stands over a write  *)
(* that is not on the chain. A mint whose record cannot be confirmed is.   *)
RefusedDidNotLand == TransactionFailure(form) = "The contract refused this" => form.run \notin landed

(* "You dismissed the request in your wallet" comes from a prompt that     *)
(* some form on the page asked for. A dialog closed during the look-up of  *)
(* its slug goes on without one.                                           *)
PromptsHaveForms == \A r \in Run : runs[r].pc = "sign" => form.run = r
=============================================================================
