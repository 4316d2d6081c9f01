----------------------- MODULE ApplicationRegistryProofs -----------------------
(***************************************************************************)
(* Theorems about the registry of applications, for any number of          *)
(* applications, callback URLs and requests, which overlap as they like    *)
(* and fail at any statement: a revocation holds unless a request that had *)
(* read the row before writes it back, callbacks are those that were asked *)
(* for, and the secret that was shown works unless two requests issued one *)
(* at the same time.                                                       *)
(***************************************************************************)
EXTENDS ApplicationRegistry, TLAPS

Pc == {"idle", "find", "write", "delete", "insert", "reply", "answered", "failed"}

(* Past its first write a request has a row to write to.                   *)
RowIsThere(q) ==
  \/ q.pc \in {"delete", "insert", "reply"}
  \/ q.pc = "write" /\ q.kind \in {"patch", "secret"}
  => applications[q.app].exists

AppsInv ==
  /\ applications \in [App -> Row]
  /\ callbacks \in [App -> SUBSET Url]
  /\ admin \in [AdminRequest -> Admin]
  /\ word \in [App -> Word]
  /\ met \in [AdminRequest -> SUBSET AdminRequest]
  /\ \A p \in App : callbacks[p] # {} => applications[p].exists
  /\ \A r \in AdminRequest : RowIsThere(admin[r])

Issues(q) ==
  \/ q.kind \in {"secret", "reprovision"}
  \/ q.kind \in {"post", "provision"} /\ q.found.secret = None

Running(q) == q.pc \in {"find", "write", "delete", "insert", "reply"}

Issuer(q) == Issues(q) /\ (q.pc = "find" => q.kind \in {"secret", "reprovision"})
Erases(q) == q.urls # {} /\ q.pc \in {"find", "write", "delete"}
Stale(q)  == q.pc = "write" /\ q.kind \in {"post", "provision", "reprovision"}
             /\ q.found.status # "revoked"

(* Requests on one application that are under way know of each other.      *)
MetKept ==
  /\ \A r, x \in AdminRequest :
       r # x /\ Running(admin[r]) /\ Running(admin[x]) /\ admin[r].app = admin[x].app => x \in met[r]
  /\ \A r \in AdminRequest : \A x \in met[r] : admin[x].pc # "idle"

(* The application is as administrators were promised, between any two     *)
(* statements.                                                             *)
WordKept(p) ==
  /\ callbacks[p] \subseteq word[p].urls
  /\ word[p].kept \subseteq callbacks[p]
  /\ word[p].revoked = "yes" => applications[p].status = "revoked"
  /\ word[p].secret # None => applications[p].secret = hashClientSecret(word[p].secret)

(* What a request under way has still to write breaks no promise.          *)
Harmless(q) ==
  Running(q) =>
    /\ word[q.app].revoked # "no" => ~activates(q.kind, q.status)
    /\ word[q.app].revoked = "yes" => ~Stale(q)
    /\ word[q.app].secret # None /\ q.pc \in {"find", "write"} => ~Issuer(q)
    /\ word[q.app].kept # {} => ~Erases(q)
    /\ q.kind \notin {"patch", "secret"} \/ q.pc \in {"delete", "insert"} => q.urls # {}

(* What is still there of its own writes is its own, or of one it has met. *)
Knows(r, q) ==
  /\ q.pc = "insert" => \A u \in callbacks[q.app] : \E x \in met[r] : u \in admin[x].urls
  /\ q.pc \in {"delete", "insert", "reply"} /\ Issues(q) /\ (\A x \in met[r] : ~Issuer(admin[x]))
       => applications[q.app].secret = hashClientSecret(r)

RacesInv ==
  /\ MetKept
  /\ \A p \in App : WordKept(p)
  /\ \A r \in AdminRequest : Harmless(admin[r]) /\ Knows(r, admin[r])

LEMMA IdleTyped == Idle \in Admin /\ ~(Idle.pc \in {"delete", "insert", "reply", "write"})
<1>1. (CHOOSE p \in App : TRUE) \in App
  BY AppsAssumption DEF AppsAssumption
<1>2. NoRow \in Row
  BY DEF NoRow, Row, Stored, Credential
<1>3. QED
  BY <1>1, <1>2 DEF Idle, Admin

LEMMA AppsInitInv == AppsInit => AppsInv
<1> SUFFICES ASSUME AppsInit PROVE AppsInv
  OBVIOUS
<1>1. NoRow \in Row /\ Draft \in Row /\ Draft.exists /\ Established \in Row /\ Established.exists
  BY AppsAssumption DEF NoRow, Draft, Established, Row, Stored, Credential, AppsAssumption
<1>2. applications \in [App -> Row]
  BY <1>1 DEF AppsInit
<1>3. callbacks \in [App -> SUBSET Url] /\ \A p \in App : callbacks[p] # {} => applications[p].exists
  BY <1>1 DEF AppsInit
<1>4. admin \in [AdminRequest -> Admin] /\ \A r \in AdminRequest : RowIsThere(admin[r])
  BY IdleTyped DEF AppsInit, RowIsThere
<1>5. word \in [App -> Word]
  BY <1>3 DEF AppsInit, Word, Credential
<1>6. met \in [AdminRequest -> SUBSET AdminRequest]
  BY DEF AppsInit
<1>7. QED
  BY <1>2, <1>3, <1>4, <1>5, <1>6 DEF AppsInv

(* A request moves on: it writes no row away.                              *)
LEMMA RequestMoves ==
  ASSUME AppsInv, NEW r \in AdminRequest, NEW q \in Admin, admin' = [admin EXCEPT ![r] = q],
         applications' \in [App -> Row], callbacks' \in [App -> SUBSET Url], word' \in [App -> Word],
         met' \in [AdminRequest -> SUBSET AdminRequest],
         \A p \in App : applications[p].exists => applications'[p].exists,
         \A p \in App : callbacks'[p] # {} => applications'[p].exists,
         RowIsThere(q)'
  PROVE  AppsInv'
<1>1. \A x \in AdminRequest : admin'[x] = IF x = r THEN q ELSE admin[x]
  BY DEF AppsInv
<1>2. admin' \in [AdminRequest -> Admin]
  BY DEF AppsInv
<1>3. ASSUME NEW x \in AdminRequest PROVE RowIsThere(admin[x])'
  <2>1. CASE x = r
    BY <1>1, <2>1 DEF RowIsThere
  <2>2. CASE x # r
    <3>1. admin'[x] = admin[x] /\ admin[x].app \in App
      BY <1>1, <2>2 DEF AppsInv, Admin
    <3>2. QED
      BY <3>1 DEF AppsInv, RowIsThere
  <2>3. QED
    BY <2>1, <2>2
<1>4. QED
  BY <1>2, <1>3 DEF AppsInv

(* What stays of a request that goes to another statement.                 *)
LEMMA GoesTo ==
  ASSUME AppsInv, NEW r \in AdminRequest, NEW pc \in Pc, goto(r, pc)
  PROVE  \E q \in Admin :
           /\ admin' = [admin EXCEPT ![r] = q]
           /\ q.pc = pc /\ q.kind = admin[r].kind /\ q.app = admin[r].app /\ q.urls = admin[r].urls
           /\ q.status = admin[r].status /\ q.found = admin[r].found
<1>1. PICK v \in Admin : v = admin[r]
  BY DEF AppsInv
<1>2. PICK q : q = [v EXCEPT !.pc = pc]
  OBVIOUS
<1>3. /\ q \in Admin /\ q.pc = pc /\ q.kind = v.kind /\ q.app = v.app /\ q.urls = v.urls
      /\ q.status = v.status /\ q.found = v.found
  BY <1>2 DEF Admin, Pc
<1>4. admin' = [admin EXCEPT ![r] = q]
  BY <1>1, <1>2 DEF goto
<1>5. QED
  BY <1>1, <1>3, <1>4

(* What a submitted request asks for.                                      *)
LEMMA Submitted ==
  ASSUME AppsInv, NEW r \in AdminRequest, NEW kind \in Kinds, NEW p \in App, NEW urls \in SUBSET Url,
         NEW status \in {"active", "revoked", "keep"}, submit(r, kind, p, urls, status)
  PROVE  \E q \in Admin :
           /\ admin' = [admin EXCEPT ![r] = q]
           /\ q.kind = kind /\ q.app = p /\ q.urls = urls /\ q.status = status
           /\ q.pc = IF kind = "seed" THEN "write" ELSE "find"
<1>1. PICK q : q = [pc |-> IF kind = "seed" THEN "write" ELSE "find", kind |-> kind, app |-> p,
                    urls |-> urls, status |-> status, found |-> NoRow]
  OBVIOUS
<1>2. NoRow \in Row
  BY DEF NoRow, Row, Stored, Credential
<1>3. q \in Admin
  BY <1>1, <1>2 DEF Admin
<1>4. QED
  BY <1>1, <1>3 DEF submit

(* The word kept of an application after a submission.                     *)
LEMMA SubmittedWord ==
  ASSUME AppsInv, NEW r, NEW kind, NEW p \in App, NEW urls, NEW status, submit(r, kind, p, urls, status)
  PROVE  /\ word' \in [App -> Word]
         /\ \A x \in App \ {p} : word'[x] = word[x]
         /\ word'[p].urls = word[p].urls
         /\ word'[p].revoked = IF activates(kind, status) THEN "no" ELSE word[p].revoked
         /\ word'[p].kept = IF urls = {} THEN word[p].kept ELSE {}
         /\ word'[p].secret = IF kind \in {"secret", "reprovision"} THEN None ELSE word[p].secret
<1>1. PICK v \in Word : v = word[p]
  BY DEF AppsInv
<1>2. PICK b : b = IF activates(kind, status) THEN "no" ELSE v.revoked
  OBVIOUS
<1>3. PICK k : k = IF urls = {} THEN v.kept ELSE {}
  OBVIOUS
<1>4. PICK c : c = IF kind \in {"secret", "reprovision"} THEN None ELSE v.secret
  OBVIOUS
<1>5. PICK w : w = [[[v EXCEPT !.revoked = b] EXCEPT !.kept = k] EXCEPT !.secret = c]
  OBVIOUS
<1>6. b \in {"no", "raced", "yes"} /\ k \in SUBSET Url /\ c \in Credential
  BY <1>2, <1>3, <1>4 DEF Word, Credential
<1>7. w \in Word /\ w.urls = v.urls /\ w.revoked = b /\ w.kept = k /\ w.secret = c
  BY <1>5, <1>6 DEF Word
<1>8. word' = [word EXCEPT ![p].revoked = b, ![p].kept = k, ![p].secret = c]
  BY <1>1, <1>2, <1>3, <1>4 DEF submit, AppsInv
<1>9. word' \in [App -> Word] /\ word'[p] = w /\ \A x \in App \ {p} : word'[x] = word[x]
  BY <1>1, <1>5, <1>7, <1>8 DEF AppsInv
<1>10. QED
  BY <1>1, <1>2, <1>3, <1>4, <1>7, <1>9

(* A request under way moves on; what it leaves the others on its          *)
(* application has to be harmless to them.                                 *)
LEMMA RaceMoves ==
  ASSUME AppsInv, RacesInv, NEW r \in AdminRequest, NEW q \in Admin, admin' = [admin EXCEPT ![r] = q],
         UNCHANGED met, Running(admin[r]), q.pc # "idle",
         q.app = admin[r].app, q.urls = admin[r].urls, Issuer(admin[r]) => Issuer(q),
         \A p \in App \ {q.app} : /\ word'[p] = word[p] /\ applications'[p] = applications[p]
                                  /\ callbacks'[p] = callbacks[p],
         WordKept(q.app)', Harmless(q)', Knows(r, q)',
         \A x \in AdminRequest \ {r} :
           Running(admin[x]) /\ admin[x].app = q.app => Harmless(admin[x])' /\ Knows(x, admin[x])'
  PROVE  RacesInv'
<1>1. \A x \in AdminRequest : admin'[x] = IF x = r THEN q ELSE admin[x]
  BY DEF AppsInv
<1>2. MetKept'
  <2>1. \A x \in AdminRequest : /\ Running(admin'[x]) => Running(admin[x])
                                /\ admin'[x].app = admin[x].app
                                /\ admin[x].pc # "idle" => admin'[x].pc # "idle"
    BY <1>1
  <2>2. \A x \in AdminRequest : met[x] \subseteq AdminRequest
    BY DEF AppsInv
  <2> QED BY <2>1, <2>2 DEF MetKept, RacesInv
<1>3. \A p \in App : WordKept(p)'
  <2>1. ASSUME NEW p \in App, p # q.app PROVE WordKept(p)'
    BY <2>1 DEF RacesInv, WordKept
  <2> QED BY <2>1
<1>4. ASSUME NEW x \in AdminRequest PROVE Harmless(admin[x])' /\ Knows(x, admin[x])'
  <2>1. CASE x = r
    BY <1>1, <2>1 DEF Harmless, Knows
  <2>2. CASE x # r /\ ~Running(admin[x])
    BY <1>1, <2>2 DEF Harmless, Knows, Running
  <2>3. CASE x # r /\ Running(admin[x]) /\ admin[x].app = q.app
    BY <2>3
  <2>4. CASE x # r /\ admin[x].app # q.app
    <3>1. admin'[x] = admin[x] /\ admin[x].app \in App
      BY <1>1, <2>4 DEF AppsInv, Admin
    <3>2. /\ word'[admin[x].app] = word[admin[x].app] /\ callbacks'[admin[x].app] = callbacks[admin[x].app]
          /\ applications'[admin[x].app] = applications[admin[x].app]
      BY <2>4, <3>1
    <3>3. \A y \in met[x] : y \in AdminRequest /\ admin'[y].urls = admin[y].urls
                            /\ (Issuer(admin[y]) => Issuer(admin'[y]))
      BY <1>1 DEF AppsInv
    <3>4. Harmless(admin[x])'
      BY <3>1, <3>2 DEF RacesInv, Harmless
    <3>5. Knows(x, admin[x])'
      <4>1. PICK z \in Admin : z = admin[x] /\ z = admin'[x]
        BY <3>1 DEF AppsInv
      <4>2. Knows(x, z)
        BY <4>1 DEF RacesInv
      <4>3. Knows(x, z)'
        BY <3>2, <3>3, <4>1, <4>2 DEF Knows
      <4> QED BY <4>1, <4>3 DEF Knows
    <3> QED BY <3>4, <3>5
  <2> QED BY <2>1, <2>2, <2>3, <2>4
<1> QED BY <1>2, <1>3, <1>4 DEF RacesInv

(* What those others know: the tables change as r has them change.         *)
LEMMA OthersKnow ==
  ASSUME AppsInv, RacesInv, NEW r \in AdminRequest, NEW q \in Admin, admin' = [admin EXCEPT ![r] = q],
         UNCHANGED met, Running(admin[r]), q.app = admin[r].app, q.urls = admin[r].urls,
         Issuer(admin[r]) => Issuer(q),
         \A u \in callbacks'[q.app] : u \in callbacks[q.app] \cup q.urls,
         applications'[q.app].secret = applications[q.app].secret \/ Issuer(q),
         NEW x \in AdminRequest \ {r}, Running(admin[x]), admin[x].app = q.app
  PROVE  Knows(x, admin[x])' /\ admin'[x] = admin[x]
<1>1. \A y \in AdminRequest : admin'[y] = IF y = r THEN q ELSE admin[y]
  BY DEF AppsInv
<1>2. r \in met[x]
  BY DEF RacesInv, MetKept
<1>3. \A y \in met[x] : y \in AdminRequest /\ admin'[y].urls = admin[y].urls
                        /\ (Issuer(admin[y]) => Issuer(admin'[y]))
  BY <1>1 DEF AppsInv
<1>4. admin'[x] = admin[x] /\ admin'[r] = q
  BY <1>1
<1>5. Knows(x, admin[x])
  BY DEF RacesInv
<1>6. Knows(x, admin[x])'
  BY <1>2, <1>3, <1>4, <1>5 DEF Knows
<1> QED BY <1>4, <1>6

-----------------------------------------------------------------------------
(* Each statement.                                                         *)

LEMMA SubmitInv ==
  ASSUME AppsInv, NEW r \in AdminRequest, NEW kind \in Kinds, NEW p \in App, NEW urls \in SUBSET Url,
         NEW status \in {"active", "revoked", "keep"}, submit(r, kind, p, urls, status)
  PROVE  AppsInv' /\ (RacesInv => RacesInv')
<1>1. PICK q \in Admin :
        /\ admin' = [admin EXCEPT ![r] = q]
        /\ q.kind = kind /\ q.app = p /\ q.urls = urls /\ q.status = status
        /\ q.pc = IF kind = "seed" THEN "write" ELSE "find"
  BY Submitted
<1>2. UNCHANGED <<applications, callbacks>>
  BY DEF submit
<1>3. /\ word' \in [App -> Word]
      /\ \A x \in App \ {p} : word'[x] = word[x]
      /\ word'[p].urls = word[p].urls
      /\ word'[p].revoked = IF activates(kind, status) THEN "no" ELSE word[p].revoked
      /\ word'[p].kept = IF urls = {} THEN word[p].kept ELSE {}
      /\ word'[p].secret = IF kind \in {"secret", "reprovision"} THEN None ELSE word[p].secret
  BY SubmittedWord
<1>4. PICK busy : busy = busyWith(p)
  OBVIOUS
<1>5. /\ met' \in [AdminRequest -> SUBSET AdminRequest]
      /\ met'[r] = busy
      /\ \A x \in AdminRequest \ {r} : met'[x] = IF x \in busy THEN met[x] \cup {r} ELSE met[x]
      /\ \A x \in AdminRequest : x \in busy <=> Running(admin[x]) /\ admin[x].app = p
      /\ busy \subseteq AdminRequest
  <2>1. met' = [x \in AdminRequest |-> IF x = r THEN busy
                                      ELSE IF x \in busy THEN met[x] \cup {r} ELSE met[x]]
    BY <1>4 DEF submit
  <2>2. busy \subseteq AdminRequest
    BY <1>4 DEF busyWith
  <2>3. \A x \in AdminRequest : running(x) <=> Running(admin[x])
    BY DEF running, Running, AppsInv, Admin
  <2>4. \A x \in AdminRequest : x \in busy <=> Running(admin[x]) /\ admin[x].app = p
    BY <1>4, <2>3 DEF busyWith
  <2> QED BY <2>1, <2>2, <2>4 DEF AppsInv
<1>6. AppsInv'
  <2>1. RowIsThere(q)'
    BY <1>1 DEF RowIsThere
  <2>2. QED
    BY <1>1, <1>2, <1>3, <1>5, <2>1, RequestMoves DEF AppsInv
<1>7. ASSUME RacesInv PROVE RacesInv'
  <2>1. /\ \A x \in AdminRequest : admin'[x] = IF x = r THEN q ELSE admin[x]
        /\ admin[r].pc = "idle" /\ \A x \in AdminRequest : admin[x].app \in App
        /\ \A x \in AdminRequest : met[x] \subseteq AdminRequest
    BY <1>1 DEF AppsInv, Admin, submit
  <2>2. MetKept'
    <3>1. ~Running(admin[r]) /\ q.pc # "idle"
      BY <1>1, <2>1 DEF Running
    <3>2. ASSUME NEW y \in AdminRequest, NEW x \in AdminRequest, y # x, Running(admin'[y]),
                 Running(admin'[x]), admin'[y].app = admin'[x].app
          PROVE  x \in met'[y]
      <4>1. CASE y = r
        BY <1>1, <1>5, <2>1, <3>2, <4>1
      <4>2. CASE x = r
        BY <1>1, <1>5, <2>1, <3>2, <4>2
      <4>3. CASE y # r /\ x # r
        BY <1>5, <1>7, <2>1, <3>2, <4>3 DEF RacesInv, MetKept
      <4> QED BY <4>1, <4>2, <4>3
    <3>3. ASSUME NEW y \in AdminRequest, NEW x \in met'[y] PROVE admin'[x].pc # "idle"
      <4>1. CASE x = r
        BY <2>1, <3>1, <4>1
      <4>2. CASE x # r
        <5>1. x \in met[y] \/ x \in busy
          BY <1>5, <3>3, <4>2
        <5>2. x \in AdminRequest /\ admin[x].pc # "idle"
          BY <1>5, <1>7, <2>1, <5>1 DEF RacesInv, MetKept, Running
        <5> QED BY <2>1, <4>2, <5>2
      <4> QED BY <4>1, <4>2
    <3> QED BY <3>2, <3>3 DEF MetKept
  <2>3. ASSUME NEW x \in App PROVE WordKept(x)'
    <3>1. WordKept(x)
      BY <1>7 DEF RacesInv
    <3> QED BY <1>2, <1>3, <3>1 DEF WordKept
  <2>4. Harmless(q)' /\ Knows(r, q)'
    <3>1. kind \notin {"patch", "secret"} => urls # {}
      BY DEF submit
    <3>2. Harmless(q)'
      BY <1>1, <1>3, <3>1 DEF Harmless, Stale, Issuer, Issues, Erases
    <3>3. Knows(r, q)'
      BY <1>1 DEF Knows
    <3> QED BY <3>2, <3>3
  <2>5. ASSUME NEW x \in AdminRequest, x # r PROVE Harmless(admin[x])' /\ Knows(x, admin[x])'
    <3>1. admin'[x] = admin[x] /\ Harmless(admin[x]) /\ Knows(x, admin[x]) /\ admin[x].app \in App
      BY <1>7, <2>1, <2>5 DEF RacesInv
    <3>2. Harmless(admin[x])'
      BY <1>3, <3>1 DEF Harmless
    <3>3. \A y \in met[x] : y \in met'[x] /\ admin'[y] = admin[y]
      BY <1>5, <1>7, <2>1, <2>5 DEF RacesInv, MetKept
    <3>4. Knows(x, admin[x])'
      BY <1>2, <3>1, <3>3 DEF Knows
    <3> QED BY <3>2, <3>4
  <2>6. \A x \in AdminRequest : Harmless(admin[x])' /\ Knows(x, admin[x])'
    <3>1. Harmless(admin[r])' /\ Knows(r, admin[r])'
      BY <2>1, <2>4 DEF Harmless, Knows
    <3> QED BY <2>5, <3>1
  <2> QED BY <2>2, <2>3, <2>6 DEF RacesInv
<1> QED BY <1>6, <1>7

LEMMA FindInv ==
  ASSUME AppsInv, NEW r \in AdminRequest, findApplication(r)
  PROVE  AppsInv' /\ (RacesInv => RacesInv')
<1>1. PICK v \in Admin : v = admin[r] /\ v.pc = "find" /\ v.app \in App
  BY DEF AppsInv, Admin, findApplication
<1>2. PICK q : q = [[v EXCEPT !.found = applications[v.app]]
                       EXCEPT !.pc = IF v.kind \in {"patch", "secret"} /\ ~applications[v.app].exists
                                     THEN "failed" ELSE "write"]
  OBVIOUS
<1>3. /\ q \in Admin /\ q.kind = v.kind /\ q.app = v.app /\ q.status = v.status /\ q.urls = v.urls
      /\ q.found = applications[v.app]
      /\ q.pc = IF v.kind \in {"patch", "secret"} /\ ~applications[v.app].exists
                THEN "failed" ELSE "write"
  <2>1. applications[v.app] \in Row
    BY <1>1 DEF AppsInv
  <2>2. QED
    BY <1>1, <1>2, <2>1 DEF Admin
<1>4. admin' = [admin EXCEPT ![r] = q]
  BY <1>1, <1>2 DEF findApplication, AppsInv, Admin
<1>5. UNCHANGED <<applications, callbacks, word, met>>
  BY DEF findApplication
<1>6. AppsInv'
  <2>1. RowIsThere(q)'
    BY <1>3, <1>5 DEF RowIsThere
  <2>2. QED
    BY <1>3, <1>4, <1>5, <2>1, RequestMoves DEF AppsInv
<1>7. ASSUME RacesInv PROVE RacesInv'
  <2>1. Running(v) /\ Harmless(v) /\ WordKept(v.app)
    BY <1>1, <1>7 DEF RacesInv, Running
  <2>2. Issuer(v) => Issuer(q)
    BY <1>1, <1>3 DEF Issuer, Issues
  <2>3. word[v.app].secret \in Credential
    BY <1>1 DEF AppsInv, Word
  <2>4. word[v.app].secret # None /\ q.pc = "write" => ~Issuer(q)
    <3>1. ASSUME word[v.app].secret # None PROVE ~Issues(q)
      <4>1. v.kind \notin {"secret", "reprovision"}
        BY <1>1, <2>1, <3>1 DEF Harmless, Issuer, Issues
      <4>2. q.found.secret # None
        BY <1>3, <2>1, <2>3, <3>1, AppsAssumption DEF WordKept, AppsAssumption
      <4> QED BY <1>3, <4>1, <4>2 DEF Issues
    <3> QED BY <3>1 DEF Issuer
  <2>5. Harmless(q)'
    <3>1. word[v.app].revoked = "yes" => ~Stale(q)
      BY <1>3, <2>1 DEF Stale, WordKept
    <3>2. word[v.app].kept # {} => ~Erases(q)
      BY <1>1, <1>3, <2>1 DEF Harmless, Erases
    <3> QED BY <1>1, <1>3, <1>5, <2>1, <2>4, <3>1, <3>2 DEF Harmless, Running
  <2>6. Knows(r, q)' /\ WordKept(q.app)'
    BY <1>3, <1>5, <2>1 DEF Knows, WordKept
  <2>7. ASSUME NEW x \in AdminRequest \ {r}, Running(admin[x]), admin[x].app = q.app
        PROVE  Harmless(admin[x])' /\ Knows(x, admin[x])'
    <3>1. Knows(x, admin[x])' /\ admin'[x] = admin[x]
      BY <1>1, <1>3, <1>4, <1>5, <1>7, <2>1, <2>2, <2>7, OthersKnow
    <3> QED BY <1>5, <1>7, <3>1 DEF RacesInv, Harmless
  <2>8. QED
    BY <1>1, <1>3, <1>4, <1>5, <1>7, <2>1, <2>2, <2>5, <2>6, <2>7, RaceMoves
<1>8. QED
  BY <1>6, <1>7

(* A row is written with nothing lost.                                     *)
LEMMA RowWritten ==
  ASSUME AppsInv, NEW p \in App, NEW row \in Row, row.exists,
         applications' = [applications EXCEPT ![p] = row], UNCHANGED callbacks
  PROVE  /\ applications' \in [App -> Row]
         /\ applications'[p] = row /\ \A x \in App \ {p} : applications'[x] = applications[x]
         /\ \A x \in App : applications[x].exists => applications'[x].exists
         /\ \A x \in App : callbacks'[x] # {} => applications'[x].exists
  BY DEF AppsInv

LEMMA UpsertInv ==
  ASSUME AppsInv, NEW r \in AdminRequest, upsert(r)
  PROVE  AppsInv' /\ (RacesInv => RacesInv')
<1>1. PICK v \in Admin : /\ v = admin[r] /\ v.pc = "write" /\ v.app \in App
                         /\ v.kind \in {"post", "provision", "reprovision"}
  BY DEF AppsInv, Admin, upsert, registers
<1>2. PICK q \in Admin :
        /\ admin' = [admin EXCEPT ![r] = q]
        /\ q.pc = "delete" /\ q.kind = v.kind /\ q.app = v.app /\ q.urls = v.urls
        /\ q.status = v.status /\ q.found = v.found
  BY <1>1, GoesTo DEF upsert, Pc
<1>3. PICK row : row =
        [exists |-> TRUE,
         clientId |-> IF v.found.clientId = None THEN r ELSE v.found.clientId,
         secret |-> IF issues(r) THEN hashClientSecret(r) ELSE applications[v.app].secret,
         status |-> IF v.found.status = "revoked" THEN "revoked" ELSE "active"]
  OBVIOUS
<1>4. issues(r) <=> Issues(v)
  BY <1>1 DEF issues, Issues
<1>5. /\ row \in Row /\ row.exists
      /\ row.secret = IF Issues(v) THEN hashClientSecret(r) ELSE applications[v.app].secret
      /\ row.status = IF v.found.status = "revoked" THEN "revoked" ELSE "active"
  <2>1. v.found \in Row /\ applications[v.app] \in Row
    BY <1>1 DEF Admin, AppsInv
  <2>2. hashClientSecret(r) \in Stored
    BY AppsAssumption DEF AppsAssumption, Stored, Credential
  <2>3. QED
    BY <1>3, <1>4, <2>1, <2>2 DEF Row, Credential
<1>6. applications' = [applications EXCEPT ![v.app] = row] /\ UNCHANGED <<callbacks, word, met>>
  BY <1>1, <1>3 DEF upsert, AppsInv
<1>7. /\ applications' \in [App -> Row]
      /\ applications'[v.app] = row /\ \A x \in App \ {v.app} : applications'[x] = applications[x]
      /\ \A x \in App : applications[x].exists => applications'[x].exists
      /\ \A x \in App : callbacks'[x] # {} => applications'[x].exists
  BY <1>1, <1>5, <1>6, RowWritten
<1>8. AppsInv'
  <2>1. RowIsThere(q)'
    BY <1>2, <1>5, <1>7 DEF RowIsThere
  <2>2. QED
    BY <1>2, <1>6, <1>7, <2>1, RequestMoves DEF AppsInv
<1>9. ASSUME RacesInv PROVE RacesInv'
  <2>1. Running(v) /\ Harmless(v) /\ WordKept(v.app)
    BY <1>1, <1>9 DEF RacesInv, Running
  <2>2. (Issuer(v) <=> Issues(v)) /\ (Issuer(q) <=> Issues(v)) /\ (Issues(q) <=> Issues(v))
    BY <1>1, <1>2 DEF Issuer, Issues
  <2>3. word[v.app].secret # None => row.secret = applications[v.app].secret
    BY <1>1, <1>5, <2>1, <2>2 DEF Harmless
  <2>4. word[v.app].revoked = "yes" => row.status = "revoked"
    BY <1>1, <1>5, <2>1 DEF Harmless, Stale
  <2>5. WordKept(q.app)'
    BY <1>2, <1>6, <1>7, <2>1, <2>3, <2>4 DEF WordKept
  <2>6. Harmless(q)'
    <3>1. word[v.app].kept # {} => ~Erases(q)
      BY <1>1, <1>2, <2>1 DEF Harmless, Erases
    <3>2. ~Stale(q) /\ q.urls # {}
      BY <1>1, <1>2, <2>1 DEF Stale, Harmless
    <3>3. word' = word
      BY <1>6
    <3> QED BY <1>1, <1>2, <2>1, <3>1, <3>2, <3>3 DEF Harmless
  <2>7. Knows(r, q)'
    BY <1>2, <1>5, <1>7, <2>2 DEF Knows
  <2>8. ASSUME NEW x \in AdminRequest \ {r}, Running(admin[x]), admin[x].app = q.app
        PROVE  Harmless(admin[x])' /\ Knows(x, admin[x])'
    <3>1. Knows(x, admin[x])' /\ admin'[x] = admin[x]
      <4>1. UNCHANGED <<callbacks, met>>
        BY <1>6
      <4>2. applications'[q.app].secret = applications[q.app].secret \/ Issuer(q)
        BY <1>2, <1>5, <1>7, <2>2
      <4>3. Issuer(admin[r]) => Issuer(q)
        BY <1>1, <2>2
      <4> QED BY <1>1, <1>2, <1>9, <2>1, <2>8, <4>1, <4>2, <4>3, OthersKnow
    <3> QED BY <1>6, <1>9, <3>1 DEF RacesInv, Harmless
  <2>9. QED
    BY <1>1, <1>2, <1>6, <1>7, <1>9, <2>1, <2>2, <2>5, <2>6, <2>7, <2>8, RaceMoves
<1>10. QED
  BY <1>8, <1>9

LEMMA SeedInv ==
  ASSUME AppsInv, NEW r \in AdminRequest, upsertSeed(r)
  PROVE  AppsInv' /\ (RacesInv => RacesInv')
<1>1. PICK v \in Admin : v = admin[r] /\ v.pc = "write" /\ v.app \in App /\ v.kind = "seed"
  BY DEF AppsInv, Admin, upsertSeed
<1>2. PICK q \in Admin :
        /\ admin' = [admin EXCEPT ![r] = q]
        /\ q.pc = "delete" /\ q.kind = v.kind /\ q.app = v.app /\ q.urls = v.urls
        /\ q.status = v.status /\ q.found = v.found
  BY <1>1, GoesTo DEF upsertSeed, Pc
<1>3. PICK row : row = [[applications[v.app] EXCEPT !.exists = TRUE] EXCEPT !.status = "active"]
  OBVIOUS
<1>4. row \in Row /\ row.exists /\ row.secret = applications[v.app].secret
  <2>1. applications[v.app] \in Row
    BY <1>1 DEF AppsInv
  <2>2. QED
    BY <1>3, <2>1 DEF Row
<1>5. applications' = [applications EXCEPT ![v.app] = row] /\ UNCHANGED <<callbacks, word, met>>
  BY <1>1, <1>3 DEF upsertSeed, AppsInv
<1>6. /\ applications' \in [App -> Row]
      /\ applications'[v.app] = row /\ \A x \in App \ {v.app} : applications'[x] = applications[x]
      /\ \A x \in App : applications[x].exists => applications'[x].exists
      /\ \A x \in App : callbacks'[x] # {} => applications'[x].exists
  BY <1>1, <1>4, <1>5, RowWritten
<1>7. AppsInv'
  <2>1. RowIsThere(q)'
    BY <1>2, <1>4, <1>6 DEF RowIsThere
  <2>2. QED
    BY <1>2, <1>5, <1>6, <2>1, RequestMoves DEF AppsInv
<1>8. ASSUME RacesInv PROVE RacesInv'
  <2>1. Running(v) /\ Harmless(v) /\ WordKept(v.app)
    BY <1>1, <1>8 DEF RacesInv, Running
  <2>2. word[v.app].revoked = "no"
    BY <1>1, <2>1 DEF Harmless, activates
  <2>3. ~Issues(v) /\ ~Issues(q)
    BY <1>1, <1>2 DEF Issues
  <2>4. WordKept(q.app)'
    BY <1>2, <1>4, <1>5, <1>6, <2>1, <2>2 DEF WordKept
  <2>5. Harmless(q)'
    <3>1. word[v.app].kept # {} => ~Erases(q)
      BY <1>1, <1>2, <2>1 DEF Harmless, Erases
    <3>2. ~Stale(q) /\ q.urls # {}
      BY <1>1, <1>2, <2>1 DEF Stale, Harmless
    <3>3. word' = word
      BY <1>5
    <3> QED BY <1>2, <2>2, <3>1, <3>2, <3>3 DEF Harmless
  <2>6. Knows(r, q)'
    BY <1>2, <2>3 DEF Knows
  <2>7. ASSUME NEW x \in AdminRequest \ {r}, Running(admin[x]), admin[x].app = q.app
        PROVE  Harmless(admin[x])' /\ Knows(x, admin[x])'
    <3>1. Knows(x, admin[x])' /\ admin'[x] = admin[x]
      <4>1. UNCHANGED <<callbacks, met>>
        BY <1>5
      <4>2. applications'[q.app].secret = applications[q.app].secret
        BY <1>2, <1>4, <1>6
      <4>3. Issuer(admin[r]) => Issuer(q)
        BY <1>1, <2>3 DEF Issuer
      <4> QED BY <1>1, <1>2, <1>8, <2>1, <2>7, <4>1, <4>2, <4>3, OthersKnow
    <3> QED BY <1>5, <1>8, <3>1 DEF RacesInv, Harmless
  <2>8. QED
    BY <1>1, <1>2, <1>5, <1>6, <1>8, <2>1, <2>3, <2>4, <2>5, <2>6, <2>7, RaceMoves DEF Issuer
<1>9. QED
  BY <1>7, <1>8

LEMMA UpdateInv ==
  ASSUME AppsInv, NEW r \in AdminRequest, update(r)
  PROVE  AppsInv' /\ (RacesInv => RacesInv')
<1>1. PICK v \in Admin : v = admin[r] /\ v.pc = "write" /\ v.app \in App /\ v.kind = "patch"
  BY DEF AppsInv, Admin, update
<1>2. PICK q \in Admin :
        /\ admin' = [admin EXCEPT ![r] = q]
        /\ q.pc = (IF v.urls = {} THEN "reply" ELSE "delete") /\ q.kind = v.kind /\ q.app = v.app
        /\ q.urls = v.urls /\ q.status = v.status /\ q.found = v.found
  BY <1>1, GoesTo DEF update, Pc
<1>3. PICK row : row = [applications[v.app] EXCEPT !.status = IF v.status = "keep"
                                                             THEN applications[v.app].status
                                                             ELSE v.status]
  OBVIOUS
<1>4. /\ row \in Row /\ row.exists /\ row.secret = applications[v.app].secret
      /\ row.status = IF v.status = "keep" THEN applications[v.app].status ELSE v.status
  <2>1. applications[v.app] \in Row /\ applications[v.app].exists
    BY <1>1 DEF AppsInv, RowIsThere
  <2>2. v.status \in {"active", "revoked", "keep"}
    BY <1>1 DEF Admin
  <2>3. QED
    BY <1>3, <2>1, <2>2 DEF Row
<1>5. applications' = [applications EXCEPT ![v.app] = row] /\ UNCHANGED <<callbacks, met>>
  BY <1>1, <1>3 DEF update, AppsInv
<1>6. PICK b \in {"no", "raced", "yes"} :
        /\ word' = [word EXCEPT ![v.app].revoked = b]
        /\ b = IF v.status = "revoked" THEN revocation(r) ELSE word[v.app].revoked
  <2>1. PICK c \in {"no", "raced", "yes"} : c = word[v.app].revoked
    BY <1>1 DEF AppsInv, Word
  <2>2. PICK d \in {"no", "raced", "yes"} : d = revocation(r)
    BY DEF revocation
  <2>3. word' = [word EXCEPT ![v.app].revoked = IF v.status = "revoked" THEN d ELSE c]
    BY <1>1, <2>1, <2>2 DEF update, AppsInv
  <2>4. QED
    BY <2>1, <2>2, <2>3
<1>7. /\ word' \in [App -> Word] /\ \A x \in App \ {v.app} : word'[x] = word[x]
      /\ word'[v.app].revoked = b /\ word'[v.app].urls = word[v.app].urls
      /\ word'[v.app].kept = word[v.app].kept /\ word'[v.app].secret = word[v.app].secret
  <2>1. PICK w : w = [word[v.app] EXCEPT !.revoked = b]
    OBVIOUS
  <2>2. /\ w \in Word /\ w.revoked = b /\ w.urls = word[v.app].urls
        /\ w.kept = word[v.app].kept /\ w.secret = word[v.app].secret
    BY <1>1, <2>1 DEF AppsInv, Word
  <2>3. QED
    BY <1>1, <1>6, <2>1, <2>2 DEF AppsInv
<1>8. /\ applications' \in [App -> Row]
      /\ applications'[v.app] = row /\ \A x \in App \ {v.app} : applications'[x] = applications[x]
      /\ \A x \in App : applications[x].exists => applications'[x].exists
      /\ \A x \in App : callbacks'[x] # {} => applications'[x].exists
  BY <1>1, <1>4, <1>5, RowWritten
<1>9. AppsInv'
  <2>1. RowIsThere(q)'
    BY <1>2, <1>4, <1>8 DEF RowIsThere
  <2>2. QED
    BY <1>2, <1>5, <1>7, <1>8, <2>1, RequestMoves DEF AppsInv
<1>10. ASSUME RacesInv PROVE RacesInv'
  <2>1. Running(v) /\ Harmless(v) /\ WordKept(v.app)
    BY <1>1, <1>10 DEF RacesInv, Running
  <2>2. ~Issues(v) /\ ~Issues(q)
    BY <1>1, <1>2 DEF Issues
  <2>3. v.status = "active" => word[v.app].revoked = "no" /\ b = "no"
    BY <1>1, <1>6, <2>1 DEF Harmless, activates
  <2>4. v.status \in {"active", "revoked", "keep"}
    BY <1>1 DEF Admin
  <2>5. WordKept(q.app)'
    <3>1. b = "yes" => row.status = "revoked"
      BY <1>4, <1>6, <2>1, <2>3, <2>4 DEF WordKept
    <3> QED BY <1>2, <1>4, <1>5, <1>7, <1>8, <2>1, <3>1 DEF WordKept
  <2>6. Harmless(q)'
    <3>1. word'[v.app].revoked # "no" => ~activates(q.kind, q.status)
      BY <1>1, <1>2, <1>7, <2>3 DEF activates
    <3>2. word'[v.app].kept # {} => ~Erases(q)
      BY <1>1, <1>2, <1>7, <2>1 DEF Harmless, Erases
    <3>3. ~Stale(q)
      BY <1>2 DEF Stale
    <3>4. q.urls = {} => q.pc = "reply"
      BY <1>2
    <3>5. q.pc \in {"reply", "delete"} /\ q.kind = "patch"
      BY <1>1, <1>2
    <3> QED BY <1>2, <3>1, <3>2, <3>3, <3>4, <3>5 DEF Harmless
  <2>7. Knows(r, q)'
    BY <1>2, <2>2 DEF Knows
  <2>8. ASSUME NEW x \in AdminRequest \ {r}, Running(admin[x]), admin[x].app = q.app
        PROVE  Harmless(admin[x])' /\ Knows(x, admin[x])'
    <3>1. Knows(x, admin[x])' /\ admin'[x] = admin[x]
      <4>1. UNCHANGED <<callbacks, met>>
        BY <1>5
      <4>2. applications'[q.app].secret = applications[q.app].secret
        BY <1>2, <1>4, <1>8
      <4>3. Issuer(admin[r]) => Issuer(q)
        BY <1>1, <2>2 DEF Issuer
      <4> QED BY <1>1, <1>2, <1>10, <2>1, <2>8, <4>1, <4>2, <4>3, OthersKnow
    <3>2. Harmless(admin[x])
      BY <1>10 DEF RacesInv
    <3>3. x \in rivals(r)
      BY <1>1, <1>2, <2>8 DEF rivals, busyWith, running, Running
    <3>4. v.status = "revoked" => /\ b # "no" => ~activates(admin[x].kind, admin[x].status)
                                  /\ b = "yes" => ~stale(x)
      BY <1>6, <3>3 DEF revocation
    <3>5. Stale(admin[x]) => stale(x)
      BY DEF Stale, stale, registers
    <3>6. /\ b # "no" => ~activates(admin[x].kind, admin[x].status)
          /\ b = "yes" => ~Stale(admin[x])
      BY <1>2, <1>6, <2>8, <3>2, <3>4, <3>5 DEF Harmless
    <3>7. Harmless(admin[x])'
      <4>1. PICK z : z = admin[x] /\ z = admin'[x]
        BY <3>1
      <4>2. /\ z.app = v.app /\ Harmless(z)
            /\ b # "no" => ~activates(z.kind, z.status)
            /\ b = "yes" => ~Stale(z)
        BY <1>2, <2>8, <3>2, <3>6, <4>1
      <4>3. Harmless(z)'
        BY <1>7, <4>2 DEF Harmless
      <4> QED BY <4>1, <4>3 DEF Harmless
    <3> QED BY <3>1, <3>7
  <2>9. QED
    <3>1. UNCHANGED <<callbacks, met>> /\ q.pc # "idle" /\ q.app = v.app
      BY <1>2, <1>5
    <3>2. Issuer(admin[r]) => Issuer(q)
      BY <1>1, <2>2 DEF Issuer
    <3>3. \A p \in App \ {q.app} : word'[p] = word[p] /\ applications'[p] = applications[p]
      BY <1>7, <1>8, <3>1
    <3> QED
      BY <1>1, <1>2, <1>10, <2>1, <2>5, <2>6, <2>7, <2>8, <3>1, <3>2, <3>3, RaceMoves
<1>11. QED
  BY <1>9, <1>10

LEMMA RotateInv ==
  ASSUME AppsInv, NEW r \in AdminRequest, rotate(r)
  PROVE  AppsInv' /\ (RacesInv => RacesInv')
<1>1. PICK v \in Admin : v = admin[r] /\ v.pc = "write" /\ v.app \in App /\ v.kind = "secret"
  BY DEF AppsInv, Admin, rotate
<1>2. PICK q \in Admin :
        /\ admin' = [admin EXCEPT ![r] = q]
        /\ q.pc = "reply" /\ q.kind = v.kind /\ q.app = v.app /\ q.urls = v.urls
        /\ q.status = v.status /\ q.found = v.found
  BY <1>1, GoesTo DEF rotate, Pc
<1>3. PICK row : row = [[applications[v.app]
                           EXCEPT !.clientId = IF v.found.clientId = None THEN r ELSE v.found.clientId]
                           EXCEPT !.secret = hashClientSecret(r)]
  OBVIOUS
<1>4. /\ row \in Row /\ row.exists /\ row.secret = hashClientSecret(r)
      /\ row.status = applications[v.app].status
  <2>1. applications[v.app] \in Row /\ applications[v.app].exists
    BY <1>1 DEF AppsInv, RowIsThere
  <2>2. v.found \in Row
    BY <1>1 DEF Admin
  <2>3. hashClientSecret(r) \in Stored
    BY AppsAssumption DEF AppsAssumption, Stored, Credential
  <2>4. QED
    BY <1>3, <2>1, <2>2, <2>3 DEF Row, Credential
<1>5. applications' = [applications EXCEPT ![v.app] = row] /\ UNCHANGED <<callbacks, word, met>>
  BY <1>1, <1>3 DEF rotate, AppsInv
<1>6. /\ applications' \in [App -> Row]
      /\ applications'[v.app] = row /\ \A x \in App \ {v.app} : applications'[x] = applications[x]
      /\ \A x \in App : applications[x].exists => applications'[x].exists
      /\ \A x \in App : callbacks'[x] # {} => applications'[x].exists
  BY <1>1, <1>4, <1>5, RowWritten
<1>7. AppsInv'
  <2>1. RowIsThere(q)'
    BY <1>2, <1>4, <1>6 DEF RowIsThere
  <2>2. QED
    BY <1>2, <1>5, <1>6, <2>1, RequestMoves DEF AppsInv
<1>8. ASSUME RacesInv PROVE RacesInv'
  <2>1. Running(v) /\ Harmless(v) /\ WordKept(v.app)
    BY <1>1, <1>8 DEF RacesInv, Running
  <2>2. Issuer(v) /\ Issuer(q)
    BY <1>1, <1>2 DEF Issuer, Issues
  <2>3. word[v.app].secret = None
    BY <1>1, <2>1, <2>2 DEF Harmless
  <2>4. WordKept(q.app)'
    BY <1>2, <1>4, <1>5, <1>6, <2>1, <2>3 DEF WordKept
  <2>5. Harmless(q)'
    <3>1. word' = word
      BY <1>5
    <3>2. ~Stale(q) /\ ~Erases(q) /\ ~activates(q.kind, q.status)
      BY <1>1, <1>2 DEF Stale, Erases, activates
    <3> QED BY <1>1, <1>2, <3>1, <3>2 DEF Harmless
  <2>6. Knows(r, q)'
    BY <1>2, <1>4, <1>6 DEF Knows
  <2>7. ASSUME NEW x \in AdminRequest \ {r}, Running(admin[x]), admin[x].app = q.app
        PROVE  Harmless(admin[x])' /\ Knows(x, admin[x])'
    <3>1. Knows(x, admin[x])' /\ admin'[x] = admin[x]
      <4>1. UNCHANGED <<callbacks, met>>
        BY <1>5
      <4> QED BY <1>1, <1>2, <1>8, <2>1, <2>2, <2>7, <4>1, OthersKnow
    <3> QED BY <1>5, <1>8, <3>1 DEF RacesInv, Harmless
  <2>8. QED
    BY <1>1, <1>2, <1>5, <1>6, <1>8, <2>1, <2>2, <2>4, <2>5, <2>6, <2>7, RaceMoves
<1>9. QED
  BY <1>7, <1>8

LEMMA DeleteInv ==
  ASSUME AppsInv, NEW r \in AdminRequest, deleteCallbacks(r)
  PROVE  AppsInv' /\ (RacesInv => RacesInv')
<1>1. PICK v \in Admin : v = admin[r] /\ v.pc = "delete" /\ v.app \in App
  BY DEF AppsInv, Admin, deleteCallbacks
<1>2. PICK q \in Admin :
        /\ admin' = [admin EXCEPT ![r] = q]
        /\ q.pc = "insert" /\ q.kind = v.kind /\ q.app = v.app /\ q.urls = v.urls
        /\ q.status = v.status /\ q.found = v.found
  BY <1>1, GoesTo DEF deleteCallbacks, Pc
<1>3. /\ UNCHANGED <<applications, word, met>>
      /\ callbacks' \in [App -> SUBSET Url]
      /\ \A p \in App : callbacks'[p] = IF p = v.app THEN {} ELSE callbacks[p]
  BY <1>1 DEF deleteCallbacks, AppsInv
<1>4. AppsInv'
  <2>1. RowIsThere(v)
    BY <1>1 DEF AppsInv
  <2>2. RowIsThere(q)'
    BY <1>1, <1>2, <1>3, <2>1 DEF RowIsThere
  <2>3. QED
    BY <1>2, <1>3, <2>2, RequestMoves DEF AppsInv
<1>5. ASSUME RacesInv PROVE RacesInv'
  <2>1. Running(v) /\ Harmless(v) /\ WordKept(v.app) /\ Knows(r, v)
    BY <1>1, <1>5 DEF RacesInv, Running
  <2>2. (Issuer(v) => Issuer(q)) /\ (Issues(q) <=> Issues(v))
    BY <1>1, <1>2 DEF Issuer, Issues
  <2>3. word[v.app].kept = {} /\ v.urls # {}
    BY <1>1, <2>1 DEF Harmless, Erases
  <2>4. WordKept(q.app)'
    BY <1>1, <1>2, <1>3, <2>1, <2>3 DEF WordKept
  <2>5. Harmless(q)'
    BY <1>1, <1>2, <1>3, <2>1, <2>3 DEF Harmless, Stale, Erases
  <2>6. ASSUME NEW x \in AdminRequest \ {r}, Running(admin[x]), admin[x].app = q.app
        PROVE  Harmless(admin[x])' /\ Knows(x, admin[x])'
    <3>1. Knows(x, admin[x])' /\ admin'[x] = admin[x]
      BY <1>1, <1>2, <1>3, <1>5, <2>1, <2>2, <2>6, OthersKnow
    <3> QED BY <1>3, <1>5, <3>1 DEF RacesInv, Harmless
  <2>7. Knows(r, q)'
    <3>1. \A x \in met[r] : Issuer(admin'[x]) <=> Issuer(admin[x])
      <4>1. \A x \in AdminRequest : admin'[x] = IF x = r THEN q ELSE admin[x]
        BY <1>2 DEF AppsInv
      <4>2. Issuer(v) <=> Issuer(q)
        BY <1>1, <1>2, <2>2 DEF Issuer
      <4>3. met[r] \subseteq AdminRequest
        BY DEF AppsInv
      <4> QED BY <1>1, <4>1, <4>2, <4>3
    <3> QED BY <1>1, <1>2, <1>3, <2>1, <2>2, <3>1 DEF Knows
  <2>8. QED
    BY <1>1, <1>2, <1>3, <1>5, <2>1, <2>2, <2>4, <2>5, <2>6, <2>7, RaceMoves
<1>6. QED
  BY <1>4, <1>5

LEMMA FailsInv ==
  ASSUME AppsInv, NEW r \in AdminRequest, goto(r, "failed"), running(r),
         UNCHANGED <<applications, callbacks, word, met>>
  PROVE  AppsInv' /\ (RacesInv => RacesInv')
<1>1. PICK v \in Admin : v = admin[r] /\ v.app \in App /\ Running(v)
  BY DEF running, Running, AppsInv, Admin
<1>2. PICK q \in Admin :
        /\ admin' = [admin EXCEPT ![r] = q]
        /\ q.pc = "failed" /\ q.kind = v.kind /\ q.app = v.app /\ q.urls = v.urls
        /\ q.status = v.status /\ q.found = v.found
  BY <1>1, GoesTo DEF Pc
<1>3. RowIsThere(q)' /\ Harmless(q)' /\ Knows(r, q)'
  BY <1>2 DEF RowIsThere, Harmless, Knows, Running
<1>4. AppsInv'
  BY <1>2, <1>3, RequestMoves DEF AppsInv
<1>5. ASSUME RacesInv PROVE RacesInv'
  <2>1. Issuer(v) => Issuer(q)
    BY <1>2 DEF Issuer, Issues
  <2>2. WordKept(q.app)'
    BY <1>1, <1>2, <1>5 DEF RacesInv, WordKept
  <2>3. ASSUME NEW x \in AdminRequest \ {r}, Running(admin[x]), admin[x].app = q.app
        PROVE  Harmless(admin[x])' /\ Knows(x, admin[x])'
    <3>1. Knows(x, admin[x])' /\ admin'[x] = admin[x]
      BY <1>1, <1>2, <1>5, <2>1, <2>3, OthersKnow
    <3> QED BY <1>5, <3>1 DEF RacesInv, Harmless
  <2> QED
    BY <1>1, <1>2, <1>3, <1>5, <2>1, <2>2, <2>3, RaceMoves
<1>6. QED
  BY <1>4, <1>5

LEMMA InsertInv ==
  ASSUME AppsInv, NEW r \in AdminRequest, insertCallbacks(r)
  PROVE  AppsInv' /\ (RacesInv => RacesInv')
<1>1. PICK v \in Admin : v = admin[r] /\ v.pc = "insert" /\ v.app \in App /\ v.urls \in SUBSET Url
  BY DEF AppsInv, Admin, insertCallbacks
<1>2. CASE goto(r, "failed") /\ UNCHANGED <<applications, callbacks, word, met>>
  <2>1. running(r)
    BY <1>1 DEF running
  <2>2. QED
    BY <1>2, <2>1, FailsInv
<1>3. CASE /\ callbacks' = [callbacks EXCEPT ![v.app] = @ \cup v.urls]
           /\ word' = [word EXCEPT
                ![v.app].urls = UNION {admin[x].urls : x \in met[r] \cup {r}},
                ![v.app].kept = IF \E x \in rivals(r) : erases(x) THEN {} ELSE v.urls]
           /\ goto(r, "reply")
           /\ UNCHANGED <<applications, met>>
  <2>1. PICK q \in Admin :
          /\ admin' = [admin EXCEPT ![r] = q]
          /\ q.pc = "reply" /\ q.kind = v.kind /\ q.app = v.app /\ q.urls = v.urls
          /\ q.status = v.status /\ q.found = v.found
    BY <1>1, <1>3, GoesTo DEF Pc
  <2>2. /\ callbacks' \in [App -> SUBSET Url]
        /\ \A p \in App : callbacks'[p] = IF p = v.app THEN callbacks[p] \cup v.urls ELSE callbacks[p]
    BY <1>1, <1>3 DEF AppsInv
  <2>9. PICK U, K : /\ U = UNION {admin[x].urls : x \in met[r] \cup {r}}
                    /\ K = IF \E x \in rivals(r) : erases(x) THEN {} ELSE v.urls
    OBVIOUS
  <2>10. U \in SUBSET Url /\ K \in SUBSET Url /\ \A x \in met[r] \cup {r} : admin[x].urls \subseteq U
    <3>1. \A x \in met[r] \cup {r} : x \in AdminRequest /\ admin[x].urls \in SUBSET Url
      BY DEF AppsInv, Admin
    <3> QED BY <1>1, <2>9, <3>1
  <2>3. /\ word' \in [App -> Word] /\ \A p \in App \ {v.app} : word'[p] = word[p]
        /\ word'[v.app].urls = U /\ word'[v.app].kept = K
        /\ word'[v.app].revoked = word[v.app].revoked
        /\ word'[v.app].secret = word[v.app].secret
    <3>1. PICK w : w = [[word[v.app] EXCEPT !.urls = U] EXCEPT !.kept = K]
      OBVIOUS
    <3>2. w \in Word /\ w.urls = U /\ w.kept = K /\ w.revoked = word[v.app].revoked
          /\ w.secret = word[v.app].secret
      BY <1>1, <2>10, <3>1 DEF AppsInv, Word
    <3>3. word' = [word EXCEPT ![v.app].urls = U, ![v.app].kept = K]
      BY <1>3, <2>9
    <3>4. word' = [word EXCEPT ![v.app] = w]
      BY <1>1, <3>1, <3>3 DEF AppsInv
    <3> QED
      BY <1>1, <3>2, <3>4 DEF AppsInv
  <2>4. applications[v.app].exists
    BY <1>1 DEF AppsInv, RowIsThere
  <2>5. AppsInv'
    <3>1. RowIsThere(q)'
      BY <1>3, <2>1, <2>4 DEF RowIsThere
    <3>2. QED
      BY <1>1, <1>3, <2>1, <2>2, <2>3, <2>4, <3>1, RequestMoves DEF AppsInv
  <2>6. ASSUME RacesInv PROVE RacesInv'
    <3>1. Running(v) /\ Harmless(v) /\ WordKept(v.app) /\ Knows(r, v)
      BY <1>1, <2>6 DEF RacesInv, Running
    <3>2. (Issuer(v) <=> Issuer(q)) /\ (Issues(q) <=> Issues(v))
      BY <1>1, <2>1 DEF Issuer, Issues
    <3>3. WordKept(q.app)'
      <4>1. callbacks'[v.app] \subseteq U
        <5>1. \A u \in callbacks[v.app] : \E x \in met[r] : u \in admin[x].urls
          BY <1>1, <3>1 DEF Knows
        <5> QED BY <1>1, <2>2, <2>10, <5>1
      <4>2. K \subseteq callbacks'[v.app]
        BY <1>1, <2>2, <2>9
      <4> QED BY <1>3, <2>1, <2>3, <3>1, <4>1, <4>2 DEF WordKept
    <3>4. Harmless(q)'
      BY <1>1, <2>1, <2>3, <3>1 DEF Harmless, Stale, Erases
    <3>5. Knows(r, q)'
      <4>1. \A x \in met[r] : Issuer(admin'[x]) <=> Issuer(admin[x])
        <5>1. \A x \in AdminRequest : admin'[x] = IF x = r THEN q ELSE admin[x]
          BY <2>1 DEF AppsInv
        <5>2. met[r] \subseteq AdminRequest
          BY DEF AppsInv
        <5> QED BY <1>1, <3>2, <5>1, <5>2
      <4> QED BY <1>1, <1>3, <2>1, <3>1, <3>2, <4>1 DEF Knows
    <3>6. ASSUME NEW x \in AdminRequest \ {r}, Running(admin[x]), admin[x].app = q.app
          PROVE  Harmless(admin[x])' /\ Knows(x, admin[x])'
      <4>1. Knows(x, admin[x])' /\ admin'[x] = admin[x]
        <5>1. UNCHANGED <<applications, met>>
          BY <1>3
        <5> QED BY <1>1, <2>1, <2>2, <2>6, <3>1, <3>2, <3>6, <5>1, OthersKnow
      <4>2. x \in rivals(r)
        BY <1>1, <2>1, <3>6 DEF rivals, busyWith, running, Running
      <4>3. K # {} => ~Erases(admin[x])
        BY <2>9, <4>2 DEF erases, Erases
      <4>4. PICK z : z = admin[x] /\ z = admin'[x]
        BY <4>1
      <4>5. z.app = v.app /\ Harmless(z) /\ (K # {} => ~Erases(z))
        BY <2>1, <2>6, <3>6, <4>3, <4>4 DEF RacesInv
      <4>6. Harmless(z)'
        BY <2>3, <4>5 DEF Harmless
      <4> QED BY <4>1, <4>4, <4>6 DEF Harmless
    <3>7. QED
      <4>1. UNCHANGED <<applications, met>>
        BY <1>3
      <4>2. \A p \in App \ {q.app} : word'[p] = word[p] /\ callbacks'[p] = callbacks[p]
        BY <2>1, <2>2, <2>3
      <4> QED
        BY <1>1, <2>1, <2>6, <3>1, <3>2, <3>3, <3>4, <3>5, <3>6, <4>1, <4>2, RaceMoves
  <2>7. QED
    BY <2>5, <2>6
<1>4. QED
  BY <1>1, <1>2, <1>3 DEF insertCallbacks

(* The answer shows the secret the request has stored.                     *)
LEMMA AnswerInv ==
  ASSUME AppsInv, NEW r \in AdminRequest, answer(r)
  PROVE  AppsInv' /\ (RacesInv => RacesInv')
<1>1. PICK v \in Admin : v = admin[r] /\ v.pc = "reply" /\ v.app \in App
  BY DEF AppsInv, Admin, answer
<1>2. PICK q \in Admin :
        /\ admin' = [admin EXCEPT ![r] = q]
        /\ q.pc = "answered" /\ q.kind = v.kind /\ q.app = v.app /\ q.urls = v.urls
        /\ q.status = v.status /\ q.found = v.found
  BY <1>1, GoesTo DEF answer, Pc
<1>3. UNCHANGED <<applications, callbacks, met>>
  BY DEF answer
<1>4. PICK c \in Credential :
        c = IF Issues(v) THEN IF \E x \in met[r] : Issuer(admin[x]) THEN None ELSE r
            ELSE word[v.app].secret
  BY <1>1 DEF AppsInv, Word, Credential
<1>5. word' = [word EXCEPT ![v.app].secret = c]
  <2>1. \A x \in AdminRequest : (issues(x) <=> Issues(admin[x])) /\ (issuer(x) <=> Issuer(admin[x]))
    BY DEF issues, Issues, issuer, Issuer
  <2>2. r # None /\ met[r] \subseteq AdminRequest
    BY AppsAssumption DEF AppsAssumption, AppsInv
  <2>3. (\E x \in met[r] : issuer(x)) <=> (\E x \in met[r] : Issuer(admin[x]))
    BY <2>1, <2>2
  <2>4. QED
    BY <1>1, <1>4, <2>1, <2>2, <2>3 DEF answer, IntegrationDetails, AppsInv
<1>6. /\ word' \in [App -> Word] /\ \A p \in App \ {v.app} : word'[p] = word[p]
      /\ word'[v.app].urls = word[v.app].urls /\ word'[v.app].revoked = word[v.app].revoked
      /\ word'[v.app].kept = word[v.app].kept /\ word'[v.app].secret = c
  <2>1. PICK w : w = [word[v.app] EXCEPT !.secret = c]
    OBVIOUS
  <2>2. /\ w \in Word /\ w.secret = c /\ w.revoked = word[v.app].revoked
        /\ w.urls = word[v.app].urls /\ w.kept = word[v.app].kept
    BY <1>1, <2>1 DEF AppsInv, Word
  <2>3. QED
    BY <1>1, <1>5, <2>1, <2>2 DEF AppsInv
<1>7. RowIsThere(q)' /\ Harmless(q)' /\ Knows(r, q)'
  BY <1>2 DEF RowIsThere, Harmless, Knows, Running
<1>8. AppsInv'
  BY <1>2, <1>3, <1>6, <1>7, RequestMoves DEF AppsInv
<1>9. ASSUME RacesInv PROVE RacesInv'
  <2>1. Running(v) /\ WordKept(v.app) /\ Knows(r, v)
    BY <1>1, <1>9 DEF RacesInv, Running
  <2>2. Issuer(v) => Issuer(q)
    BY <1>1, <1>2 DEF Issuer, Issues
  <2>3. c # None => applications[v.app].secret = hashClientSecret(c)
    <3>1. CASE Issues(v)
      BY <1>1, <1>4, <2>1, <3>1 DEF Knows
    <3>2. CASE ~Issues(v)
      BY <1>4, <2>1, <3>2 DEF WordKept
    <3> QED BY <3>1, <3>2
  <2>4. WordKept(q.app)'
    BY <1>2, <1>3, <1>6, <2>1, <2>3 DEF WordKept
  <2>5. ASSUME NEW x \in AdminRequest \ {r}, Running(admin[x]), admin[x].app = q.app
        PROVE  Harmless(admin[x])' /\ Knows(x, admin[x])'
    <3>1. Knows(x, admin[x])' /\ admin'[x] = admin[x]
      BY <1>1, <1>2, <1>3, <1>9, <2>1, <2>2, <2>5, OthersKnow
    <3>2. Harmless(admin[x]) /\ x \in met[r]
      BY <1>1, <1>2, <1>9, <2>1, <2>5 DEF RacesInv, MetKept
    <3>3. c # None /\ admin[x].pc \in {"find", "write"} => ~Issuer(admin[x])
      BY <1>2, <1>4, <2>5, <3>2 DEF Harmless
    <3> QED BY <1>2, <1>6, <2>5, <3>1, <3>2, <3>3 DEF Harmless
  <2>6. QED
    BY <1>1, <1>2, <1>3, <1>6, <1>7, <1>9, <2>1, <2>2, <2>4, <2>5, RaceMoves
<1>10. QED
  BY <1>8, <1>9

-----------------------------------------------------------------------------

LEMMA AppsStep ==
  ASSUME AppsInv, [AdminStep]_adminVars
  PROVE  AppsInv' /\ (RacesInv => RacesInv')
<1>1. ASSUME NEW r \in AdminRequest, requestFails(r)
      PROVE  AppsInv' /\ (RacesInv => RacesInv')
  BY <1>1, FailsInv DEF requestFails
<1>2. CASE UNCHANGED adminVars
  BY <1>2 DEF adminVars, AppsInv, RowIsThere, RacesInv, MetKept, Harmless, Knows, WordKept
<1>3. QED
  BY <1>1, <1>2, SubmitInv, FindInv, UpsertInv, SeedInv, UpdateInv, RotateInv, DeleteInv, InsertInv, AnswerInv
     DEF AdminStep

LEMMA RacesInit == AppsInit => RacesInv
<1> SUFFICES ASSUME AppsInit PROVE RacesInv
  OBVIOUS
<1>1. \A r \in AdminRequest : admin[r].pc = "idle" /\ met[r] = {}
  BY DEF AppsInit, Idle
<1>2. ASSUME NEW p \in App PROVE WordKept(p)
  <2>1. /\ callbacks[p] = word[p].urls /\ word[p].kept = callbacks[p] /\ word[p].revoked = "no"
        /\ word[p].secret = IF applications[p] = Established THEN Old ELSE None
    BY DEF AppsInit
  <2>2. Established.secret = hashClientSecret(Old)
    BY DEF Established
  <2>3. QED
    BY <2>1, <2>2 DEF WordKept
<1>3. QED
  BY <1>1, <1>2 DEF RacesInv, MetKept, Harmless, Knows, Running

LEMMA AppsInvariant == AppsSpec => [](AppsInv /\ RacesInv)
<1>1. AppsInv /\ RacesInv /\ [AdminStep]_adminVars => (AppsInv /\ RacesInv)'
  BY AppsStep
<1>2. QED
  BY <1>1, AppsInitInv, RacesInit, PTL DEF AppsSpec

(* The tables keep their types however requests overlap: no callback       *)
(* without its application, whatever statement fails.                      *)
THEOREM AppsTypeCorrect == AppsSpec => []AppsTypeOK
<1>1. AppsInv => AppsTypeOK
  BY DEF AppsInv, AppsTypeOK, Admin
<1>2. QED
  BY <1>1, AppsInvariant, PTL

(* However requests overlap, registering an application again never lifts  *)
(* the revocation PATCH has written, unless by a POST or a script that had *)
(* read the row before and was about to write it back.                     *)
THEOREM RevocationsHold == AppsSpec => []RevocationHolds
<1>1. RacesInv => RevocationHolds
  BY DEF RacesInv, WordKept, RevocationHolds
<1>2. QED
  BY <1>1, AppsInvariant, PTL

(* replaceCallbacks, a delete and an insert that fail and overlap: what is *)
(* accepted was asked for by the last replacement that went through or one *)
(* it ran together with, and nothing that one asked for is missing until   *)
(* another replacement comes to delete it.                                 *)
THEOREM CallbacksAreAsAsked == AppsSpec => []CallbacksAsAsked
<1>1. RacesInv => CallbacksAsAsked
  BY DEF RacesInv, WordKept, CallbacksAsAsked
<1>2. QED
  BY <1>1, AppsInvariant, PTL

(* The secret an administrator was shown is the one verifyClientSecret     *)
(* accepts, whatever runs meanwhile, unless two requests that issue one    *)
(* ran together: submitting the form again issues none.                    *)
THEOREM ShownSecretsWork == AppsSpec => []ShownSecretWorks
<1>1. AppsInv /\ RacesInv => ShownSecretWorks
  <2> SUFFICES ASSUME AppsInv, RacesInv, NEW p \in App, word[p].secret # None
               PROVE  verifyClientSecret(word[p].secret, applications[p].secret)
    BY DEF ShownSecretWorks
  <2>1. PICK c \in Credential : c = word[p].secret
    BY DEF AppsInv, Word
  <2>2. applications[p].secret = hashClientSecret(c) /\ hashClientSecret(c) # None
    BY <2>1, AppsAssumption DEF RacesInv, WordKept, AppsAssumption
  <2>3. hashClientSecret(c).scheme = "scrypt" /\ hashClientSecret(c).digestOf = c
    BY DEF hashClientSecret
  <2>4. QED
    BY <2>1, <2>2, <2>3 DEF verifyClientSecret
<1>2. QED
  BY <1>1, AppsInvariant, PTL
=============================================================================
