-------------------------- MODULE ApplicationRegistry --------------------------
(***************************************************************************)
(* The registry of partner applications: app/api/applications and the      *)
(* writes of lib/applications.ts. Three requests change an application:    *)
(* POST registers or re-registers it, PATCH changes and revokes it, and    *)
(* the secret route rotates its credential. An operator does the work of   *)
(* POST with provision-app.mjs (with --rotate: reprovision) and sets the   *)
(* demo application up with seed-offchain.mjs. Each is a series of         *)
(* database statements without a transaction around them, so a statement   *)
(* of one runs between any two of another, and any statement may fail.     *)
(*                                                                         *)
(* Only what sign-in depends on is kept of a row. The caller's permission  *)
(* MANAGE_APPS is read on the chain before the first statement; a request  *)
(* here is one that has it. The scripts ask nobody.                        *)
(***************************************************************************)
EXTENDS Naturals

CONSTANTS
  App,          \* (org_id, app_slug) of each application
  Url,          \* callback URLs
  AdminRequest, \* requests; each generates one credential, named after it
  Old,          \* the credential of an application that is established
  None,         \* null
  Kinds         \* bound: the kinds of requests that are made

VARIABLES
  applications, \* table applications
  callbacks,    \* table application_callbacks: the URLs of each application
  admin,        \* the requests and how far they are
  word,         \* history: what administrators were promised
  met           \* history: the requests on its application each ran together with

adminVars == <<applications, callbacks, admin, word, met>>

Credential == AdminRequest \cup {Old, None}

(* The database holds a secret as its hash, salted so that no two are      *)
(* alike; what counts is what it is a hash of.                             *)
hashClientSecret(secret) == [scheme |-> "scrypt", digestOf |-> secret]

ASSUME AppsAssumption ==
  /\ App # {}
  /\ Old # None /\ {Old, None} \cap AdminRequest = {}
  /\ \A c \in Credential : hashClientSecret(c) # None
  /\ Kinds \subseteq {"post", "patch", "secret", "provision", "reprovision", "seed"}

verifyClientSecret(secret, stored) ==
  /\ secret # None /\ stored # None
  /\ stored.scheme = "scrypt" /\ stored.digestOf = secret

Stored == {None} \cup {hashClientSecret(c) : c \in Credential \ {None}}

Row == [exists : BOOLEAN, clientId : Credential, secret : Stored,
        status : {"draft", "active", "revoked"}]

NoRow       == [exists |-> FALSE, clientId |-> None, secret |-> None, status |-> "draft"]
Draft       == [NoRow EXCEPT !.exists = TRUE]
Established == [exists |-> TRUE, clientId |-> Old, secret |-> hashClientSecret(Old),
                status |-> "active"]

Admin == [pc : {"idle", "find", "write", "delete", "insert", "reply", "answered", "failed"},
          kind : Kinds \cup {"post"}, app : App,
          urls : SUBSET Url,                       \* {}: callbackUrls not given
          status : {"active", "revoked", "keep"},  \* keep: status not given
          found : Row]

(* revoked: a revocation is in force, nobody asked to activate meanwhile;  *)
(* raced: one that a request which had read the row before could write     *)
(* over. urls: what the replacement that went through last asked for, and  *)
(* those it ran together with; kept: what it asked for, unless another     *)
(* one may still delete it. secret: the one shown last, unless a rotation  *)
(* was asked for since or another request that issues one ran with it.     *)
Word == [revoked : {"no", "raced", "yes"}, urls : SUBSET Url, kept : SUBSET Url,
         secret : Credential]

AppsTypeOK ==
  /\ applications \in [App -> Row]
  /\ callbacks \in [App -> SUBSET Url]
  /\ DOMAIN admin = AdminRequest
  /\ \A r \in AdminRequest :
       /\ admin[r].pc \in {"idle", "find", "write", "delete", "insert", "reply", "answered", "failed"}
       /\ admin[r].app \in App /\ admin[r].urls \subseteq Url /\ admin[r].found \in Row
  /\ word \in [App -> Word]
  /\ met \in [AdminRequest -> SUBSET AdminRequest]
  /\ \A p \in App : callbacks[p] # {} => applications[p].exists

Idle == [pc |-> "idle", kind |-> "post", app |-> CHOOSE p \in App : TRUE, urls |-> {},
         status |-> "keep", found |-> NoRow]

AppsInit ==
  /\ applications \in [App -> {NoRow, Draft, Established}]
  /\ callbacks = [p \in App |-> IF applications[p] = Established THEN Url ELSE {}]
  /\ admin = [r \in AdminRequest |-> Idle]
  /\ word = [p \in App |-> [revoked |-> "no", urls |-> callbacks[p], kept |-> callbacks[p],
                            secret |-> IF applications[p] = Established THEN Old ELSE None]]
  /\ met = [r \in AdminRequest |-> {}]

-----------------------------------------------------------------------------

running(r) == admin[r].pc \notin {"idle", "answered", "failed"}

(* The requests on an application that are under way.                      *)
busyWith(p) == {q \in AdminRequest : running(q) /\ admin[q].app = p}
rivals(r)   == busyWith(admin[r].app) \ {r}

goto(r, pc) == admin' = [admin EXCEPT ![r].pc = pc]

(* Asks for the application to be active: PATCH can, seed-offchain does.   *)
activates(kind, status) == (kind = "patch" /\ status = "active") \/ kind = "seed"

submit(r, kind, p, urls, status) ==
  /\ admin[r].pc = "idle"
  /\ CASE kind = "patch"  -> urls # {} \/ status # "keep"
       [] kind = "secret" -> urls = {} /\ status = "keep"
       [] OTHER           -> urls # {} /\ status = "keep"
  /\ admin' = [admin EXCEPT ![r] =
       [pc |-> IF kind = "seed" THEN "write" ELSE "find", kind |-> kind, app |-> p,
        urls |-> urls, status |-> status, found |-> NoRow]]
  /\ word' = [word EXCEPT ![p].revoked = IF activates(kind, status) THEN "no" ELSE @,
                          ![p].kept = IF urls = {} THEN @ ELSE {},
                          ![p].secret = IF kind \in {"secret", "reprovision"} THEN None ELSE @]
  /\ met' = [q \in AdminRequest |-> IF q = r THEN busyWith(p)
                                    ELSE IF q \in busyWith(p) THEN met[q] \cup {r} ELSE met[q]]
  /\ UNCHANGED <<applications, callbacks>>

(* findApplicationBySlug. PATCH and the secret route need the row.         *)
findApplication(r) ==
  LET row == applications[admin[r].app] IN
  /\ admin[r].pc = "find"
  /\ admin' = [admin EXCEPT ![r].found = row,
                            ![r].pc = IF admin[r].kind \in {"patch", "secret"} /\ ~row.exists
                                      THEN "failed" ELSE "write"]
  /\ UNCHANGED <<applications, callbacks, word, met>>

(* Whether a fresh secret is stored, and shown in the end.                 *)
issues(r) ==
  \/ admin[r].kind \in {"secret", "reprovision"}
  \/ admin[r].kind \in {"post", "provision"} /\ admin[r].found.secret = None

registers(r) == admin[r].pc = "write" /\ admin[r].kind \in {"post", "provision", "reprovision"}

upsert_reissue(r) == \* mutant: every submission of the form issues a secret
  LET q == admin[r] IN
  /\ registers(r)
  /\ applications' = [applications EXCEPT ![q.app] =
       [exists |-> TRUE,
        clientId |-> IF q.found.clientId = None THEN r ELSE q.found.clientId,
        secret |-> hashClientSecret(r),
        status |-> IF q.found.status = "revoked" THEN "revoked" ELSE "active"]]
  /\ goto(r, "delete")
  /\ UNCHANGED <<callbacks, word, met>>

upsert_unrevoke(r) == \* mutant: the status is always written as active
  LET q == admin[r] IN
  /\ registers(r)
  /\ applications' = [applications EXCEPT ![q.app] =
       [exists |-> TRUE,
        clientId |-> IF q.found.clientId = None THEN r ELSE q.found.clientId,
        secret |-> IF issues(r) THEN hashClientSecret(r) ELSE @.secret,
        status |-> "active"]]
  /\ goto(r, "delete")
  /\ UNCHANGED <<callbacks, word, met>>

(* The upsert of POST and of provision-app, computed from the row that was *)
(* found.                                                                  *)
upsert(r) ==
  LET q == admin[r] IN
  /\ registers(r)
  /\ applications' = [applications EXCEPT ![q.app] =
       [exists |-> TRUE,
        clientId |-> IF q.found.clientId = None THEN r ELSE q.found.clientId,
        secret |-> IF issues(r) THEN hashClientSecret(r) ELSE @.secret,
        status |-> IF q.found.status = "revoked" THEN "revoked" ELSE "active"]]
  /\ goto(r, "delete")
  /\ UNCHANGED <<callbacks, word, met>>

(* The upsert of seed-offchain, which reads nothing first.                 *)
upsertSeed(r) ==
  LET q == admin[r] IN
  /\ q.pc = "write" /\ q.kind = "seed"
  /\ applications' = [applications EXCEPT ![q.app].exists = TRUE, ![q.app].status = "active"]
  /\ goto(r, "delete")
  /\ UNCHANGED <<callbacks, word, met>>

(* The row x has read, and is about to write back, is not revoked.         *)
stale(x) == registers(x) /\ admin[x].found.status # "revoked"

revocation(r) ==
  IF \E x \in rivals(r) : activates(admin[x].kind, admin[x].status) THEN "no"
  ELSE IF \E x \in rivals(r) : stale(x) THEN "raced" ELSE "yes"

(* PATCH: the columns that were given, then the callbacks if given.        *)
update(r) ==
  LET q == admin[r] IN
  /\ q.pc = "write" /\ q.kind = "patch"
  /\ applications' = [applications EXCEPT ![q.app].status =
                        IF q.status = "keep" THEN @ ELSE q.status]
  /\ word' = [word EXCEPT ![q.app].revoked = IF q.status = "revoked" THEN revocation(r) ELSE @]
  /\ goto(r, IF q.urls = {} THEN "reply" ELSE "delete")
  /\ UNCHANGED <<callbacks, met>>

rotate(r) ==
  LET q == admin[r] IN
  /\ q.pc = "write" /\ q.kind = "secret"
  /\ applications' = [applications EXCEPT
       ![q.app].clientId = IF q.found.clientId = None THEN r ELSE q.found.clientId,
       ![q.app].secret = hashClientSecret(r)]
  /\ goto(r, "reply")
  /\ UNCHANGED <<callbacks, word, met>>

deleteCallbacks_merge(r) == \* mutant: the callbacks that are there stay
  /\ admin[r].pc = "delete"
  /\ goto(r, "insert")
  /\ UNCHANGED <<applications, callbacks, word, met>>

deleteCallbacks(r) ==
  /\ admin[r].pc = "delete"
  /\ callbacks' = [callbacks EXCEPT ![admin[r].app] = {}]
  /\ goto(r, "insert")
  /\ UNCHANGED <<applications, word, met>>

(* A replacement that has still to delete what is there.                   *)
erases(x) == admin[x].urls # {} /\ admin[x].pc \in {"find", "write", "delete"}

(* One statement: a URL that is there already fails it as a whole.         *)
insertCallbacks(r) ==
  LET q == admin[r] IN
  /\ q.pc = "insert"
  /\ IF q.urls \cap callbacks[q.app] = {}
     THEN /\ callbacks' = [callbacks EXCEPT ![q.app] = @ \cup q.urls]
          /\ word' = [word EXCEPT
               ![q.app].urls = UNION {admin[x].urls : x \in met[r] \cup {r}},
               ![q.app].kept = IF \E x \in rivals(r) : erases(x) THEN {} ELSE q.urls]
          /\ goto(r, "reply")
     ELSE /\ goto(r, "failed")
          /\ UNCHANGED <<callbacks, word>>
  /\ UNCHANGED <<applications, met>>

(* The panel of an application: a secret is in it only when the answer     *)
(* brought one, so without one the reader is left with what he saved.      *)
IntegrationDetails(clientSecret, saved) ==
  IF clientSecret = None THEN saved ELSE clientSecret

(* x has read that it has to issue a secret, or does so in any case.       *)
issuer(x) == issues(x) /\ (admin[x].pc = "find" => admin[x].kind \in {"secret", "reprovision"})

(* The answer, with the secret the request issued, if it issued one. PATCH *)
(* reads the application once more for it.                                 *)
answer(r) ==
  /\ admin[r].pc = "reply"
  /\ goto(r, "answered")
  /\ word' = [word EXCEPT ![admin[r].app].secret =
       IF issues(r) /\ \E x \in met[r] : issuer(x) THEN None
       ELSE IntegrationDetails(IF issues(r) THEN r ELSE None, @)]
  /\ UNCHANGED <<applications, callbacks, met>>

(* A statement fails, or the server stops between two of them.             *)
requestFails(r) ==
  /\ running(r)
  /\ goto(r, "failed")
  /\ UNCHANGED <<applications, callbacks, word, met>>

AdminStep ==
  \E r \in AdminRequest :
    \/ \E kind \in Kinds, p \in App, urls \in SUBSET Url, status \in {"active", "revoked", "keep"} :
         submit(r, kind, p, urls, status)
    \/ findApplication(r)
    \/ upsert(r)
    \/ upsertSeed(r)
    \/ update(r)
    \/ rotate(r)
    \/ deleteCallbacks(r)
    \/ insertCallbacks(r)
    \/ answer(r)
    \/ requestFails(r)

AppsSpec == AppsInit /\ [][AdminStep]_adminVars

-----------------------------------------------------------------------------
(* Safety.                                                                 *)

(* A revocation holds. Once PATCH has written that sign-in is refused from *)
(* now on, only an activation that somebody asks for later ends that,      *)
(* whatever requests and scripts run meanwhile or have begun before; but   *)
(* for one that had read the row and not yet written it back.              *)
RevocationHolds == \A p \in App : word[p].revoked = "yes" => applications[p].status = "revoked"

(* As the code has it, with no such exception: "Re-registering an          *)
(* application that an admin revoked does not quietly un-revoke it; that   *)
(* is a separate, deliberate action."                                      *)
RevocationStands == \A p \in App : word[p].revoked # "no" => applications[p].status = "revoked"

(* "A callback the admin removed must actually stop being accepted": an    *)
(* application accepts only what the replacement that went through last    *)
(* asked for, or one that ran together with it. And it accepts all of the  *)
(* former, until another replacement that was already under way, or is     *)
(* asked for, deletes it: no failure or race loses callbacks unnoticed.    *)
CallbacksAsAsked ==
  \A p \in App : word[p].kept \subseteq callbacks[p] /\ callbacks[p] \subseteq word[p].urls

(* The secret that was shown is the one that works, until a rotation is    *)
(* asked for, whatever else happens to the application meanwhile:          *)
(* "Re-submitting the form to change a callback must not silently rotate a *)
(* secret the partner is already running with." Two requests that issue a  *)
(* secret and run together both show theirs, and one of the two works.     *)
ShownSecretWorks ==
  \A p \in App : word[p].secret # None => verifyClientSecret(word[p].secret, applications[p].secret)
=============================================================================
