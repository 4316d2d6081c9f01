------------------------------ MODULE AssetBinding ------------------------------
(***************************************************************************)
(* The off-chain record of a certificate: drafted by POST /api/assets,     *)
(* minted by the caller's wallet, bound to its token by POST               *)
(* /api/assets/<id>/confirm, and reconciled by repair-asset-bindings.mjs.  *)
(*                                                                         *)
(* Nothing here is transactional: confirm loads the draft, reads the       *)
(* chain, reads the other claims on the token, releases the stale ones one *)
(* by one and binds with a conditional update, each a step that other      *)
(* requests and the script interleave with.  Every deployment of AssetNFT  *)
(* counts its tokens from 1; moving to another one restarts the servers,   *)
(* so it loses what was in flight, and so may a crash.                     *)
(*                                                                         *)
(* Migration 0002 is taken to be applied: the fall-backs for a missing     *)
(* contract_address column are left out, rows that predate it are not.     *)
(***************************************************************************)
EXTENDS Naturals, Sequences, FiniteSets, SequencesExt

CONSTANTS
  MaxRow,        \* bound: rows of the assets table, numbered by created_at
  MaxLegacy,     \* bound: rows that predate the column contract_address
  Hash,          \* anchors: hashAssetRecord covers the organization too
  Org,
  OrgOf,         \* the organization of the record behind an anchor
  Request,       \* confirm requests
  MaxRunning,    \* bound: how many of these and the script run together
  MaxDeployment, \* bound: AssetNFT deployments
  MaxToken,      \* bound: tokens of one deployment
  MaxAnchors     \* bound: mints and changes of a record on one deployment

ASSUME BindingAssumption ==
  /\ MaxRow \in Nat \ {0} /\ MaxLegacy \in 0..MaxRow
  /\ OrgOf \in [Hash -> Org]
  /\ "script" \notin Request
  /\ {MaxDeployment, MaxToken, MaxAnchors} \subseteq Nat \ {0} /\ MaxRunning \in Nat

VARIABLES
  deployment, \* the AssetNFT the servers are configured for
  tokens,     \* its tokens and those of its predecessors, by id
  assets,     \* the table: asset_hash, contract_address (0: none), token_id (0: null)
  req,        \* confirm requests
  repair,     \* the script
  alone       \* history: who runs with nobody else having written since the start

vars == <<deployment, tokens, assets, req, repair, alone>>

Deployment == 1..MaxDeployment
Token      == [org : Org, anchors : Seq(Hash)]
Asset      == [hash : Hash, stamp : 0..MaxDeployment, token : 0..MaxToken]

NoRequest == [pc |-> "idle", row |-> 1, token |-> 1, claims |-> {}]
NoRepair  == [pc |-> "idle", seen |-> <<>>, release |-> {}, stamp |-> {}, bind |-> {}]
Refused   == [NoRepair EXCEPT !.pc = "refused"]

BindingTypeOK ==
  /\ deployment \in Deployment
  /\ tokens \in [Deployment -> Seq(Token)]
  /\ assets \in Seq(Asset)
  /\ req \in [Request -> [pc : {"idle", "verify", "claims", "release", "bind"},
                          row : 1..MaxRow, token : 1..MaxToken, claims : SUBSET (1..MaxRow)]]
  /\ \A q \in Request : req[q].row \notin req[q].claims
  /\ repair.pc \in {"idle", "rows", "write", "refused"} /\ repair.seen \in Seq(Token)
  /\ repair.release \cup repair.stamp \subseteq 1..MaxRow
  /\ repair.bind \subseteq (1..MaxRow) \X (1..MaxToken)
  /\ alone \subseteq Request \cup {"script"}

(* Legacy rows were bound under the old unique (token_id), so no two of    *)
(* them share one; which contract issued their tokens is not recorded.     *)
BindingInit ==
  /\ deployment = 1
  /\ tokens = [d \in Deployment |-> <<>>]
  /\ assets \in {f \in [1..MaxLegacy -> [hash : Hash, stamp : {0}, token : 1..MaxToken]] :
                   \A r, s \in 1..MaxLegacy : f[r].token = f[s].token => r = s}
  /\ req = [q \in Request |-> NoRequest]
  /\ repair = NoRepair /\ alone = {}

-----------------------------------------------------------------------------
(* The chain and the table.                                                *)

(* The tokens in S confirm that row a holds token t.                       *)
Confirms(S, a, t) ==
  t \in 1..Len(S) /\ Last(S[t].anchors) = a.hash /\ S[t].org = OrgOf[a.hash]

elsewhere(a) == a.stamp \notin {0, deployment}

(* The unique index on (coalesce(contract_address, 'unstamped'), token_id). *)
fits(r, a) == \A s \in DOMAIN assets \ {r} :
                ~(assets[s].token = a.token /\ assets[s].stamp = a.stamp)

put(r, a, who) == assets' = [assets EXCEPT ![r] = a] /\ alone' = alone \cap {who}
quiet          == UNCHANGED <<assets, alone>>

Written(S) == Len(FlattenSeq([t \in DOMAIN S |-> S[t].anchors]))

mintAsset(org, hash) ==
  /\ Len(tokens[deployment]) < MaxToken /\ Written(tokens[deployment]) < MaxAnchors
  /\ tokens' = [tokens EXCEPT ![deployment] = Append(@, [org |-> org, anchors |-> <<hash>>])]
  /\ alone' = {}
  /\ UNCHANGED <<deployment, assets, req, repair>>

updateAssetRecord(t, hash) ==
  /\ t \in DOMAIN tokens[deployment] /\ Written(tokens[deployment]) < MaxAnchors
  /\ tokens' = [tokens EXCEPT ![deployment][t].anchors = Append(@, hash)]
  /\ alone' = {}
  /\ UNCHANGED <<deployment, assets, req, repair>>

(* A new AssetNFT: ASSET_NFT_ADDRESS changes and the servers restart.      *)
redeploy ==
  /\ deployment < MaxDeployment
  /\ deployment' = deployment + 1
  /\ req' = [q \in Request |-> NoRequest] /\ repair' = NoRepair /\ alone' = {}
  /\ UNCHANGED <<tokens, assets>>

(* POST /api/assets, stamped up front.  Its second statement, whose error  *)
(* is ignored, only writes the metadata URI.                               *)
draft(hash) ==
  /\ Len(assets) < MaxRow
  /\ assets' = Append(assets, [hash |-> hash, stamp |-> deployment, token |-> 0])
  /\ alone' = {}
  /\ UNCHANGED <<deployment, tokens, req, repair>>

-----------------------------------------------------------------------------
(* POST /api/assets/<id>/confirm.                                          *)

answer(q) == req' = [req EXCEPT ![q] = NoRequest]

running == {q \in Request : req[q].pc # "idle"}
           \cup (IF repair.pc = "idle" THEN {} ELSE {"script"})

(* The draft is loaded without its contract_address.                       *)
load(q, r, t) ==
  /\ req[q].pc = "idle" /\ Cardinality(running) < MaxRunning
  /\ assets[r].token = 0
  /\ req' = [req EXCEPT ![q] = [NoRequest EXCEPT !.pc = "verify", !.row = r, !.token = t]]
  /\ alone' = alone \cup {q}
  /\ UNCHANGED <<deployment, tokens, assets, repair>>

verify_anyAnchor(q) == \* mutant: only asks that the token is of the organization
  LET t == req[q].token IN
  /\ req[q].pc = "verify"
  /\ IF t \in DOMAIN tokens[deployment] /\ tokens[deployment][t].org = OrgOf[assets[req[q].row].hash]
     THEN req' = [req EXCEPT ![q].pc = "claims"]
     ELSE answer(q)
  /\ UNCHANGED <<deployment, tokens, repair>> /\ quiet

(* The token is read from the chain and must carry the draft's anchor.     *)
verify(q) ==
  /\ req[q].pc = "verify"
  /\ IF Confirms(tokens[deployment], assets[req[q].row], req[q].token)
     THEN req' = [req EXCEPT ![q].pc = "claims"]
     ELSE answer(q)
  /\ UNCHANGED <<deployment, tokens, repair>> /\ quiet

(* readClaims: the other rows that hold the token id, as they are now.     *)
readClaims(q) ==
  /\ req[q].pc = "claims"
  /\ req' = [req EXCEPT ![q].pc = "release", ![q].claims =
       {s \in DOMAIN assets \ {req[q].row} :
          assets[s].token = req[q].token /\ ~elsewhere(assets[s])}]
  /\ UNCHANGED <<deployment, tokens, repair>> /\ quiet

(* classifyClaim: a row with the anchor the chain holds is a rival.        *)
rival(q, s) == assets[s].hash = assets[req[q].row].hash

(* A stale claim goes back to being a draft, if it still holds the token.  *)
letGo(q, s) ==
  /\ put(s, [assets[s] EXCEPT !.token = IF @ = req[q].token THEN 0 ELSE @], q)
  /\ req' = [req EXCEPT ![q].claims = @ \ {s}]

releaseClaim_all(q) == \* mutant: a rival is released too
  /\ req[q].pc = "release"
  /\ \/ req[q].claims = {} /\ req' = [req EXCEPT ![q].pc = "bind"] /\ quiet
     \/ \E s \in req[q].claims : letGo(q, s)
  /\ UNCHANGED <<deployment, tokens, repair>>

releaseClaim_none(q) == \* mutant: stale claims stay
  /\ req[q].pc = "release"
  /\ IF \E s \in req[q].claims : rival(q, s)
     THEN answer(q)
     ELSE req' = [req EXCEPT ![q].pc = "bind"]
  /\ UNCHANGED <<deployment, tokens, repair>> /\ quiet

(* The claims come in any order; a rival ends the request.                 *)
releaseClaim(q) ==
  /\ req[q].pc = "release"
  /\ \/ req[q].claims = {} /\ req' = [req EXCEPT ![q].pc = "bind"] /\ quiet
     \/ \E s \in req[q].claims :
          IF rival(q, s) THEN answer(q) /\ quiet ELSE letGo(q, s)
  /\ UNCHANGED <<deployment, tokens, repair>>

(* bindToken: only a row that is still a draft, stamped anew; the unique   *)
(* index refuses a token that is taken.                                    *)
bindToken(q) ==
  LET r == req[q].row
      a == [assets[r] EXCEPT !.token = req[q].token, !.stamp = deployment]
  IN /\ req[q].pc = "bind"
     /\ IF assets[r].token = 0 /\ fits(r, a) THEN put(r, a, q) ELSE quiet
     /\ answer(q)
     /\ UNCHANGED <<deployment, tokens, repair>>

(* The request, or the server under it, dies between two statements.       *)
crash(q) ==
  /\ req[q].pc # "idle"
  /\ answer(q)
  /\ UNCHANGED <<deployment, tokens, repair>> /\ quiet

-----------------------------------------------------------------------------
(* repair-asset-bindings.mjs --apply: the tokens are read, then the rows,  *)
(* and every change planned from the two is written by row id.             *)

readTokens ==
  /\ repair.pc = "idle" /\ Cardinality(running) < MaxRunning
  /\ repair' = [NoRepair EXCEPT !.pc = "rows", !.seen = tokens[deployment]]
  /\ alone' = alone \cup {"script"}
  /\ UNCHANGED <<deployment, tokens, assets, req>>

(* Tokens nobody holds go to the drafts with their anchor: the k-th such   *)
(* token to the k-th oldest draft, rows just released included.            *)
plan(seen, rows) ==
  LET bound   == {r \in DOMAIN rows : rows[r].token # 0 /\ ~elsewhere(rows[r])}
      release == {r \in bound : ~Confirms(seen, rows[r], rows[r].token)}
      drafts  == {r \in DOMAIN rows : rows[r].token = 0} \cup release
      free    == DOMAIN seen \ {rows[r].token : r \in bound \ release}
      rank(r, t) ==
        Cardinality({s \in drafts : s < r /\ rows[s].hash = rows[r].hash})
          = Cardinality({u \in free : u < t /\ Confirms(seen, rows[r], u)})
  IN [pc |-> "write", seen |-> <<>>, release |-> release,
      stamp |-> {r \in bound \ release : rows[r].stamp = 0},
      bind  |-> {p \in drafts \X free : Confirms(seen, rows[p[1]], p[2]) /\ rank(p[1], p[2])}]

readRows ==
  /\ repair.pc = "rows"
  /\ repair' = plan(repair.seen, assets)
  /\ UNCHANGED <<deployment, tokens, req>> /\ quiet

(* An update the unique index refuses fails the script.                    *)
apply(r, a, rest) ==
  IF a.token = 0 \/ fits(r, a)
  THEN put(r, a, "script") /\ repair' = rest
  ELSE quiet /\ repair' = Refused

finished == repair.release = {} /\ repair.stamp = {} /\ repair.bind = {}

write_bindEarly == \* mutant: drafts are bound before rows are released
  /\ repair.pc = "write"
  /\ \/ \E p \in repair.bind :
          apply(p[1], [assets[p[1]] EXCEPT !.token = p[2], !.stamp = deployment],
                [repair EXCEPT !.bind = @ \ {p}])
     \/ repair.bind = {} /\ \E r \in repair.release :
          apply(r, [assets[r] EXCEPT !.token = 0], [repair EXCEPT !.release = @ \ {r}])
     \/ repair.bind = {} /\ repair.release = {} /\ \E r \in repair.stamp :
          apply(r, [assets[r] EXCEPT !.stamp = deployment], [repair EXCEPT !.stamp = @ \ {r}])
     \/ finished /\ repair' = NoRepair /\ quiet
  /\ UNCHANGED <<deployment, tokens, req>>

write ==
  /\ repair.pc = "write"
  /\ \/ \E r \in repair.release :
          apply(r, [assets[r] EXCEPT !.token = 0], [repair EXCEPT !.release = @ \ {r}])
     \/ repair.release = {} /\ \E r \in repair.stamp :
          apply(r, [assets[r] EXCEPT !.stamp = deployment], [repair EXCEPT !.stamp = @ \ {r}])
     \/ repair.release \cup repair.stamp = {} /\ \E p \in repair.bind :
          apply(p[1], [assets[p[1]] EXCEPT !.token = p[2], !.stamp = deployment],
                [repair EXCEPT !.bind = @ \ {p}])
     \/ finished /\ repair' = NoRepair /\ quiet
  /\ UNCHANGED <<deployment, tokens, req>>

stop ==
  /\ repair.pc # "idle"
  /\ repair' = NoRepair
  /\ UNCHANGED <<deployment, tokens, req>> /\ quiet

-----------------------------------------------------------------------------
(* GET /api/assets: the record listed for a token.                         *)

byToken_any(t) == \* mutant: rows of every deployment are listed
  LET held == {r \in DOMAIN assets : assets[r].token = t} IN
  IF \E r \in held : assets[r].stamp # 0 THEN {r \in held : assets[r].stamp # 0} ELSE held

(* Whichever row the query returns first, a stamped one before the others. *)
byToken(t) ==
  LET held == {r \in DOMAIN assets : assets[r].token = t /\ ~elsewhere(assets[r])} IN
  IF \E r \in held : assets[r].stamp # 0 THEN {r \in held : assets[r].stamp # 0} ELSE held

-----------------------------------------------------------------------------

Confirm(q) == verify(q) \/ readClaims(q) \/ releaseClaim(q) \/ bindToken(q) \/ crash(q)

BindingNext ==
  \/ \E o \in Org, h \in Hash : mintAsset(o, h)
  \/ \E t \in 1..MaxToken, h \in Hash : updateAssetRecord(t, h)
  \/ redeploy
  \/ \E h \in Hash : draft(h)
  \/ \E q \in Request, r \in DOMAIN assets, t \in 1..MaxToken : load(q, r, t)
  \/ \E q \in Request : Confirm(q)
  \/ readTokens \/ readRows \/ write \/ stop

BindingSpec == BindingInit /\ [][BindingNext]_vars

-----------------------------------------------------------------------------
(* Properties.                                                             *)

(* A binding is never taken on trust: a row stamped with a deployment and  *)
(* bound to a token was compared with that token on that deployment, so    *)
(* the token carries or once carried the row's anchor, in the row's        *)
(* organization.  Requests that race each other, the script, a new         *)
(* deployment or a change of the token's record do not get around it.      *)
BindingEarned ==
  \A r \in DOMAIN assets :
    LET a == assets[r] IN
    a.token # 0 /\ a.stamp # 0 =>
      /\ a.token \in DOMAIN tokens[a.stamp]
      /\ a.hash \in Range(tokens[a.stamp][a.token].anchors)
      /\ tokens[a.stamp][a.token].org = OrgOf[a.hash]

(* A stale claim does not wedge minting: a confirm that runs alone and was *)
(* not refused for a rival finds its token free when it comes to bind it,  *)
(* whatever rows earlier deployments, releases and repairs left behind.    *)
NeverWedged ==
  \A q \in Request \cap alone :
    req[q].pc = "bind" =>
      /\ assets[req[q].row].token = 0
      /\ fits(req[q].row, [assets[req[q].row] EXCEPT !.token = req[q].token, !.stamp = deployment])

(* A record somebody relies on is not detached: while the chain confirms a *)
(* row's binding, and has confirmed it from the mint on, neither confirms  *)
(* nor a script that runs alone take the token from the row.               *)
VerifiedBindingKept ==
  [][\A r \in DOMAIN assets :
       LET a == assets[r] IN
       /\ a.token # 0 /\ ~elsewhere(a)
       /\ Confirms(tokens[deployment], a, a.token)
       /\ Len(tokens[deployment][a.token].anchors) = 1
       /\ repair.pc = "write" => "script" \in alone
       => assets'[r].token = a.token]_vars

(* If nobody writes while the script runs, then releasing before stamping  *)
(* before binding reaches the end without the unique index refusing        *)
(* anything, and a second run reports nothing to do.                       *)
RepairSettles ==
  "script" \in alone =>
    /\ repair.pc # "refused"
    /\ repair.pc = "write" /\ finished => plan(tokens[deployment], assets) = repair

(* The list shows a token's own record: whatever other rows hold its id,   *)
(* of earlier deployments or from before the stamp, a token with a bound   *)
(* record is listed with that one, and as intact until its anchor changes. *)
ListedRecordIntact ==
  \A r \in DOMAIN assets :
    LET t == assets[r].token IN
    t # 0 /\ assets[r].stamp = deployment =>
      /\ byToken(t) = {r}
      /\ Len(tokens[deployment][t].anchors) = 1 => Confirms(tokens[deployment], assets[r], t)

(* "The deployment is recorded up front so the draft cannot be confirmed   *)
(* against a different contract than the one it was drafted for."          *)
DraftKeepsDeployment ==
  [][\A r \in DOMAIN assets :
       assets[r].token = 0 /\ assets'[r].token # 0 /\ assets[r].stamp # 0
         => assets'[r].stamp = assets[r].stamp]_vars
=============================================================================
