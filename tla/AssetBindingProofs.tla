--------------------------- MODULE AssetBindingProofs ---------------------------
(***************************************************************************)
(* The off-chain records of certificates, for every number of rows,        *)
(* requests, deployments and tokens:                                       *)
(*                                                                         *)
(*   BindingTypeCorrect       the tables keep their types;                 *)
(*   BindingsAreEarned        a row bound to a token was compared with it; *)
(*   StaleClaimsNeverWedge    an undisturbed confirm finds its token free; *)
(*   ListedRecordsAreIntact   a token is listed with its own record;       *)
(*   VerifiedBindingsStay     nobody takes a token from a row the chain has*)
(*                            confirmed since the mint;                    *)
(*   RepairsSettle            an undisturbed run of the script ends, and a *)
(*                            second one changes nothing.                  *)
(*                                                                         *)
(* They rest on one inductive invariant, BindingInv: what every request and*)
(* the script have seen of the chain still holds of the token they are     *)
(* about to write (Carries: an anchor, once on a token, stays in its       *)
(* history), and a request or a script nobody has disturbed knows every    *)
(* row in its way. The last theorem adds that the plan of a script nobody  *)
(* has disturbed is at every point the one it would make then (PlanKept),  *)
(* and that a legacy row never holds the token of a row stamped with this  *)
(* deployment (Apart), so that stamping it does not hit the unique index.  *)
(***************************************************************************)
EXTENDS AssetBinding, FiniteSetTheorems, TLAPS

(* The token t of deployment d carries or once carried the anchor h, in    *)
(* the organization of its record. Once true it stays true.                *)
Carries(d, t, h) ==
  /\ t \in 1..Len(tokens[d])
  /\ \E i \in 1..Len(tokens[d][t].anchors) : tokens[d][t].anchors[i] = h
  /\ tokens[d][t].org = OrgOf[h]

Req == [pc : {"idle", "verify", "claims", "release", "bind"},
        row : 1..MaxRow, token : 1..MaxToken, claims : SUBSET (1..MaxRow)]

Repair == [pc : {"idle", "rows", "write", "refused"}, seen : Seq(Token),
           release : SUBSET (1..MaxRow), stamp : SUBSET (1..MaxRow),
           bind : SUBSET ((1..MaxRow) \X (1..MaxToken))]

(* A token has an anchor from the mint on.                                 *)
Anchored(token) == Len(token.anchors) > 0

Tables ==
  /\ deployment \in Deployment
  /\ tokens \in [Deployment -> Seq(Token)]
  /\ \A d \in Deployment : Len(tokens[d]) <= MaxToken
                           /\ \A t \in 1..Len(tokens[d]) : Anchored(tokens[d][t])
  /\ assets \in Seq(Asset) /\ Len(assets) <= MaxRow
  /\ req \in [Request -> Req]
  /\ repair \in Repair
  /\ alone \subseteq Request \cup {"script"}

(* Every binding was compared, and the unique index has held.              *)
RowsBacked ==
  /\ \A r \in 1..Len(assets) :
       assets[r].token # 0 /\ assets[r].stamp # 0
         => Carries(assets[r].stamp, assets[r].token, assets[r].hash)
  /\ \A r, s \in 1..Len(assets) :
       assets[r].token # 0 /\ assets[s].token = assets[r].token /\ assets[s].stamp = assets[r].stamp
         => r = s

(* A confirm that is past verify has seen its draft's anchor on the token. *)
RequestBacked(q) ==
  /\ q.row \notin q.claims /\ q.claims \subseteq 1..Len(assets)
  /\ q.pc # "idle" => q.row \in 1..Len(assets)
  /\ q.pc \in {"claims", "release", "bind"} => Carries(deployment, q.token, assets[q.row].hash)
  /\ q.pc = "bind" => q.claims = {}

(* So has the script for everything it is going to write. A row it will    *)
(* stamp is compared as it is when it is stamped: confirms move it on only *)
(* to tokens they have compared themselves.                                *)
RepairBacked ==
  /\ Len(repair.seen) <= MaxToken
  /\ \A t \in 1..Len(repair.seen), h \in Hash :
       Last(repair.seen[t].anchors) = h /\ repair.seen[t].org = OrgOf[h] => Carries(deployment, t, h)
  /\ repair.release \cup repair.stamp \subseteq 1..Len(assets)
  /\ \A r \in repair.stamp :
       assets[r].token # 0 => Carries(deployment, assets[r].token, assets[r].hash)
  /\ \A p \in repair.bind :
       p[1] \in 1..Len(assets) /\ Carries(deployment, p[2], assets[p[1]].hash)

(* Nobody has written since q started: its row is still a draft, and it    *)
(* knows everybody who holds its token.                                    *)
RequestAlone(q) ==
  /\ q.pc # "idle" => assets[q.row].token = 0
  /\ q.pc \in {"release", "bind"} =>
       \A s \in 1..Len(assets) \ {q.row} :
         assets[s].token = q.token /\ ~elsewhere(assets[s]) => s \in q.claims

(* Nobody has written since the script started: its plan is still right.   *)
ScriptAlone ==
  /\ repair.pc = "rows" => repair.seen = tokens[deployment]
  /\ \A r \in repair.release : ~Confirms(tokens[deployment], assets[r], assets[r].token)
  /\ \A p \in repair.bind : assets[p[1]].token = 0 \/ p[1] \in repair.release
  /\ \A p1, p2 \in repair.bind : p1[1] = p2[1] => p1 = p2

BindingInv ==
  /\ Tables
  /\ RowsBacked
  /\ \A q \in Request : RequestBacked(req[q])
  /\ RepairBacked
  /\ \A q \in Request \cap alone : RequestAlone(req[q])
  /\ "script" \in alone => ScriptAlone

-----------------------------------------------------------------------------
(* The chain.                                                              *)

TokenTables(T) ==
  /\ T \in [Deployment -> Seq(Token)]
  /\ \A d \in Deployment : Len(T[d]) <= MaxToken
                           /\ \A t \in 1..Len(T[d]) : Anchored(T[d][t])

(* A mint appends a token, and a change of the record an anchor to one.    *)
LEMMA Minted ==
  ASSUME Tables, NEW org \in Org, NEW hash \in Hash, mintAsset(org, hash)
  PROVE  /\ TokenTables(tokens')
         /\ \A d \in Deployment : Len(tokens[d]) <= Len(tokens'[d])
         /\ \A d \in Deployment : \A t \in 1..Len(tokens[d]) : tokens'[d][t] = tokens[d][t]
<1> DEFINE new  == [org |-> org, anchors |-> <<hash>>]
           mine == Append(tokens[deployment], new)
<1>1. new \in Token /\ Anchored(new)
  BY DEF Token, Anchored
<1>2. tokens[deployment] \in Seq(Token) /\ Len(tokens[deployment]) \in Nat
  BY DEF Tables
<1>3. /\ mine \in Seq(Token) /\ Len(mine) = Len(tokens[deployment]) + 1
      /\ mine[Len(tokens[deployment]) + 1] = new
      /\ \A t \in 1..Len(tokens[deployment]) : mine[t] = tokens[deployment][t]
  <2> HIDE DEF new
  <2>1. QED
    BY <1>1, <1>2
<1>4. tokens' = [tokens EXCEPT ![deployment] = mine] /\ Len(tokens[deployment]) < MaxToken
  BY DEF mintAsset
<1> HIDE DEF mine, new
<1>5. \A d \in Deployment : tokens'[d] = IF d = deployment THEN mine ELSE tokens[d]
  BY <1>4 DEF Tables
<1>6. tokens' \in [Deployment -> Seq(Token)]
  BY <1>3, <1>4 DEF Tables
<1>7. Len(mine) <= MaxToken /\ \A t \in 1..Len(mine) : Anchored(mine[t])
  <2>1. Len(mine) <= MaxToken
    BY <1>2, <1>3, <1>4, BindingAssumption DEF BindingAssumption
  <2>2. ASSUME NEW t \in 1..Len(mine) PROVE Anchored(mine[t])
    <3>1. CASE t = Len(tokens[deployment]) + 1
      BY <1>1, <1>3, <3>1
    <3>2. CASE t # Len(tokens[deployment]) + 1
      BY <1>2, <1>3, <3>2 DEF Tables
    <3>3. QED
      BY <3>1, <3>2
  <2>3. QED
    BY <2>1, <2>2
<1>8. TokenTables(tokens')
  BY <1>5, <1>6, <1>7 DEF TokenTables, Tables
<1>9. ASSUME NEW d \in Deployment
      PROVE  Len(tokens[d]) <= Len(tokens'[d]) /\ \A t \in 1..Len(tokens[d]) : tokens'[d][t] = tokens[d][t]
  <2>1. Len(tokens[d]) \in Nat
    BY DEF Tables
  <2>2. QED
    BY <1>2, <1>3, <1>5, <2>1
<1>10. QED
  BY <1>8, <1>9

LEMMA RecordChanged ==
  ASSUME Tables, NEW t \in 1..MaxToken, NEW hash \in Hash, updateAssetRecord(t, hash)
  PROVE  /\ TokenTables(tokens')
         /\ \A d \in Deployment : Len(tokens'[d]) = Len(tokens[d])
         /\ \A d \in Deployment : \A u \in 1..Len(tokens[d]) :
              /\ tokens'[d][u].org = tokens[d][u].org
              /\ Len(tokens[d][u].anchors) <= Len(tokens'[d][u].anchors)
              /\ \A i \in 1..Len(tokens[d][u].anchors) :
                   tokens'[d][u].anchors[i] = tokens[d][u].anchors[i]
<1> DEFINE old  == tokens[deployment]
           more == Append(old[t].anchors, hash)
           new  == [old[t] EXCEPT !.anchors = more]
           mine == [old EXCEPT ![t] = new]
<1>1. old \in Seq(Token) /\ Len(old) \in Nat /\ t \in 1..Len(old) /\ old[t] \in Token
  BY DEF Tables, updateAssetRecord
<1>2. /\ old[t].anchors \in Seq(Hash) /\ Len(old[t].anchors) \in Nat
      /\ more \in Seq(Hash) /\ Len(more) = Len(old[t].anchors) + 1
      /\ \A i \in 1..Len(old[t].anchors) : more[i] = old[t].anchors[i]
  <2> HIDE DEF old
  <2>1. old[t].anchors \in Seq(Hash)
    BY <1>1 DEF Token
  <2>2. QED
    BY <2>1
<1> HIDE DEF more
<1>3. new \in Token /\ new.anchors = more /\ new.org = old[t].org
  <2> HIDE DEF old
  <2>1. QED
    BY <1>1, <1>2 DEF Token
<1>4. tokens' = [tokens EXCEPT ![deployment] = mine]
  BY <1>1 DEF updateAssetRecord, Tables, more
<1> HIDE DEF new
<1>5. /\ mine \in Seq(Token) /\ Len(mine) = Len(old)
      /\ \A u \in 1..Len(old) : mine[u] = IF u = t THEN new ELSE old[u]
  BY <1>1, <1>3
<1> HIDE DEF mine
<1>6. /\ tokens' \in [Deployment -> Seq(Token)]
      /\ \A d \in Deployment : tokens'[d] = IF d = deployment THEN mine ELSE tokens[d]
  BY <1>4, <1>5 DEF Tables
<1>7. ASSUME NEW d \in Deployment, NEW u \in 1..Len(tokens[d])
      PROVE  /\ tokens'[d][u].org = tokens[d][u].org
             /\ Len(tokens[d][u].anchors) <= Len(tokens'[d][u].anchors)
             /\ Anchored(tokens'[d][u])
             /\ \A i \in 1..Len(tokens[d][u].anchors) :
                  tokens'[d][u].anchors[i] = tokens[d][u].anchors[i]
  <2>1. CASE d = deployment /\ u = t
    <3>1. tokens'[d][u] = new
      BY <1>5, <1>6, <2>1
    <3>2. QED
      BY <1>2, <1>3, <2>1, <3>1 DEF Anchored
  <2>2. CASE ~(d = deployment /\ u = t)
    <3>1. tokens'[d][u] = tokens[d][u]
      BY <1>5, <1>6, <2>2
    <3>2. tokens[d][u] \in Token /\ Anchored(tokens[d][u])
      BY DEF Tables
    <3>3. tokens[d][u].anchors \in Seq(Hash)
      BY <3>2 DEF Token
    <3>4. QED
      BY <3>1, <3>2, <3>3
  <2>3. QED
    BY <2>1, <2>2
<1>8. \A d \in Deployment : Len(tokens'[d]) = Len(tokens[d])
  BY <1>5, <1>6
<1>9. QED
  BY <1>6, <1>7, <1>8 DEF TokenTables, Tables

(* So what a token carries it carries for ever.                            *)
LEMMA CarriesStays ==
  ASSUME Tables, NEW d \in Deployment, NEW t, NEW h, Carries(d, t, h),
         \/ tokens' = tokens
         \/ \E org \in Org, hash \in Hash : mintAsset(org, hash)
         \/ \E u \in 1..MaxToken, hash \in Hash : updateAssetRecord(u, hash)
  PROVE  Carries(d, t, h)'
<1>1. CASE tokens' = tokens
  BY <1>1 DEF Carries
<1>2. ASSUME NEW org \in Org, NEW hash \in Hash, mintAsset(org, hash) PROVE Carries(d, t, h)'
  <2>1. /\ t \in 1..Len(tokens[d]) /\ tokens'[d][t] = tokens[d][t] /\ Len(tokens[d]) <= Len(tokens'[d])
        /\ tokens'[d] \in Seq(Token) /\ tokens[d] \in Seq(Token)
    BY <1>2, Minted DEF Carries, TokenTables, Tables
  <2>2. t \in 1..Len(tokens'[d])
    BY <2>1
  <2>3. QED
    BY <2>1, <2>2 DEF Carries
<1>3. ASSUME NEW u \in 1..MaxToken, NEW hash \in Hash, updateAssetRecord(u, hash)
      PROVE  Carries(d, t, h)'
  <2>1. /\ t \in 1..Len(tokens'[d]) /\ t \in 1..Len(tokens[d])
        /\ tokens'[d][t].org = tokens[d][t].org
        /\ Len(tokens[d][t].anchors) <= Len(tokens'[d][t].anchors)
        /\ \A i \in 1..Len(tokens[d][t].anchors) : tokens'[d][t].anchors[i] = tokens[d][t].anchors[i]
    BY <1>3, RecordChanged DEF Carries
  <2>2. tokens'[d][t] \in Token /\ tokens[d][t] \in Token
    <3>1. tokens' \in [Deployment -> Seq(Token)] /\ Len(tokens'[d]) = Len(tokens[d])
      BY <1>3, RecordChanged DEF TokenTables
    <3>2. tokens'[d] \in Seq(Token) /\ tokens[d] \in Seq(Token)
      BY <3>1 DEF Tables
    <3>3. QED
      BY <2>1, <3>2
  <2>3. Len(tokens'[d][t].anchors) \in Nat /\ Len(tokens[d][t].anchors) \in Nat
    BY <2>2 DEF Token
  <2>4. PICK i \in 1..Len(tokens[d][t].anchors) : tokens[d][t].anchors[i] = h
    BY DEF Carries
  <2>5. i \in 1..Len(tokens'[d][t].anchors) /\ tokens'[d][t].anchors[i] = h
    <3>1. PICK m \in Nat, n \in Nat : m = Len(tokens[d][t].anchors) /\ n = Len(tokens'[d][t].anchors)
      BY <2>3
    <3>2. i \in 1..m /\ m <= n
      BY <2>1, <2>4, <3>1
    <3>3. i \in 1..n
      BY <3>2
    <3>4. QED
      BY <2>1, <2>4, <3>1, <3>3
  <2>6. QED
    BY <2>1, <2>5 DEF Carries
<1>4. QED
  BY <1>1, <1>2, <1>3

(* What the chain confirms a token carries.                                *)
LEMMA ConfirmedCarries ==
  ASSUME Tables, NEW a \in Asset, NEW t, Confirms(tokens[deployment], a, t)
  PROVE  Carries(deployment, t, a.hash)
<1>1. t \in 1..Len(tokens[deployment]) /\ Anchored(tokens[deployment][t])
      /\ tokens[deployment][t] \in Token
  BY DEF Confirms, Tables
<1>2. Len(tokens[deployment][t].anchors) \in Nat
  BY <1>1 DEF Token
<1>3. QED
  BY <1>1, <1>2 DEF Confirms, Carries, Last, Anchored

-----------------------------------------------------------------------------
(* What a step leaves true.                                                *)

TokensMove ==
  \/ tokens' = tokens
  \/ \E org \in Org, hash \in Hash : mintAsset(org, hash)
  \/ \E u \in 1..MaxToken, hash \in Hash : updateAssetRecord(u, hash)

HashesStay ==
  /\ Len(assets) <= Len(assets')
  /\ \A r \in 1..Len(assets) : assets'[r].hash = assets[r].hash

LEMMA MovedTables ==
  ASSUME Tables, TokensMove
  PROVE  TokenTables(tokens')
<1>1. CASE tokens' = tokens
  BY <1>1 DEF Tables, TokenTables
<1>2. QED
  BY <1>1, Minted, RecordChanged DEF TokensMove

LEMMA RowsStayBacked ==
  ASSUME Tables, RowsBacked, assets' = assets, TokensMove
  PROVE  RowsBacked'
<1>1. ASSUME NEW r \in 1..Len(assets), assets[r].token # 0, assets[r].stamp # 0
      PROVE  Carries(assets[r].stamp, assets[r].token, assets[r].hash)'
  <2>1. assets[r] \in Asset
    BY DEF Tables
  <2>2. assets[r].stamp \in Deployment
    BY <1>1, <2>1, BindingAssumption DEF Asset, Deployment, BindingAssumption
  <2>3. PICK d, t, h : d = assets[r].stamp /\ t = assets[r].token /\ h = assets[r].hash
    OBVIOUS
  <2>4. Carries(d, t, h)
    BY <1>1, <2>3 DEF RowsBacked
  <2>5. Carries(d, t, h)'
    BY <2>2, <2>3, <2>4, CarriesStays DEF TokensMove
  <2>6. QED
    BY <2>3, <2>5 DEF Carries
<1>2. QED
  BY <1>1 DEF RowsBacked

LEMMA RequestStaysBacked ==
  ASSUME Tables, NEW q \in Req, RequestBacked(q), HashesStay, assets' \in Seq(Asset),
         deployment' = deployment, TokensMove
  PROVE  RequestBacked(q)'
<1>1. Len(assets) \in Nat /\ Len(assets') \in Nat /\ 1..Len(assets) \subseteq 1..Len(assets')
  BY DEF Tables, HashesStay
<1>2. ASSUME q.pc \in {"claims", "release", "bind"}
      PROVE  Carries(deployment, q.token, assets[q.row].hash)'
  <2>1. q.row \in 1..Len(assets)
    BY <1>2 DEF RequestBacked
  <2>2. PICK d, h : d = deployment /\ h = assets[q.row].hash
    OBVIOUS
  <2>3. Carries(d, q.token, h)
    BY <1>2, <2>2 DEF RequestBacked
  <2>4. Carries(d, q.token, h)'
    BY <2>2, <2>3, CarriesStays DEF TokensMove, Tables
  <2>5. QED
    BY <2>1, <2>2, <2>4 DEF Carries, HashesStay
<1>3. QED
  BY <1>1, <1>2 DEF RequestBacked

LEMMA RepairStaysBacked ==
  ASSUME Tables, RepairBacked, HashesStay, assets' \in Seq(Asset),
         deployment' = deployment, TokensMove,
         repair'.seen = repair.seen, repair'.release \subseteq repair.release,
         repair'.stamp \subseteq repair.stamp, repair'.bind \subseteq repair.bind,
         \A r \in repair.stamp :
           assets'[r].token # 0 => Carries(deployment, assets'[r].token, assets[r].hash)
  PROVE  RepairBacked'
<1>1. Len(assets) \in Nat /\ Len(assets') \in Nat /\ 1..Len(assets) \subseteq 1..Len(assets')
  BY DEF Tables, HashesStay
<1>2. ASSUME NEW t, NEW h, Carries(deployment, t, h) PROVE Carries(deployment, t, h)'
  <2>1. PICK d : d = deployment
    OBVIOUS
  <2>2. Carries(d, t, h)'
    BY <1>2, <2>1, CarriesStays DEF TokensMove, Tables
  <2>3. QED
    BY <2>1, <2>2 DEF Carries
<1>3. ASSUME NEW r \in repair.stamp, assets'[r].token # 0
      PROVE  Carries(deployment, assets[r].token, assets[r].hash)'
  <2>1. PICK t, h : t = assets'[r].token /\ h = assets[r].hash
    OBVIOUS
  <2>2. Carries(deployment, t, h)'
    BY <1>2, <1>3, <2>1
  <2>3. assets'[r].hash = h
    BY <2>1 DEF RepairBacked, HashesStay
  <2>4. QED
    BY <2>1, <2>2, <2>3 DEF Carries
<1>4. ASSUME NEW p \in repair.bind
      PROVE  p[1] \in 1..Len(assets') /\ Carries(deployment, p[2], assets[p[1]].hash)'
  <2>1. PICK h : h = assets[p[1]].hash
    OBVIOUS
  <2>2. p[1] \in 1..Len(assets) /\ Carries(deployment, p[2], h)
    BY <2>1 DEF RepairBacked
  <2>3. Carries(deployment, p[2], h)' /\ assets'[p[1]].hash = h
    BY <1>2, <2>1, <2>2 DEF HashesStay
  <2>4. QED
    BY <1>1, <2>2, <2>3 DEF Carries
<1>5. ASSUME NEW t \in 1..Len(repair.seen), NEW h \in Hash,
             Last(repair.seen[t].anchors) = h, repair.seen[t].org = OrgOf[h]
      PROVE  Carries(deployment, t, h)'
  BY <1>2, <1>5 DEF RepairBacked
<1>6. \A r \in repair'.stamp : r \in repair.stamp
  OBVIOUS
<1>7. \A p \in repair'.bind : p \in repair.bind
  OBVIOUS
<1>8. repair'.release \cup repair'.stamp \subseteq 1..Len(assets')
  BY <1>1 DEF RepairBacked
<1>9. Len(repair'.seen) <= MaxToken
  BY DEF RepairBacked
<1>10. QED
  BY <1>3, <1>4, <1>5, <1>6, <1>7, <1>8, <1>9 DEF RepairBacked

(* A row may be written when it lets go of its token, or stays as it is,   *)
(* or is bound to a token of this deployment that carries its anchor and   *)
(* that the unique index does not refuse.                                  *)
LEMMA RowWritten ==
  ASSUME Tables, RowsBacked, RepairBacked, tokens' = tokens,
         NEW r \in 1..Len(assets), NEW a \in Asset, assets' = [assets EXCEPT ![r] = a],
         a.hash = assets[r].hash,
         \/ a.token = 0
         \/ a = assets[r]
         \/ a.stamp = deployment /\ fits(r, a) /\ Carries(deployment, a.token, a.hash)
  PROVE  /\ assets' \in Seq(Asset) /\ Len(assets') = Len(assets)
         /\ \A s \in 1..Len(assets) : assets'[s] = IF s = r THEN a ELSE assets[s]
         /\ RowsBacked' /\ HashesStay
         /\ \A s \in repair.stamp :
              assets'[s].token # 0 => Carries(deployment, assets'[s].token, assets[s].hash)
<1>1. /\ assets' \in Seq(Asset) /\ Len(assets') = Len(assets)
      /\ \A s \in 1..Len(assets) : assets'[s] = IF s = r THEN a ELSE assets[s]
      /\ DOMAIN assets = 1..Len(assets) /\ Len(assets) \in Nat
  BY DEF Tables
<1>2. HashesStay
  BY <1>1 DEF HashesStay
<1>3. ASSUME NEW s \in 1..Len(assets), assets'[s].token # 0, assets'[s].stamp # 0
      PROVE  Carries(assets'[s].stamp, assets'[s].token, assets'[s].hash)
  BY <1>1, <1>3 DEF RowsBacked
<1>4. ASSUME NEW s \in 1..Len(assets), NEW u \in 1..Len(assets), assets'[s].token # 0,
             assets'[u].token = assets'[s].token, assets'[u].stamp = assets'[s].stamp
      PROVE  s = u
  <2>1. CASE a.token = 0 \/ a = assets[r]
    BY <1>1, <1>4, <2>1 DEF RowsBacked
  <2>2. CASE fits(r, a)
    BY <1>1, <1>4, <2>2 DEF RowsBacked, fits
  <2>3. QED
    BY <2>1, <2>2
<1>5. RowsBacked'
  <2>1. ASSUME NEW s \in 1..Len(assets), assets'[s].token # 0, assets'[s].stamp # 0
        PROVE  Carries(assets[s].stamp, assets[s].token, assets[s].hash)'
    <3>1. PICK d, t, h : d = assets'[s].stamp /\ t = assets'[s].token /\ h = assets'[s].hash
      OBVIOUS
    <3>2. Carries(d, t, h)
      BY <1>3, <2>1, <3>1
    <3>3. Carries(d, t, h)'
      BY <3>2 DEF Carries
    <3>4. QED
      BY <3>1, <3>3 DEF Carries
  <2>2. QED
    BY <1>1, <1>4, <2>1 DEF RowsBacked
<1>6. ASSUME NEW s \in repair.stamp, assets'[s].token # 0
      PROVE  Carries(deployment, assets'[s].token, assets[s].hash)
  BY <1>1, <1>6 DEF RepairBacked
<1>7. QED
  BY <1>1, <1>2, <1>5, <1>6

-----------------------------------------------------------------------------
(* Steps by what they write.                                               *)

LEMMA TokensInv ==
  ASSUME BindingInv, TokensMove, alone' = {}, UNCHANGED <<deployment, assets, req, repair>>
  PROVE  BindingInv'
<1>1. Tables'
  BY MovedTables DEF BindingInv, Tables, TokenTables
<1>2. RowsBacked'
  BY RowsStayBacked DEF BindingInv
<1>3. HashesStay /\ assets' \in Seq(Asset)
  BY DEF BindingInv, Tables, HashesStay
<1>4. \A q \in Request : RequestBacked(req[q])'
  <2>1. SUFFICES ASSUME NEW q \in Request PROVE RequestBacked(req[q])'
    OBVIOUS
  <2>2. PICK w \in Req : w = req[q] /\ req'[q] = w
    BY DEF BindingInv, Tables
  <2>3. RequestBacked(w)'
    BY <1>3, <2>2, RequestStaysBacked DEF BindingInv
  <2>4. QED
    BY <2>2, <2>3 DEF RequestBacked
<1>5. RepairBacked'
  BY <1>3, RepairStaysBacked DEF BindingInv, RepairBacked
<1>6. QED
  BY <1>1, <1>2, <1>4, <1>5 DEF BindingInv

(* A request moves on without writing.                                     *)
LEMMA RequestInv ==
  ASSUME BindingInv, NEW q \in Request, NEW w \in Req, req' = [req EXCEPT ![q] = w],
         UNCHANGED <<deployment, tokens, assets, repair>>, alone' \subseteq alone \cup {q},
         RequestBacked(w), q \in alone' => RequestAlone(w)
  PROVE  BindingInv'
<1>1. \A x \in Request : req'[x] = IF x = q THEN w ELSE req[x]
  BY DEF BindingInv, Tables
<1>2. Tables'
  BY DEF BindingInv, Tables
<1>3. RowsBacked' /\ RepairBacked'
  <2>1. RowsBacked' = RowsBacked
    BY DEF RowsBacked, Carries
  <2>2. RepairBacked' = RepairBacked
    BY DEF RepairBacked, Carries
  <2>3. QED
    BY <2>1, <2>2 DEF BindingInv
<1>4. \A x \in Request : RequestBacked(req[x])'
  <2>1. SUFFICES ASSUME NEW x \in Request PROVE RequestBacked(req[x])'
    OBVIOUS
  <2>2. PICK v : v = req'[x] /\ RequestBacked(v)
    BY <1>1 DEF BindingInv
  <2>3. RequestBacked(v)'
    BY <2>2 DEF RequestBacked, Carries
  <2>4. QED
    BY <2>2, <2>3 DEF RequestBacked
<1>5. \A x \in Request \cap alone' : RequestAlone(req[x])'
  BY <1>1 DEF BindingInv, RequestAlone, elsewhere
<1>6. "script" \in alone' => ScriptAlone'
  BY BindingAssumption DEF BindingAssumption, BindingInv, ScriptAlone, Confirms
<1>7. QED
  BY <1>2, <1>3, <1>4, <1>5, <1>6 DEF BindingInv

(* The script moves on without writing.                                    *)
LEMMA RepairInv ==
  ASSUME BindingInv, repair' \in Repair, UNCHANGED <<deployment, tokens, assets, req>>,
         alone' \subseteq alone \cup {"script"}, RepairBacked', "script" \in alone' => ScriptAlone'
  PROVE  BindingInv'
<1>1. Tables'
  BY DEF BindingInv, Tables
<1>2. RowsBacked'
  BY DEF BindingInv, RowsBacked, Carries
<1>3. \A x \in Request : RequestBacked(req[x])'
  BY DEF BindingInv, RequestBacked, Carries
<1>4. \A x \in Request \cap alone' : RequestAlone(req[x])'
  BY BindingAssumption DEF BindingAssumption, BindingInv, RequestAlone, elsewhere
<1>5. QED
  BY <1>1, <1>2, <1>3, <1>4 DEF BindingInv

(* A request writes a row: then nobody else is alone.                      *)
LEMMA RequestWritesInv ==
  ASSUME BindingInv, NEW q \in Request, NEW w \in Req, req' = [req EXCEPT ![q] = w],
         UNCHANGED <<deployment, tokens, repair>>,
         NEW r \in 1..Len(assets), NEW a \in Asset, put(r, a, q), a.hash = assets[r].hash,
         \/ a.token = 0
         \/ a = assets[r]
         \/ a.stamp = deployment /\ fits(r, a) /\ Carries(deployment, a.token, a.hash),
         RequestBacked(w), q \in alone => RequestAlone(w)'
  PROVE  BindingInv'
<1>0. assets' = [assets EXCEPT ![r] = a] /\ alone' = alone \cap {q}
  BY DEF put
<1>1. \A x \in Request : req'[x] = IF x = q THEN w ELSE req[x]
  BY DEF BindingInv, Tables
<1>2. /\ assets' \in Seq(Asset) /\ Len(assets') = Len(assets) /\ RowsBacked' /\ HashesStay
      /\ \A s \in repair.stamp :
           assets'[s].token # 0 => Carries(deployment, assets'[s].token, assets[s].hash)
  BY <1>0, RowWritten DEF BindingInv
<1>3. Tables'
  BY <1>0, <1>2 DEF BindingInv, Tables
<1>4. RepairBacked'
  BY <1>2, RepairStaysBacked DEF BindingInv, TokensMove
<1>5. \A x \in Request : RequestBacked(req[x])'
  <2>1. SUFFICES ASSUME NEW x \in Request PROVE RequestBacked(req[x])'
    OBVIOUS
  <2>2. PICK v \in Req : v = req'[x] /\ RequestBacked(v)
    BY <1>1 DEF BindingInv, Tables
  <2>3. RequestBacked(v)'
    BY <1>2, <2>2, RequestStaysBacked DEF BindingInv, TokensMove
  <2>4. QED
    BY <2>2, <2>3 DEF RequestBacked
<1>6. \A x \in Request \cap alone' : RequestAlone(req[x])'
  BY <1>0, <1>1 DEF RequestAlone
<1>7. "script" \notin alone'
  BY <1>0, BindingAssumption DEF BindingAssumption
<1>8. QED
  BY <1>2, <1>3, <1>4, <1>5, <1>6, <1>7 DEF BindingInv

(* So does the script.                                                     *)
LEMMA RepairWritesInv ==
  ASSUME BindingInv, repair' \in Repair, UNCHANGED <<deployment, tokens, req>>,
         NEW r \in 1..Len(assets), NEW a \in Asset, put(r, a, "script"), a.hash = assets[r].hash,
         \/ a.token = 0
         \/ a = assets[r]
         \/ a.stamp = deployment /\ fits(r, a) /\ Carries(deployment, a.token, a.hash),
         repair'.seen = repair.seen, repair'.release \subseteq repair.release,
         repair'.stamp \subseteq repair.stamp, repair'.bind \subseteq repair.bind,
         "script" \in alone => ScriptAlone'
  PROVE  BindingInv'
<1>0. assets' = [assets EXCEPT ![r] = a] /\ alone' = alone \cap {"script"}
  BY DEF put
<1>2. /\ assets' \in Seq(Asset) /\ Len(assets') = Len(assets) /\ RowsBacked' /\ HashesStay
      /\ \A s \in repair.stamp :
           assets'[s].token # 0 => Carries(deployment, assets'[s].token, assets[s].hash)
  BY <1>0, RowWritten DEF BindingInv
<1>3. Tables'
  BY <1>0, <1>2 DEF BindingInv, Tables
<1>4. RepairBacked'
  BY <1>2, RepairStaysBacked DEF BindingInv, TokensMove
<1>5. \A x \in Request : RequestBacked(req[x])'
  <2>1. SUFFICES ASSUME NEW x \in Request PROVE RequestBacked(req[x])'
    OBVIOUS
  <2>2. PICK v \in Req : v = req'[x] /\ RequestBacked(v)
    BY DEF BindingInv, Tables
  <2>3. RequestBacked(v)'
    BY <1>2, <2>2, RequestStaysBacked DEF BindingInv, TokensMove
  <2>4. QED
    BY <2>2, <2>3 DEF RequestBacked
<1>6. Request \cap alone' = {} /\ ("script" \in alone' => "script" \in alone)
  BY <1>0, BindingAssumption DEF BindingAssumption
<1>7. QED
  BY <1>2, <1>3, <1>4, <1>5, <1>6 DEF BindingInv

-----------------------------------------------------------------------------
(* The confirm route.                                                      *)

LEMMA NoRequestBacked == NoRequest \in Req /\ RequestBacked(NoRequest) /\ RequestAlone(NoRequest)
  BY BindingAssumption DEF BindingAssumption, NoRequest, Req, RequestBacked, RequestAlone

LEMMA AnswerInv ==
  ASSUME BindingInv, NEW q \in Request, answer(q),
         UNCHANGED <<deployment, tokens, assets, repair, alone>>
  PROVE  BindingInv'
  BY NoRequestBacked, RequestInv DEF answer

LEMMA LoadInv ==
  ASSUME BindingInv, NEW q \in Request, NEW r \in DOMAIN assets, NEW t \in 1..MaxToken, load(q, r, t)
  PROVE  BindingInv'
<1>1. DOMAIN assets = 1..Len(assets) /\ Len(assets) \in Nat /\ Len(assets) <= MaxRow
  BY DEF BindingInv, Tables
<1>2. PICK w : w = [NoRequest EXCEPT !.pc = "verify", !.row = r, !.token = t]
  OBVIOUS
<1>3. req' = [req EXCEPT ![q] = w]
  BY <1>2 DEF load
<1>4. w \in Req /\ w.pc = "verify" /\ w.row = r /\ w.claims = {}
  <2>1. r \in 1..MaxRow
    BY <1>1, BindingAssumption DEF BindingAssumption
  <2>2. NoRequest \in Req /\ NoRequest.claims = {}
    BY NoRequestBacked DEF NoRequest
  <2>3. QED
    BY <1>2, <2>1, <2>2 DEF Req
<1>5. RequestBacked(w) /\ RequestAlone(w)
  BY <1>1, <1>4 DEF RequestBacked, RequestAlone, load
<1>6. QED
  BY <1>3, <1>4, <1>5, RequestInv DEF load

LEMMA VerifyInv ==
  ASSUME BindingInv, NEW q \in Request, verify(q)
  PROVE  BindingInv'
<1>1. CASE answer(q)
  BY <1>1, AnswerInv DEF verify, quiet
<1>2. CASE /\ Confirms(tokens[deployment], assets[req[q].row], req[q].token)
           /\ req' = [req EXCEPT ![q].pc = "claims"]
  <2>1. PICK v \in Req : v = req[q] /\ v.pc = "verify" /\ RequestBacked(v) /\ (q \in alone => RequestAlone(v))
    BY DEF BindingInv, Tables, verify
  <2>2. PICK w : w = [v EXCEPT !.pc = "claims"]
    OBVIOUS
  <2>3. /\ w \in Req /\ w.pc = "claims" /\ w.row = v.row /\ w.token = v.token /\ w.claims = v.claims
    BY <2>1, <2>2 DEF Req
  <2>4. assets[v.row] \in Asset
    BY <2>1 DEF BindingInv, Tables, RequestBacked
  <2>5. Carries(deployment, v.token, assets[v.row].hash)
    BY <1>2, <2>1, <2>4, ConfirmedCarries DEF BindingInv
  <2>6. RequestBacked(w) /\ (q \in alone => RequestAlone(w))
    BY <2>1, <2>3, <2>5 DEF RequestBacked, RequestAlone
  <2>7. req' = [req EXCEPT ![q] = w]
    BY <1>2, <2>1, <2>2 DEF BindingInv, Tables
  <2>8. QED
    BY <2>3, <2>6, <2>7, RequestInv DEF verify, quiet
<1>3. QED
  BY <1>1, <1>2 DEF verify

LEMMA ReadClaimsInv ==
  ASSUME BindingInv, NEW q \in Request, readClaims(q)
  PROVE  BindingInv'
<1>1. PICK v \in Req : v = req[q] /\ v.pc = "claims" /\ RequestBacked(v) /\ (q \in alone => RequestAlone(v))
  BY DEF BindingInv, Tables, readClaims
<1>2. PICK claims : claims = {s \in DOMAIN assets \ {v.row} : assets[s].token = v.token /\ ~elsewhere(assets[s])}
  OBVIOUS
<1>3. PICK w : w = [v EXCEPT !.pc = "release", !.claims = claims]
  OBVIOUS
<1>4. /\ DOMAIN assets = 1..Len(assets) /\ Len(assets) \in Nat /\ Len(assets) <= MaxRow
      /\ 1..Len(assets) \subseteq 1..MaxRow
  BY BindingAssumption DEF BindingInv, Tables, BindingAssumption
<1>5. claims \subseteq 1..Len(assets) /\ claims \subseteq 1..MaxRow
  BY <1>2, <1>4
<1>6. w \in Req /\ w.pc = "release" /\ w.row = v.row /\ w.token = v.token /\ w.claims = claims
  BY <1>1, <1>3, <1>5 DEF Req
<1>7. RequestBacked(w)
  BY <1>1, <1>2, <1>5, <1>6 DEF RequestBacked
<1>8. q \in alone => RequestAlone(w)
  BY <1>1, <1>2, <1>4, <1>6 DEF RequestAlone
<1>9. req' = [req EXCEPT ![q] = w]
  BY <1>1, <1>2, <1>3 DEF readClaims, BindingInv, Tables
<1>10. QED
  BY <1>6, <1>7, <1>8, <1>9, RequestInv DEF readClaims, quiet

LEMMA ReleaseClaimInv ==
  ASSUME BindingInv, NEW q \in Request, releaseClaim(q)
  PROVE  BindingInv'
<1>1. PICK v \in Req : v = req[q] /\ v.pc = "release" /\ RequestBacked(v) /\ (q \in alone => RequestAlone(v))
  BY DEF BindingInv, Tables, releaseClaim
<1>2. CASE v.claims = {} /\ req' = [req EXCEPT ![q].pc = "bind"] /\ quiet
  <2>1. PICK w : w = [v EXCEPT !.pc = "bind"]
    OBVIOUS
  <2>2. w \in Req /\ w.pc = "bind" /\ w.row = v.row /\ w.token = v.token /\ w.claims = v.claims
    BY <1>1, <2>1 DEF Req
  <2>3. RequestBacked(w) /\ (q \in alone => RequestAlone(w))
    BY <1>1, <1>2, <2>2 DEF RequestBacked, RequestAlone
  <2>4. req' = [req EXCEPT ![q] = w]
    BY <1>1, <1>2, <2>1 DEF BindingInv, Tables
  <2>5. QED
    BY <1>2, <2>2, <2>3, <2>4, RequestInv DEF releaseClaim, quiet
<1>3. CASE answer(q) /\ quiet
  BY <1>3, AnswerInv DEF releaseClaim, quiet
<1>4. ASSUME NEW s \in v.claims, letGo(q, s)
      PROVE  BindingInv'
  <2>1. s \in 1..Len(assets) /\ s # v.row /\ assets[s] \in Asset
    BY <1>1 DEF RequestBacked, BindingInv, Tables
  <2>2. PICK a : a = [assets[s] EXCEPT !.token = IF assets[s].token = v.token THEN 0 ELSE assets[s].token]
    OBVIOUS
  <2>3. /\ a \in Asset /\ a.hash = assets[s].hash /\ a.token # v.token
        /\ a.token = 0 \/ a = assets[s]
    BY <1>1, <2>1, <2>2, BindingAssumption DEF Asset, Req, BindingAssumption
  <2>4. PICK w : w = [v EXCEPT !.claims = v.claims \ {s}]
    OBVIOUS
  <2>5. w \in Req /\ w.pc = "release" /\ w.row = v.row /\ w.token = v.token /\ w.claims = v.claims \ {s}
    BY <1>1, <2>4 DEF Req
  <2>6. RequestBacked(w)
    BY <1>1, <2>5 DEF RequestBacked
  <2>7. put(s, a, q) /\ req' = [req EXCEPT ![q] = w]
    BY <1>1, <1>4, <2>2, <2>4 DEF letGo, BindingInv, Tables
  <2>8. /\ Len(assets') = Len(assets)
        /\ \A x \in 1..Len(assets) : assets'[x] = IF x = s THEN a ELSE assets[x]
    BY <2>1, <2>3, <2>7 DEF put, BindingInv, Tables
  <2>9. UNCHANGED <<deployment, tokens, repair>>
    BY DEF releaseClaim
  <2>10. q \in alone => RequestAlone(w)'
    <3>1. SUFFICES ASSUME q \in alone PROVE RequestAlone(w)'
      OBVIOUS
    <3>2. RequestAlone(v) /\ v.row \in 1..Len(assets)
      BY <1>1, <3>1 DEF RequestBacked
    <3>3. assets'[w.row].token = 0
      BY <1>1, <2>1, <2>5, <2>8, <3>2 DEF RequestAlone
    <3>4. ASSUME NEW x \in 1..Len(assets) \ {w.row}, assets'[x].token = w.token,
                 assets'[x].stamp \in {0, deployment}
          PROVE  x \in w.claims
      BY <1>1, <2>3, <2>5, <2>8, <3>2, <3>4 DEF RequestAlone, elsewhere
    <3>5. QED
      BY <2>5, <2>8, <2>9, <3>3, <3>4 DEF RequestAlone, elsewhere
  <2>11. QED
    BY <2>1, <2>3, <2>5, <2>6, <2>7, <2>9, <2>10, RequestWritesInv
<1>5. QED
  BY <1>1, <1>2, <1>3, <1>4 DEF releaseClaim

LEMMA BindTokenInv ==
  ASSUME BindingInv, NEW q \in Request, bindToken(q)
  PROVE  BindingInv'
<1>1. PICK v \in Req : v = req[q] /\ v.pc = "bind" /\ RequestBacked(v)
  BY DEF BindingInv, Tables, bindToken
<1>2. PICK a : a = [assets[v.row] EXCEPT !.token = v.token, !.stamp = deployment]
  OBVIOUS
<1>3. v.row \in 1..Len(assets) /\ assets[v.row] \in Asset
  BY <1>1 DEF RequestBacked, BindingInv, Tables
<1>4. a \in Asset /\ a.hash = assets[v.row].hash /\ a.stamp = deployment /\ a.token = v.token
  <2>1. deployment \in 0..MaxDeployment /\ v.token \in 0..MaxToken
    BY BindingAssumption DEF BindingInv, Tables, Deployment, Req, BindingAssumption
  <2>2. QED
    BY <1>2, <1>3, <2>1 DEF Asset
<1>5. CASE fits(v.row, a) /\ put(v.row, a, q)
  <2>1. Carries(deployment, a.token, a.hash)
    BY <1>1, <1>4 DEF RequestBacked
  <2>2. RequestAlone(NoRequest)'
    BY DEF RequestAlone, NoRequest
  <2>3. NoRequest \in Req /\ RequestBacked(NoRequest)
    BY NoRequestBacked
  <2>4. UNCHANGED <<deployment, tokens, repair>> /\ req' = [req EXCEPT ![q] = NoRequest]
    BY DEF bindToken, answer
  <2>5. QED
    BY <1>3, <1>4, <1>5, <2>1, <2>2, <2>3, <2>4, RequestWritesInv
<1>6. CASE quiet
  BY <1>6, AnswerInv DEF bindToken, quiet
<1>7. QED
  BY <1>1, <1>2, <1>5, <1>6 DEF bindToken

LEMMA ConfirmInv ==
  ASSUME BindingInv, NEW q \in Request, Confirm(q)
  PROVE  BindingInv'
<1>1. CASE crash(q)
  BY <1>1, AnswerInv DEF crash, quiet
<1>2. QED
  BY <1>1, VerifyInv, ReadClaimsInv, ReleaseClaimInv, BindTokenInv DEF Confirm

-----------------------------------------------------------------------------
(* The script.                                                             *)

(* What the script plans: it releases what the chain does not confirm, and *)
(* stamps and binds only what it does. Counting the tokens below one tells *)
(* the tokens with an anchor apart, so a draft is to get one at most.      *)
LEMMA PlanShape ==
  ASSUME Tables, NEW seen \in Seq(Token), Len(seen) <= MaxToken, NEW P, P = plan(seen, assets)
  PROVE  /\ P \in Repair /\ P.pc = "write" /\ P.seen = <<>>
         /\ \A r \in P.release : r \in 1..Len(assets) /\ ~Confirms(seen, assets[r], assets[r].token)
         /\ \A r \in P.stamp : r \in 1..Len(assets) /\ Confirms(seen, assets[r], assets[r].token)
         /\ \A p \in P.bind :
              /\ p[1] \in 1..Len(assets) /\ Confirms(seen, assets[p[1]], p[2])
              /\ assets[p[1]].token = 0 \/ p[1] \in P.release
         /\ \A p1, p2 \in P.bind : p1[1] = p2[1] => p1 = p2
<1> DEFINE bound   == {r \in DOMAIN assets : assets[r].token # 0 /\ ~elsewhere(assets[r])}
           release == {r \in bound : ~Confirms(seen, assets[r], assets[r].token)}
           drafts  == {r \in DOMAIN assets : assets[r].token = 0} \cup release
           free    == DOMAIN seen \ {assets[r].token : r \in bound \ release}
           rank(r, t) ==
             Cardinality({s \in drafts : s < r /\ assets[s].hash = assets[r].hash})
               = Cardinality({u \in free : u < t /\ Confirms(seen, assets[r], u)})
           stamp   == {r \in bound \ release : assets[r].stamp = 0}
           bind    == {p \in drafts \X free : Confirms(seen, assets[p[1]], p[2]) /\ rank(p[1], p[2])}
<1>1. P = [pc |-> "write", seen |-> <<>>, release |-> release, stamp |-> stamp, bind |-> bind]
  BY DEF plan
<1>2. /\ DOMAIN assets = 1..Len(assets) /\ Len(assets) \in Nat /\ 1..Len(assets) \subseteq 1..MaxRow
      /\ DOMAIN seen = 1..Len(seen) /\ Len(seen) \in Nat /\ 1..Len(seen) \subseteq 1..MaxToken
  BY BindingAssumption DEF Tables, BindingAssumption
<1>3. /\ release \subseteq DOMAIN assets /\ stamp \subseteq DOMAIN assets
      /\ drafts \subseteq DOMAIN assets /\ free \subseteq DOMAIN seen
  OBVIOUS
<1>4. bind \subseteq drafts \X free
  OBVIOUS
<1>5. bind \subseteq (1..MaxRow) \X (1..MaxToken)
  <2> HIDE DEF bind, drafts, free
  <2>1. QED
    BY <1>2, <1>3, <1>4
<1>6. P \in Repair /\ P.pc = "write" /\ P.seen = <<>> /\ P.release = release /\ P.stamp = stamp
      /\ P.bind = bind
  <2> HIDE DEF bind, drafts, free, release, stamp
  <2>1. QED
    BY <1>1, <1>2, <1>3, <1>5 DEF Repair
<1>7. \A r \in release : r \in 1..Len(assets) /\ ~Confirms(seen, assets[r], assets[r].token)
  BY <1>2
<1>8. \A r \in stamp : r \in 1..Len(assets) /\ Confirms(seen, assets[r], assets[r].token)
  BY <1>2
<1>9. ASSUME NEW p \in bind
      PROVE  /\ p[1] \in drafts /\ p[2] \in free
             /\ Confirms(seen, assets[p[1]], p[2]) /\ rank(p[1], p[2])
             /\ p = <<p[1], p[2]>>
  <2> HIDE DEF drafts, free, rank
  <2>1. QED
    OBVIOUS
<1>10. \A r \in drafts : r \in 1..Len(assets) /\ (assets[r].token = 0 \/ r \in release)
  BY <1>2
<1>11. ASSUME NEW p1 \in bind, NEW p2 \in bind, p1[1] = p2[1] PROVE p1 = p2
  <2>1. PICK r : r = p1[1]
    OBVIOUS
  <2>2. PICK S : S = {u \in free : Confirms(seen, assets[r], u)}
    OBVIOUS
  <2>3. S \in SUBSET (1..Len(seen))
    BY <1>2, <1>3, <2>2
  <2>4. p1[2] \in S /\ p2[2] \in S
    BY <1>9, <1>11, <2>1, <2>2
  <2>5. \A t : {u \in free : u < t /\ Confirms(seen, assets[r], u)} = {x \in S : x < t}
    BY <2>2
  <2>6. Cardinality({x \in S : x < p1[2]}) = Cardinality({x \in S : x < p2[2]})
    <3>1. rank(r, p1[2]) /\ rank(r, p2[2])
      <4> HIDE DEF rank, bind
      <4>1. QED
        BY <1>9, <1>11, <2>1
    <3>2. QED
      BY <2>5, <3>1
  <2>7. p1[2] = p2[2]
    <3> HIDE DEF bound, release, stamp, drafts, bind, free, rank
    <3>1. PICK t \in S, u \in S : t = p1[2] /\ u = p2[2]
      BY <2>4
    <3>2. IsFiniteSet(S) /\ \A x \in S : x \in Int
      <4>1. IsFiniteSet(1..Len(seen))
        BY <1>2, FS_Interval
      <4>2. IsFiniteSet(S)
        BY <2>3, <4>1, FS_Subset
      <4>3. QED
        BY <1>2, <2>3, <4>2
    <3>3. PICK T, U : T = {x \in S : x < t} /\ U = {x \in S : x < u}
      OBVIOUS
    <3>4. IsFiniteSet(T) /\ IsFiniteSet(U) /\ Cardinality(T) = Cardinality(U)
      <4>1. T \in SUBSET S /\ U \in SUBSET S
        BY <3>3
      <4>2. QED
        BY <2>6, <3>1, <3>2, <3>3, <4>1, FS_Subset
    <3>5. CASE t < u
      <4>1. T \in SUBSET U /\ t \in U /\ t \notin T
        BY <3>2, <3>3, <3>5
      <4>2. QED
        BY <3>4, <4>1, FS_Subset
    <3>6. CASE u < t
      <4>1. U \in SUBSET T /\ u \in T /\ u \notin U
        BY <3>2, <3>3, <3>6
      <4>2. QED
        BY <3>4, <4>1, FS_Subset
    <3>7. QED
      BY <3>1, <3>2, <3>5, <3>6
  <2>8. QED
    BY <1>9, <1>11, <2>7
<1> HIDE DEF release, stamp, bind, drafts, free, rank
<1>12. QED
  BY <1>6, <1>7, <1>8, <1>9, <1>10, <1>11

LEMMA StopsInv ==
  ASSUME BindingInv, repair' \in {NoRepair, Refused},
         UNCHANGED <<deployment, tokens, assets, req, alone>>
  PROVE  BindingInv'
<1>1. repair' \in Repair /\ repair'.seen = <<>> /\ repair'.release = {} /\ repair'.stamp = {}
      /\ repair'.bind = {} /\ repair'.pc \in {"idle", "refused"}
  <2>1. Refused = [pc |-> "refused", seen |-> <<>>, release |-> {}, stamp |-> {}, bind |-> {}]
    <3>1. PICK n : n = NoRepair
      OBVIOUS
    <3>2. n = [pc |-> "idle", seen |-> <<>>, release |-> {}, stamp |-> {}, bind |-> {}]
      BY <3>1 DEF NoRepair
    <3>3. Refused = [n EXCEPT !.pc = "refused"]
      BY <3>1 DEF Refused
    <3> QED BY <3>2, <3>3
  <2>2. CASE repair' = NoRepair
    BY <2>2 DEF NoRepair, Repair
  <2>3. CASE repair' = Refused
    BY <2>1, <2>3 DEF Repair
  <2> QED BY <2>2, <2>3
<1>2. RepairBacked'
  BY <1>1, BindingAssumption DEF RepairBacked, BindingAssumption
<1>3. ScriptAlone'
  BY <1>1 DEF ScriptAlone
<1>4. QED
  BY <1>1, <1>2, <1>3, RepairInv

LEMMA ReadTokensInv ==
  ASSUME BindingInv, readTokens
  PROVE  BindingInv'
<1>1. tokens[deployment] \in Seq(Token) /\ Len(tokens[deployment]) <= MaxToken
  BY DEF BindingInv, Tables
<1>2. /\ repair' \in Repair /\ repair'.seen = tokens[deployment] /\ repair'.release = {}
      /\ repair'.stamp = {} /\ repair'.bind = {} /\ repair'.pc = "rows"
  BY <1>1 DEF readTokens, NoRepair, Repair
<1>3. ASSUME NEW t \in 1..Len(tokens[deployment]), NEW h \in Hash,
             Last(tokens[deployment][t].anchors) = h, tokens[deployment][t].org = OrgOf[h]
      PROVE  Carries(deployment, t, h)
  <2>1. Anchored(tokens[deployment][t]) /\ tokens[deployment][t] \in Token
    BY <1>1 DEF BindingInv, Tables
  <2>2. Len(tokens[deployment][t].anchors) \in Nat
    BY <2>1 DEF Token
  <2>3. QED
    BY <1>3, <2>1, <2>2 DEF Carries, Last, Anchored
<1>4. RepairBacked'
  <2>1. ASSUME NEW t \in 1..Len(tokens[deployment]), NEW h \in Hash,
               Last(tokens[deployment][t].anchors) = h, tokens[deployment][t].org = OrgOf[h]
        PROVE  Carries(deployment, t, h)'
    BY <1>3, <2>1 DEF Carries, readTokens
  <2>2. QED
    BY <1>1, <1>2, <2>1 DEF RepairBacked
<1>5. ScriptAlone'
  BY <1>2 DEF ScriptAlone, readTokens
<1>6. QED
  BY <1>2, <1>4, <1>5, RepairInv DEF readTokens

LEMMA ReadRowsInv ==
  ASSUME BindingInv, readRows
  PROVE  BindingInv'
<1>1. PICK seen \in Seq(Token) : seen = repair.seen /\ Len(seen) <= MaxToken
  BY DEF BindingInv, Tables, Repair, RepairBacked
<1>2. PICK P : P = plan(seen, assets)
  OBVIOUS
<1>3. /\ P \in Repair /\ P.pc = "write" /\ P.seen = <<>>
      /\ \A r \in P.release : r \in 1..Len(assets) /\ ~Confirms(seen, assets[r], assets[r].token)
      /\ \A r \in P.stamp : r \in 1..Len(assets) /\ Confirms(seen, assets[r], assets[r].token)
      /\ \A p \in P.bind :
           /\ p[1] \in 1..Len(assets) /\ Confirms(seen, assets[p[1]], p[2])
           /\ assets[p[1]].token = 0 \/ p[1] \in P.release
      /\ \A p1, p2 \in P.bind : p1[1] = p2[1] => p1 = p2
  BY <1>1, <1>2, PlanShape DEF BindingInv
<1>4. repair' = P
  BY <1>1, <1>2 DEF readRows
<1>5. ASSUME NEW r \in 1..Len(assets), NEW t, Confirms(seen, assets[r], t)
      PROVE  Carries(deployment, t, assets[r].hash)
  <2>1. assets[r] \in Asset
    BY DEF BindingInv, Tables
  <2>2. assets[r].hash \in Hash
    BY <2>1 DEF Asset
  <2>3. QED
    BY <1>1, <1>5, <2>2 DEF BindingInv, RepairBacked, Confirms
<1>6. UNCHANGED <<deployment, tokens, assets, req, alone>>
  BY DEF readRows, quiet
<1>7. RepairBacked'
  <2>1. Len(P.seen) <= MaxToken /\ 1..Len(P.seen) = {}
    BY <1>3, BindingAssumption DEF BindingAssumption
  <2>2. P.release \cup P.stamp \subseteq 1..Len(assets)
    BY <1>3
  <2>3. \A r \in P.stamp : Carries(deployment, assets[r].token, assets[r].hash)
    BY <1>3, <1>5
  <2>4. \A p \in P.bind : p[1] \in 1..Len(assets) /\ Carries(deployment, p[2], assets[p[1]].hash)
    BY <1>3, <1>5
  <2>5. QED
    BY <1>4, <1>6, <2>1, <2>2, <2>3, <2>4 DEF RepairBacked, Carries
<1>8. "script" \in alone => ScriptAlone'
  <2>1. SUFFICES ASSUME "script" \in alone PROVE ScriptAlone'
    OBVIOUS
  <2>2. seen = tokens[deployment]
    BY <1>1, <2>1 DEF BindingInv, ScriptAlone, readRows
  <2>3. QED
    BY <1>3, <1>4, <1>6, <2>2 DEF ScriptAlone, Confirms
<1>9. QED
  BY <1>3, <1>4, <1>6, <1>7, <1>8, RepairInv

(* Releases, then stamps, then binds: each row is written as planned.      *)
LEMMA WriteInv ==
  ASSUME BindingInv, write
  PROVE  BindingInv'
<1>1. PICK p \in Repair : p = repair
  BY DEF BindingInv, Tables
<1>2. UNCHANGED <<deployment, tokens, req>>
  BY DEF write
<1>3. CASE quiet /\ repair' \in {NoRepair, Refused}
  BY <1>2, <1>3, StopsInv DEF quiet
<1>4. \A r \in 1..Len(assets) : assets[r] \in Asset
  BY DEF BindingInv, Tables
<1>5. ASSUME NEW r \in p.release, put(r, [assets[r] EXCEPT !.token = 0], "script"),
             repair' = [repair EXCEPT !.release = @ \ {r}]
      PROVE  BindingInv'
  <2>1. r \in 1..Len(assets) /\ assets[r] \in Asset
    BY <1>1, <1>4 DEF BindingInv, RepairBacked
  <2>2. PICK a : a = [assets[r] EXCEPT !.token = 0]
    OBVIOUS
  <2>3. a \in Asset /\ a.hash = assets[r].hash /\ a.token = 0
    BY <2>1, <2>2, BindingAssumption DEF Asset, BindingAssumption
  <2>4. /\ repair' \in Repair /\ repair'.seen = p.seen /\ repair'.release = p.release \ {r}
        /\ repair'.stamp = p.stamp /\ repair'.bind = p.bind /\ repair'.pc = p.pc
    BY <1>1, <1>5 DEF Repair
  <2>5. \A s \in 1..Len(assets) : assets'[s] = IF s = r THEN a ELSE assets[s]
    BY <1>5, <2>1, <2>2, <2>3 DEF put, BindingInv, Tables
  <2>6. "script" \in alone => ScriptAlone'
    <3>1. SUFFICES ASSUME "script" \in alone PROVE ScriptAlone'
      OBVIOUS
    <3>2. p.pc = "write"
      BY <1>1 DEF write
    <3>3. \A s \in repair'.release : ~Confirms(tokens[deployment], assets'[s], assets'[s].token)
      BY <1>1, <2>4, <2>5, <3>1 DEF BindingInv, RepairBacked, ScriptAlone
    <3>4. \A b \in repair'.bind : assets'[b[1]].token = 0 \/ b[1] \in repair'.release
      BY <1>1, <2>3, <2>4, <2>5, <3>1 DEF BindingInv, RepairBacked, ScriptAlone
    <3>5. QED
      BY <1>1, <1>2, <2>4, <3>1, <3>2, <3>3, <3>4 DEF BindingInv, ScriptAlone, Confirms
  <2>7. QED
    BY <1>1, <1>2, <1>5, <2>1, <2>2, <2>3, <2>4, <2>6, RepairWritesInv
<1>6. ASSUME NEW r \in p.stamp, p.release = {},
             put(r, [assets[r] EXCEPT !.stamp = deployment], "script"),
             assets[r].token = 0 \/ fits(r, [assets[r] EXCEPT !.stamp = deployment]),
             repair' = [repair EXCEPT !.stamp = @ \ {r}]
      PROVE  BindingInv'
  <2>1. r \in 1..Len(assets) /\ assets[r] \in Asset
    BY <1>1, <1>4 DEF BindingInv, RepairBacked
  <2>2. PICK a : a = [assets[r] EXCEPT !.stamp = deployment]
    OBVIOUS
  <2>3. a \in Asset /\ a.hash = assets[r].hash /\ a.token = assets[r].token /\ a.stamp = deployment
    <3>1. deployment \in 0..MaxDeployment
      BY BindingAssumption DEF BindingInv, Tables, Deployment, BindingAssumption
    <3>2. QED
      BY <2>1, <2>2, <3>1 DEF Asset
  <2>4. /\ repair' \in Repair /\ repair'.seen = p.seen /\ repair'.release = p.release
        /\ repair'.stamp = p.stamp \ {r} /\ repair'.bind = p.bind /\ repair'.pc = p.pc
    BY <1>1, <1>6 DEF Repair
  <2>5. \A s \in 1..Len(assets) : assets'[s] = IF s = r THEN a ELSE assets[s]
    BY <1>6, <2>1, <2>2, <2>3 DEF put, BindingInv, Tables
  <2>6. "script" \in alone => ScriptAlone'
    <3>1. SUFFICES ASSUME "script" \in alone PROVE ScriptAlone'
      OBVIOUS
    <3>2. p.pc = "write"
      BY <1>1 DEF write
    <3>3. \A b \in repair'.bind : assets'[b[1]].token = 0
      BY <1>1, <1>6, <2>3, <2>4, <2>5, <3>1 DEF BindingInv, RepairBacked, ScriptAlone
    <3>4. QED
      BY <1>1, <1>6, <2>4, <3>1, <3>2, <3>3 DEF BindingInv, ScriptAlone
  <2>7. a.token = 0 \/ (fits(r, a) /\ Carries(deployment, a.token, a.hash))
    BY <1>1, <1>6, <2>2, <2>3 DEF BindingInv, RepairBacked
  <2>8. put(r, a, "script")
    BY <1>6, <2>2
  <2>9. QED
    BY <1>1, <1>2, <2>1, <2>3, <2>4, <2>6, <2>7, <2>8, RepairWritesInv
<1>7. ASSUME NEW b \in p.bind, p.release = {}, p.stamp = {},
             put(b[1], [assets[b[1]] EXCEPT !.token = b[2], !.stamp = deployment], "script"),
             b[2] = 0 \/ fits(b[1], [assets[b[1]] EXCEPT !.token = b[2], !.stamp = deployment]),
             repair' = [repair EXCEPT !.bind = @ \ {b}]
      PROVE  BindingInv'
  <2>1. PICK r, t : r = b[1] /\ t = b[2]
    OBVIOUS
  <2>2. r \in 1..Len(assets) /\ assets[r] \in Asset /\ t \in 1..MaxToken
    BY <1>1, <1>4, <2>1 DEF BindingInv, RepairBacked, Repair
  <2>3. PICK a : a = [assets[r] EXCEPT !.token = t, !.stamp = deployment]
    OBVIOUS
  <2>4. a \in Asset /\ a.hash = assets[r].hash /\ a.token = t /\ a.stamp = deployment
    <3>1. deployment \in 0..MaxDeployment /\ t \in 0..MaxToken
      BY <2>2, BindingAssumption DEF BindingInv, Tables, Deployment, BindingAssumption
    <3>2. QED
      BY <2>2, <2>3, <3>1 DEF Asset
  <2>5. /\ repair' \in Repair /\ repair'.seen = p.seen /\ repair'.release = p.release
        /\ repair'.stamp = p.stamp /\ repair'.bind = p.bind \ {b} /\ repair'.pc = p.pc
    BY <1>1, <1>7 DEF Repair
  <2>6. put(r, a, "script") /\ (t = 0 \/ fits(r, a))
    BY <1>7, <2>1, <2>3
  <2>7. \A s \in 1..Len(assets) : assets'[s] = IF s = r THEN a ELSE assets[s]
    BY <2>2, <2>4, <2>6 DEF put, BindingInv, Tables
  <2>8. Carries(deployment, a.token, a.hash)
    BY <1>1, <2>1, <2>4 DEF BindingInv, RepairBacked
  <2>9. "script" \in alone => ScriptAlone'
    <3>1. SUFFICES ASSUME "script" \in alone PROVE ScriptAlone'
      OBVIOUS
    <3>2. p.pc = "write"
      BY <1>1 DEF write
    <3>3. \A c \in repair'.bind : c[1] \in 1..Len(assets) /\ c[1] # r /\ assets[c[1]].token = 0
      BY <1>1, <1>7, <2>1, <2>5, <3>1 DEF BindingInv, RepairBacked, ScriptAlone
    <3>4. \A c \in repair'.bind : assets'[c[1]].token = 0
      BY <2>7, <3>3
    <3>5. QED
      BY <1>1, <1>7, <2>5, <3>1, <3>2, <3>4 DEF BindingInv, ScriptAlone
  <2>10. QED
    BY <1>1, <1>2, <2>2, <2>4, <2>5, <2>6, <2>8, <2>9, RepairWritesInv
<1>8. ASSUME NEW r \in p.release,
             apply(r, [assets[r] EXCEPT !.token = 0], [repair EXCEPT !.release = @ \ {r}])
      PROVE  BindingInv'
  BY <1>3, <1>5, <1>8 DEF apply
<1>9. ASSUME NEW r \in p.stamp, p.release = {},
             apply(r, [assets[r] EXCEPT !.stamp = deployment], [repair EXCEPT !.stamp = @ \ {r}])
      PROVE  BindingInv'
  <2>1. assets[r] \in Asset
    BY <1>1, <1>4 DEF BindingInv, RepairBacked
  <2>2. [assets[r] EXCEPT !.stamp = deployment].token = assets[r].token
    BY <2>1 DEF Asset
  <2>3. QED
    BY <1>3, <1>6, <1>9, <2>2 DEF apply
<1>10. ASSUME NEW b \in p.bind, p.release = {}, p.stamp = {},
              apply(b[1], [assets[b[1]] EXCEPT !.token = b[2], !.stamp = deployment],
                    [repair EXCEPT !.bind = @ \ {b}])
       PROVE  BindingInv'
  <2>1. assets[b[1]] \in Asset
    BY <1>1, <1>4 DEF BindingInv, RepairBacked
  <2>2. [assets[b[1]] EXCEPT !.token = b[2], !.stamp = deployment].token = b[2]
    BY <2>1 DEF Asset
  <2>3. QED
    BY <1>3, <1>7, <1>10, <2>2 DEF apply
<1>11. QED
  BY <1>1, <1>3, <1>8, <1>9, <1>10 DEF write

-----------------------------------------------------------------------------
(* Every step.                                                             *)

LEMMA DraftInv ==
  ASSUME BindingInv, NEW hash \in Hash, draft(hash)
  PROVE  BindingInv'
<1>1. PICK a : a = [hash |-> hash, stamp |-> deployment, token |-> 0]
  OBVIOUS
<1>2. a \in Asset /\ a.token = 0
  <2>1. deployment \in 0..MaxDeployment /\ 0 \in 0..MaxToken
    BY BindingAssumption DEF BindingInv, Tables, Deployment, BindingAssumption
  <2>2. QED
    BY <1>1, <2>1 DEF Asset
<1>3. assets' = Append(assets, a) /\ Len(assets) < MaxRow /\ assets \in Seq(Asset)
  BY <1>1 DEF draft, BindingInv, Tables
<1>4. /\ assets' \in Seq(Asset) /\ Len(assets') = Len(assets) + 1 /\ Len(assets) \in Nat
      /\ assets'[Len(assets) + 1] = a
      /\ \A r \in 1..Len(assets) : assets'[r] = assets[r]
  BY <1>2, <1>3
<1>5. /\ UNCHANGED <<deployment, tokens, req, repair>> /\ alone' = {}
      /\ HashesStay
  BY <1>4 DEF draft, HashesStay
<1>6. Tables'
  <2>1. Len(assets') <= MaxRow
    BY <1>3, <1>4, BindingAssumption DEF BindingAssumption
  <2>2. QED
    BY <1>4, <1>5, <2>1 DEF BindingInv, Tables
<1>7. RowsBacked'
  <2>1. \A r \in 1..Len(assets') : assets'[r].token # 0 => r \in 1..Len(assets) /\ assets'[r] = assets[r]
    BY <1>2, <1>4
  <2>2. ASSUME NEW r \in 1..Len(assets'), assets'[r].token # 0, assets'[r].stamp # 0
        PROVE  Carries(assets[r].stamp, assets[r].token, assets[r].hash) /\ assets'[r] = assets[r]
    BY <2>1, <2>2 DEF BindingInv, RowsBacked
  <2>3. ASSUME NEW r \in 1..Len(assets'), NEW s \in 1..Len(assets'), assets'[r].token # 0,
               assets'[s].token = assets'[r].token, assets'[s].stamp = assets'[r].stamp
        PROVE  r = s
    BY <2>1, <2>3 DEF BindingInv, RowsBacked
  <2>4. ASSUME NEW r \in 1..Len(assets'), assets'[r].token # 0, assets'[r].stamp # 0
        PROVE  Carries(assets[r].stamp, assets[r].token, assets[r].hash)'
    <3>1. PICK d, t, h : d = assets'[r].stamp /\ t = assets'[r].token /\ h = assets'[r].hash
      OBVIOUS
    <3>2. Carries(d, t, h)
      BY <2>2, <2>4, <3>1
    <3>3. QED
      BY <1>5, <3>1, <3>2 DEF Carries
  <2>5. QED
    BY <2>3, <2>4 DEF RowsBacked
<1>8. \A x \in Request : RequestBacked(req[x])'
  <2>1. SUFFICES ASSUME NEW x \in Request PROVE RequestBacked(req[x])'
    OBVIOUS
  <2>2. PICK v \in Req : v = req'[x] /\ RequestBacked(v)
    BY <1>5 DEF BindingInv, Tables
  <2>3. RequestBacked(v)'
    BY <1>4, <1>5, <2>2, RequestStaysBacked DEF BindingInv, TokensMove
  <2>4. QED
    BY <2>2, <2>3 DEF RequestBacked
<1>9. RepairBacked'
  <2>1. \A r \in repair.stamp :
          assets'[r].token # 0 => Carries(deployment, assets'[r].token, assets[r].hash)
    BY <1>4 DEF BindingInv, RepairBacked
  <2>2. QED
    BY <1>4, <1>5, <2>1, RepairStaysBacked DEF BindingInv, TokensMove
<1>10. QED
  BY <1>5, <1>6, <1>7, <1>8, <1>9 DEF BindingInv

LEMMA RedeployInv ==
  ASSUME BindingInv, redeploy
  PROVE  BindingInv'
<1>1. UNCHANGED <<tokens, assets>> /\ alone' = {} /\ deployment' \in 1..MaxDeployment
  BY BindingAssumption DEF redeploy, BindingInv, Tables, Deployment, BindingAssumption
<1>2. req' \in [Request -> Req] /\ \A q \in Request : req'[q] = NoRequest
  BY NoRequestBacked DEF redeploy
<1>3. repair' \in Repair /\ repair'.seen = <<>> /\ repair'.release = {} /\ repair'.stamp = {}
      /\ repair'.bind = {}
  BY DEF redeploy, NoRepair, Repair
<1>4. Tables'
  BY <1>1, <1>2, <1>3 DEF BindingInv, Tables, Deployment
<1>5. RowsBacked'
  BY <1>1 DEF BindingInv, RowsBacked, Carries
<1>6. \A q \in Request : RequestBacked(req[q])'
  <2>1. NoRequest.pc = "idle" /\ NoRequest.claims = {}
    BY DEF NoRequest
  <2>2. QED
    BY <1>2, <2>1 DEF RequestBacked
<1>7. RepairBacked'
  BY <1>3, BindingAssumption DEF RepairBacked, BindingAssumption
<1>8. QED
  BY <1>1, <1>4, <1>5, <1>6, <1>7 DEF BindingInv

LEMMA InitInv == BindingInit => BindingInv
<1> SUFFICES ASSUME BindingInit PROVE BindingInv
  OBVIOUS
<1>1. deployment = 1 /\ 1 \in Deployment /\ alone = {} /\ repair = NoRepair
  BY BindingAssumption DEF BindingInit, Deployment, BindingAssumption
<1>2. /\ tokens \in [Deployment -> Seq(Token)]
      /\ \A d \in Deployment : Len(tokens[d]) = 0 /\ 1..Len(tokens[d]) = {}
  BY DEF BindingInit
<1>3. MaxLegacy \in Nat /\ MaxLegacy <= MaxRow
  BY BindingAssumption DEF BindingAssumption
<1>4. assets \in [1..MaxLegacy -> [hash : Hash, stamp : {0}, token : 1..MaxToken]]
      /\ \A r, s \in 1..MaxLegacy : assets[r].token = assets[s].token => r = s
  BY DEF BindingInit
<1>5. \A r \in 1..MaxLegacy : assets[r] \in Asset /\ assets[r].stamp = 0
  BY <1>4, BindingAssumption DEF Asset, BindingAssumption
<1>6. assets \in Seq(Asset) /\ Len(assets) = MaxLegacy
  <2>1. assets \in [1..MaxLegacy -> Asset]
    BY <1>4, <1>5
  <2>2. QED
    BY <1>3, <2>1
<1>7. /\ req \in [Request -> Req]
      /\ \A q \in Request : req[q] = NoRequest
  BY NoRequestBacked DEF BindingInit
<1>8. repair \in Repair /\ repair.seen = <<>> /\ repair.release = {} /\ repair.stamp = {}
      /\ repair.bind = {}
  BY <1>1 DEF NoRepair, Repair
<1>9. Tables
  BY <1>1, <1>2, <1>3, <1>6, <1>7, <1>8, BindingAssumption DEF Tables, BindingAssumption
<1>10. RowsBacked
  BY <1>4, <1>5, <1>6 DEF RowsBacked
<1>11. \A q \in Request : RequestBacked(req[q])
  BY <1>7, NoRequestBacked
<1>12. RepairBacked
  BY <1>8, BindingAssumption DEF RepairBacked, BindingAssumption
<1>13. QED
  BY <1>1, <1>9, <1>10, <1>11, <1>12 DEF BindingInv

LEMMA StepInv == BindingInv /\ [BindingNext]_vars => BindingInv'
<1> SUFFICES ASSUME BindingInv, [BindingNext]_vars PROVE BindingInv'
  OBVIOUS
<1>1. ASSUME NEW o \in Org, NEW h \in Hash, mintAsset(o, h) PROVE BindingInv'
  BY <1>1, TokensInv DEF mintAsset, TokensMove
<1>2. ASSUME NEW t \in 1..MaxToken, NEW h \in Hash, updateAssetRecord(t, h) PROVE BindingInv'
  BY <1>2, TokensInv DEF updateAssetRecord, TokensMove
<1>3. CASE redeploy
  BY <1>3, RedeployInv
<1>4. ASSUME NEW h \in Hash, draft(h) PROVE BindingInv'
  BY <1>4, DraftInv
<1>5. ASSUME NEW q \in Request, NEW r \in DOMAIN assets, NEW t \in 1..MaxToken, load(q, r, t)
      PROVE  BindingInv'
  BY <1>5, LoadInv
<1>6. ASSUME NEW q \in Request, Confirm(q) PROVE BindingInv'
  BY <1>6, ConfirmInv
<1>7. CASE readTokens
  BY <1>7, ReadTokensInv
<1>8. CASE readRows
  BY <1>8, ReadRowsInv
<1>9. CASE write
  BY <1>9, WriteInv
<1>10. CASE stop
  BY <1>10, StopsInv DEF stop, quiet
<1>11. CASE UNCHANGED vars
  <2>1. /\ UNCHANGED <<deployment, tokens, assets, req, repair, alone>>
        /\ Tables' = Tables
    BY <1>11 DEF vars, Tables
  <2>2. RowsBacked' = RowsBacked
    BY <2>1 DEF RowsBacked, Carries
  <2>3. ASSUME NEW q \in Request
        PROVE  RequestBacked(req[q])' = RequestBacked(req[q]) /\ RequestAlone(req[q])' = RequestAlone(req[q])
    BY <2>1 DEF RequestBacked, RequestAlone, Carries, elsewhere
  <2>4. RepairBacked' = RepairBacked
    BY <2>1 DEF RepairBacked, Carries
  <2>5. ScriptAlone' = ScriptAlone
    BY <2>1 DEF ScriptAlone, Confirms
  <2>6. QED
    BY <2>1, <2>2, <2>3, <2>4, <2>5 DEF BindingInv
<1>12. QED
  BY <1>1, <1>2, <1>3, <1>4, <1>5, <1>6, <1>7, <1>8, <1>9, <1>10, <1>11 DEF BindingNext

LEMMA BindingInvariant == BindingSpec => []BindingInv
  BY InitInv, StepInv, PTL DEF BindingSpec

-----------------------------------------------------------------------------
(* The script's plan.                                                      *)

(* What a run of the script would plan on deployment d, from the tokens T  *)
(* and the rows A.                                                         *)
BoundTo(d, A)      == {r \in DOMAIN A : A[r].token # 0 /\ A[r].stamp \in {0, d}}
ToRelease(d, T, A) == {r \in BoundTo(d, A) : ~Confirms(T, A[r], A[r].token)}
Settled(d, T, A)   == BoundTo(d, A) \ ToRelease(d, T, A)
ToStamp(d, T, A)   == {r \in Settled(d, T, A) : A[r].stamp = 0}
Waiting(d, T, A)   == {r \in DOMAIN A : A[r].token = 0} \cup ToRelease(d, T, A)
Unheld(d, T, A)    == DOMAIN T \ {A[r].token : r \in Settled(d, T, A)}

Below(S, x) == {y \in S : y < x}

(* The rows in W that wait for a token go to the free tokens F in order.   *)
Matches(T, A, W, F) ==
  {p \in W \X F :
     /\ Confirms(T, A[p[1]], p[2])
     /\ Cardinality(Below({s \in W : A[s].hash = A[p[1]].hash}, p[1]))
          = Cardinality(Below({u \in F : Confirms(T, A[p[1]], u)}, p[2]))}

ToBind(d, T, A) == Matches(T, A, Waiting(d, T, A), Unheld(d, T, A))

(* While nobody else writes, the writes the script still has to make are   *)
(* the plan it would make now.                                             *)
PlanKept ==
  "script" \in alone /\ repair.pc = "write" =>
    /\ repair.seen = <<>>
    /\ repair.release = ToRelease(deployment, tokens[deployment], assets)
    /\ repair.stamp = ToStamp(deployment, tokens[deployment], assets)
    /\ repair.bind = ToBind(deployment, tokens[deployment], assets)

(* The script's plan, in these parts.                                      *)
LEMMA PlanParts ==
  ASSUME NEW seen
  PROVE  plan(seen, assets) =
           [pc |-> "write", seen |-> <<>>, release |-> ToRelease(deployment, seen, assets),
            stamp |-> ToStamp(deployment, seen, assets), bind |-> ToBind(deployment, seen, assets)]
<1> DEFINE bound   == {r \in DOMAIN assets : assets[r].token # 0 /\ ~elsewhere(assets[r])}
           release == {r \in bound : ~Confirms(seen, assets[r], assets[r].token)}
           drafts  == {r \in DOMAIN assets : assets[r].token = 0} \cup release
           free    == DOMAIN seen \ {assets[r].token : r \in bound \ release}
           rank(r, t) ==
             Cardinality({s \in drafts : s < r /\ assets[s].hash = assets[r].hash})
               = Cardinality({u \in free : u < t /\ Confirms(seen, assets[r], u)})
           stamp   == {r \in bound \ release : assets[r].stamp = 0}
           bind    == {p \in drafts \X free : Confirms(seen, assets[p[1]], p[2]) /\ rank(p[1], p[2])}
<1>1. plan(seen, assets)
        = [pc |-> "write", seen |-> <<>>, release |-> release, stamp |-> stamp, bind |-> bind]
  BY DEF plan
<1>2. bound = BoundTo(deployment, assets)
  BY DEF BoundTo, elsewhere
<1>3. release = ToRelease(deployment, seen, assets)
  <2> HIDE DEF bound
  <2> QED BY <1>2 DEF ToRelease
<1>4. /\ bound \ release = Settled(deployment, seen, assets)
      /\ drafts = Waiting(deployment, seen, assets)
  <2> HIDE DEF bound, release
  <2> QED BY <1>2, <1>3 DEF Settled, Waiting
<1>5. /\ stamp = ToStamp(deployment, seen, assets)
      /\ free = Unheld(deployment, seen, assets)
  <2> HIDE DEF bound, release
  <2> QED BY <1>4 DEF ToStamp, Unheld
<1>6. PICK W, F : W = drafts /\ F = free
  OBVIOUS
<1>7. bind = Matches(seen, assets, W, F)
  <2> HIDE DEF bound, release, drafts, free
  <2>1. \A r, t : /\ {s \in drafts : s < r /\ assets[s].hash = assets[r].hash}
                       = Below({s \in W : assets[s].hash = assets[r].hash}, r)
                  /\ {u \in free : u < t /\ Confirms(seen, assets[r], u)}
                       = Below({u \in F : Confirms(seen, assets[r], u)}, t)
    BY <1>6 DEF Below
  <2>2. \A r, t : rank(r, t) <=>
          Cardinality(Below({s \in W : assets[s].hash = assets[r].hash}, r))
            = Cardinality(Below({u \in F : Confirms(seen, assets[r], u)}, t))
    BY <2>1
  <2> HIDE DEF rank
  <2> QED BY <1>6, <2>2 DEF Matches
<1> HIDE DEF bound, release, drafts, free, stamp, bind
<1> QED BY <1>1, <1>3, <1>4, <1>5, <1>6, <1>7 DEF ToBind

Without(S, x) == S \ {x}

(* Sets of row numbers and of token ids.                                   *)
NumberSets == {S \in SUBSET Nat : IsFiniteSet(S)}

(* Taking x out of a finite set lowers the rank of what is above it.       *)
LEMMA RankDrops ==
  ASSUME NEW S \in NumberSets, NEW x \in S, NEW y \in S
  PROVE  /\ Cardinality(Below(S, x)) \in Nat /\ Cardinality(Below(S, y)) \in Nat
         /\ Cardinality(Below(S \ {x}, y)) \in Nat
         /\ x < y => /\ Cardinality(Below(S \ {x}, y)) = Cardinality(Below(S, y)) - 1
                     /\ Cardinality(Below(S, x)) < Cardinality(Below(S, y))
         /\ ~(x < y) => Cardinality(Below(S \ {x}, y)) = Cardinality(Below(S, y))
<1>0. IsFiniteSet(S) /\ S \subseteq Nat
  BY DEF NumberSets
<1>1. \A z : Below(S, z) \in SUBSET S /\ Below(S \ {x}, z) \in SUBSET S
  BY DEF Below
<1>2. \A z : /\ IsFiniteSet(Below(S, z)) /\ Cardinality(Below(S, z)) \in Nat
             /\ IsFiniteSet(Below(S \ {x}, z)) /\ Cardinality(Below(S \ {x}, z)) \in Nat
  BY <1>0, <1>1, FS_Subset, FS_CardinalityType
<1>3. CASE x < y
  <2>1. x \in Below(S, y) /\ Below(S \ {x}, y) = Below(S, y) \ {x}
    BY <1>3 DEF Below
  <2>2. Cardinality(Below(S \ {x}, y)) = Cardinality(Below(S, y)) - 1
    BY <1>2, <2>1, FS_RemoveElement
  <2>3. Below(S, x) \in SUBSET Below(S, y) /\ x \notin Below(S, x)
    <3>1. \A z \in Below(S, x) : z \in S /\ z < y
      BY <1>0, <1>3 DEF Below
    <3>2. x \notin Below(S, x)
      BY <1>0 DEF Below
    <3>3. \A z \in Below(S, x) : z \in Below(S, y)
      BY <3>1 DEF Below
    <3> QED BY <3>2, <3>3
  <2>4. Cardinality(Below(S, x)) <= Cardinality(Below(S, y))
        /\ Cardinality(Below(S, x)) # Cardinality(Below(S, y))
    BY <1>2, <2>1, <2>3, FS_Subset
  <2> QED BY <1>2, <1>3, <2>2, <2>4
<1>4. CASE ~(x < y)
  <2>1. Below(S \ {x}, y) = Below(S, y)
    BY <1>4 DEF Below
  <2> QED BY <1>2, <1>4, <2>1
<1> QED BY <1>3, <1>4

(* Two sets matched by rank stay matched when a matched pair leaves.       *)
LEMMA RanksShift ==
  ASSUME NEW D \in NumberSets, NEW U \in NumberSets
  PROVE  \A r \in D, t \in U : Cardinality(Below(D, r)) = Cardinality(Below(U, t)) =>
           \A s \in D, u \in U :
             Cardinality(Below(D, s)) = Cardinality(Below(U, u)) /\ ~(s = r /\ u = t)
               <=> s # r /\ u # t
                   /\ Cardinality(Below(D \ {r}, s)) = Cardinality(Below(U \ {t}, u))
<1> SUFFICES ASSUME NEW r \in D, NEW t \in U, NEW s \in D, NEW u \in U,
                    Cardinality(Below(D, r)) = Cardinality(Below(U, t))
             PROVE  Cardinality(Below(D, s)) = Cardinality(Below(U, u)) /\ ~(s = r /\ u = t)
                      <=> s # r /\ u # t
                          /\ Cardinality(Below(D \ {r}, s)) = Cardinality(Below(U \ {t}, u))
  OBVIOUS
<1>1. /\ r \in Nat /\ t \in Nat /\ s \in Nat /\ u \in Nat
  BY DEF NumberSets
<1>2. /\ Cardinality(Below(D, r)) \in Nat /\ Cardinality(Below(D, s)) \in Nat
      /\ Cardinality(Below(D \ {r}, s)) \in Nat
      /\ r < s => /\ Cardinality(Below(D \ {r}, s)) = Cardinality(Below(D, s)) - 1
                  /\ Cardinality(Below(D, r)) < Cardinality(Below(D, s))
      /\ ~(r < s) => Cardinality(Below(D \ {r}, s)) = Cardinality(Below(D, s))
  BY RankDrops
<1>3. s < r => Cardinality(Below(D, s)) < Cardinality(Below(D, r))
  BY RankDrops
<1>4. /\ Cardinality(Below(U, t)) \in Nat /\ Cardinality(Below(U, u)) \in Nat
      /\ Cardinality(Below(U \ {t}, u)) \in Nat
      /\ t < u => /\ Cardinality(Below(U \ {t}, u)) = Cardinality(Below(U, u)) - 1
                  /\ Cardinality(Below(U, t)) < Cardinality(Below(U, u))
      /\ ~(t < u) => Cardinality(Below(U \ {t}, u)) = Cardinality(Below(U, u))
  BY RankDrops
<1>5. u < t => Cardinality(Below(U, u)) < Cardinality(Below(U, t))
  BY RankDrops
<1> QED BY <1>1, <1>2, <1>3, <1>4, <1>5

(* A bound pair leaves the match, and the others stay as they were.        *)
LEMMA MatchLeaves ==
  ASSUME NEW T, NEW A, NEW W \in NumberSets, NEW F \in NumberSets,
         NEW q \in Matches(T, A, W, F)
  PROVE  /\ q[1] \in W /\ q[2] \in F /\ Confirms(T, A[q[1]], q[2])
         /\ Matches(T, A, Without(W, q[1]), Without(F, q[2])) = Without(Matches(T, A, W, F), q)
<1> DEFINE Mine(h, V) == {s \in V : A[s].hash = h}
           Fits(a, G) == {u \in G : Confirms(T, a, u)}
           Even(s, u, V, G) == Cardinality(Below(Mine(A[s].hash, V), s))
                                 = Cardinality(Below(Fits(A[s], G), u))
<1>1. \A V, G : Matches(T, A, V, G)
                  = {p \in V \X G : Confirms(T, A[p[1]], p[2]) /\ Even(p[1], p[2], V, G)}
  BY DEF Matches
<1>2. /\ q[1] \in W /\ q[2] \in F /\ q = <<q[1], q[2]>>
      /\ Confirms(T, A[q[1]], q[2]) /\ Even(q[1], q[2], W, F)
  <2> HIDE DEF Even
  <2> QED BY <1>1
<1>3. PICK r \in W, t \in F : r = q[1] /\ t = q[2]
  BY <1>2
<1>4. Confirms(T, A[r], t) /\ Even(r, t, W, F)
  <2> HIDE DEF Even
  <2> QED BY <1>2, <1>3
<1>5. \A a, b, u : a.hash = b.hash => (Confirms(T, a, u) <=> Confirms(T, b, u))
  BY DEF Confirms
<1>6. \A a, u : Confirms(T, a, u) /\ Confirms(T, A[r], u) => a.hash = A[r].hash
  BY DEF Confirms
<1>7. ASSUME NEW s \in W, NEW u \in F, Confirms(T, A[s], u)
      PROVE  Even(s, u, W, F) /\ ~(s = r /\ u = t)
               <=> s # r /\ u # t /\ Even(s, u, W \ {r}, F \ {t})
  <2>1. CASE A[s].hash = A[r].hash
    <3>1. PICK E, X : E = Mine(A[s].hash, W) /\ X = Fits(A[s], F)
      OBVIOUS
    <3>2. E = Mine(A[r].hash, W) /\ X = Fits(A[r], F)
      BY <1>5, <2>1, <3>1
    <3>3. r \in E /\ s \in E /\ t \in X /\ u \in X
      BY <1>4, <1>7, <2>1, <3>1, <3>2
    <3>4. E \in SUBSET W /\ X \in SUBSET F
      BY <3>1
    <3>5. E \in NumberSets /\ X \in NumberSets
      BY <3>4, FS_Subset DEF NumberSets
    <3>6. Mine(A[s].hash, W \ {r}) = E \ {r} /\ Fits(A[s], F \ {t}) = X \ {t}
      BY <3>1
    <3>7. Cardinality(Below(E, r)) = Cardinality(Below(X, t))
      BY <1>4, <3>2
    <3>8. Cardinality(Below(E, s)) = Cardinality(Below(X, u)) /\ ~(s = r /\ u = t)
            <=> s # r /\ u # t
                /\ Cardinality(Below(E \ {r}, s)) = Cardinality(Below(X \ {t}, u))
      <4> HIDE DEF Mine, Fits, Even
      <4> QED BY <3>3, <3>5, <3>7, RanksShift
    <3>9. /\ Even(s, u, W, F) <=> Cardinality(Below(E, s)) = Cardinality(Below(X, u))
          /\ Even(s, u, W \ {r}, F \ {t})
               <=> Cardinality(Below(E \ {r}, s)) = Cardinality(Below(X \ {t}, u))
      BY <3>1, <3>6
    <3> QED BY <3>8, <3>9
  <2>2. CASE A[s].hash # A[r].hash
    <3>1. s # r /\ u # t
      BY <1>4, <1>6, <1>7, <2>2
    <3>2. Mine(A[s].hash, W \ {r}) = Mine(A[s].hash, W)
      BY <2>2
    <3>3. Fits(A[s], F \ {t}) = Fits(A[s], F)
      BY <1>4, <1>6, <2>2
    <3> QED BY <3>1, <3>2, <3>3
  <2> QED BY <2>1, <2>2
<1> HIDE DEF Even
<1>8. ASSUME NEW p \in W \X F
      PROVE  p \in Matches(T, A, W \ {r}, F \ {t}) <=> p \in Matches(T, A, W, F) \ {q}
  <2>0. q = <<r, t>>
    BY <1>2, <1>3
  <2>1. PICK s \in W, u \in F : p = <<s, u>>
    <3>1. p[1] \in W /\ p[2] \in F /\ p = <<p[1], p[2]>>
      OBVIOUS
    <3> QED BY <3>1
  <2>2. p \in Matches(T, A, W, F) <=> Confirms(T, A[s], u) /\ Even(s, u, W, F)
    BY <1>1, <2>1
  <2>3. p \in Matches(T, A, W \ {r}, F \ {t})
          <=> s # r /\ u # t /\ Confirms(T, A[s], u) /\ Even(s, u, W \ {r}, F \ {t})
    BY <1>1, <2>1
  <2> QED BY <1>7, <2>0, <2>1, <2>2, <2>3
<1>9. \A p \in Matches(T, A, W \ {r}, F \ {t}) : p \in W \X F
  BY <1>1
<1>10. \A p \in Matches(T, A, W, F) : p \in W \X F
  BY <1>1
<1>11. Matches(T, A, W \ {r}, F \ {t}) = Matches(T, A, W, F) \ {q}
  BY <1>8, <1>9, <1>10
<1> QED BY <1>2, <1>3, <1>11 DEF Without

(* Rows with the same anchors wait for the same tokens.                    *)
LEMMA SameHashes ==
  ASSUME NEW T, NEW A, NEW B, NEW W, NEW F, \A s \in W : B[s].hash = A[s].hash
  PROVE  Matches(T, B, W, F) = Matches(T, A, W, F)
<1>1. ASSUME NEW p \in W \X F
      PROVE  /\ Confirms(T, B[p[1]], p[2]) <=> Confirms(T, A[p[1]], p[2])
             /\ {s \in W : B[s].hash = B[p[1]].hash} = {s \in W : A[s].hash = A[p[1]].hash}
             /\ {u \in F : Confirms(T, B[p[1]], u)} = {u \in F : Confirms(T, A[p[1]], u)}
  <2>1. PICK r \in W : r = p[1]
    OBVIOUS
  <2>2. B[r].hash = A[r].hash
    OBVIOUS
  <2>3. \A u : Confirms(T, B[r], u) <=> Confirms(T, A[r], u)
    BY <2>2 DEF Confirms
  <2>4. {s \in W : B[s].hash = B[r].hash} = {s \in W : A[s].hash = A[r].hash}
    BY <2>2
  <2> QED BY <2>1, <2>3, <2>4
<1> QED BY <1>1 DEF Matches

(* B is A but for the token or the stamp of row r.                         *)
Rewritten(A, B, r) ==
  /\ DOMAIN B = DOMAIN A /\ r \in DOMAIN A
  /\ B[r].hash = A[r].hash
  /\ \A s \in DOMAIN A \ {r} : B[s] = A[s]

(* So B waits for the same tokens.                                         *)
LEMMA RewrittenConfirms ==
  ASSUME NEW T, NEW A, NEW B, NEW r, Rewritten(A, B, r)
  PROVE  /\ \A s \in DOMAIN A : B[s].hash = A[s].hash
         /\ \A s \in DOMAIN A : \A u : Confirms(T, B[s], u) <=> Confirms(T, A[s], u)
<1>1. \A s \in DOMAIN A : B[s].hash = A[s].hash
  BY DEF Rewritten
<1> QED BY <1>1 DEF Confirms

(* A row to be released that is let go only leaves the plan: it was offered*)
(* a token already.                                                        *)
LEMMA PlanReleased ==
  ASSUME NEW d, NEW T, NEW A, NEW B, NEW r \in ToRelease(d, T, A), Rewritten(A, B, r), B[r].token = 0
  PROVE  /\ ToRelease(d, T, B) = Without(ToRelease(d, T, A), r)
         /\ ToStamp(d, T, B) = ToStamp(d, T, A)
         /\ ToBind(d, T, B) = ToBind(d, T, A)
<1>1. /\ \A s \in DOMAIN A : B[s].hash = A[s].hash
      /\ \A s \in DOMAIN A : \A u : Confirms(T, B[s], u) <=> Confirms(T, A[s], u)
  BY RewrittenConfirms
<1>2. BoundTo(d, B) = BoundTo(d, A) \ {r}
  BY DEF BoundTo, Rewritten
<1>3. \A s \in BoundTo(d, A) \ {r} : B[s] = A[s]
  BY DEF BoundTo, Rewritten
<1>4. ToRelease(d, T, B) = ToRelease(d, T, A) \ {r}
  BY <1>2, <1>3 DEF ToRelease
<1>5. Settled(d, T, B) = Settled(d, T, A) /\ r \notin Settled(d, T, A)
  BY <1>2, <1>4 DEF Settled
<1>6. \A s \in Settled(d, T, A) : B[s] = A[s]
  BY <1>3, <1>5 DEF Settled
<1>7. ToStamp(d, T, B) = ToStamp(d, T, A)
  BY <1>5, <1>6 DEF ToStamp
<1>8. Unheld(d, T, B) = Unheld(d, T, A)
  BY <1>5, <1>6 DEF Unheld
<1>9. Waiting(d, T, B) = Waiting(d, T, A) /\ Waiting(d, T, A) \subseteq DOMAIN A
  BY <1>4 DEF Waiting, Rewritten, ToRelease, BoundTo
<1>10. ToBind(d, T, B) = ToBind(d, T, A)
  BY <1>1, <1>8, <1>9, SameHashes DEF ToBind
<1> QED BY <1>4, <1>7, <1>10 DEF Without

(* So does a row to be stamped that is.                                    *)
LEMMA PlanStamped ==
  ASSUME NEW d, d # 0, NEW T, NEW A, NEW B, NEW r \in ToStamp(d, T, A), Rewritten(A, B, r),
         B[r].token = A[r].token, B[r].stamp = d
  PROVE  /\ ToRelease(d, T, B) = ToRelease(d, T, A)
         /\ ToStamp(d, T, B) = Without(ToStamp(d, T, A), r)
         /\ ToBind(d, T, B) = ToBind(d, T, A)
<1>1. /\ \A s \in DOMAIN A : B[s].hash = A[s].hash
      /\ \A s \in DOMAIN A : \A u : Confirms(T, B[s], u) <=> Confirms(T, A[s], u)
  BY RewrittenConfirms
<1>2. \A s \in DOMAIN A : B[s].token = A[s].token
  BY DEF Rewritten
<1>3. r \in BoundTo(d, A) /\ r \notin ToRelease(d, T, A)
  BY DEF ToStamp, Settled
<1>4. BoundTo(d, B) = BoundTo(d, A)
  BY <1>2, <1>3 DEF BoundTo, Rewritten
<1>5. ToRelease(d, T, B) = ToRelease(d, T, A)
  BY <1>1, <1>2, <1>4 DEF ToRelease, BoundTo
<1>6. Settled(d, T, B) = Settled(d, T, A) /\ Settled(d, T, A) \subseteq DOMAIN A
  BY <1>4, <1>5 DEF Settled, BoundTo
<1>7. ToStamp(d, T, B) = ToStamp(d, T, A) \ {r}
  BY <1>6 DEF ToStamp, Rewritten
<1>8. Unheld(d, T, B) = Unheld(d, T, A)
  BY <1>2, <1>6 DEF Unheld
<1>9. Waiting(d, T, B) = Waiting(d, T, A) /\ Waiting(d, T, A) \subseteq DOMAIN A
  BY <1>2, <1>5 DEF Waiting, Rewritten, ToRelease, BoundTo
<1>10. ToBind(d, T, B) = ToBind(d, T, A)
  BY <1>1, <1>8, <1>9, SameHashes DEF ToBind
<1> QED BY <1>5, <1>7, <1>10 DEF Without

(* And a pair that is bound: its row and its token leave the match.        *)
LEMMA PlanBound ==
  ASSUME NEW d, d # 0, NEW T, NEW A, NEW B, NEW p \in ToBind(d, T, A), ToRelease(d, T, A) = {},
         Rewritten(A, B, p[1]), B[p[1]].token = p[2], B[p[1]].stamp = d,
         DOMAIN A \in NumberSets, DOMAIN T \in NumberSets, 0 \notin DOMAIN T
  PROVE  /\ ToRelease(d, T, B) = {}
         /\ ToStamp(d, T, B) = ToStamp(d, T, A)
         /\ ToBind(d, T, B) = Without(ToBind(d, T, A), p)
<1>1. PICK W, F : W = Waiting(d, T, A) /\ F = Unheld(d, T, A)
  OBVIOUS
<1>2. W \in NumberSets /\ F \in NumberSets
  <2>1. W \in SUBSET DOMAIN A /\ F \in SUBSET DOMAIN T
    BY <1>1 DEF Waiting, Unheld
  <2> QED BY <2>1, FS_Subset DEF NumberSets
<1>3. /\ p[1] \in W /\ p[2] \in F /\ Confirms(T, A[p[1]], p[2])
      /\ Matches(T, A, Without(W, p[1]), Without(F, p[2])) = Without(Matches(T, A, W, F), p)
  <2>1. p \in Matches(T, A, W, F)
    BY <1>1 DEF ToBind
  <2> QED BY <1>2, <2>1, MatchLeaves
<1>4. PICK r, t : r = p[1] /\ t = p[2]
  OBVIOUS
<1>5. /\ r \in W /\ t \in F /\ Confirms(T, A[r], t) /\ t # 0
      /\ Rewritten(A, B, r) /\ B[r].token = t /\ B[r].stamp = d
  BY <1>1, <1>3, <1>4 DEF Unheld
<1>6. /\ \A s \in DOMAIN A : B[s].hash = A[s].hash
      /\ \A s \in DOMAIN A : \A u : Confirms(T, B[s], u) <=> Confirms(T, A[s], u)
  BY <1>5, RewrittenConfirms
<1>7. r \in DOMAIN A /\ A[r].token = 0 /\ r \notin BoundTo(d, A)
  BY <1>1, <1>5 DEF Waiting, BoundTo
<1>8. BoundTo(d, B) = BoundTo(d, A) \cup {r}
  BY <1>5, <1>7 DEF BoundTo, Rewritten
<1>9. \A s \in BoundTo(d, A) : B[s] = A[s]
  BY <1>5, <1>7 DEF BoundTo, Rewritten
<1>10. ToRelease(d, T, B) = {}
  <2>1. \A s \in BoundTo(d, A) : Confirms(T, A[s], A[s].token)
    BY DEF ToRelease
  <2>2. Confirms(T, B[r], B[r].token)
    BY <1>5, <1>6, <1>7
  <2> QED BY <1>8, <1>9, <2>1, <2>2 DEF ToRelease
<1>11. Settled(d, T, A) = BoundTo(d, A) /\ Settled(d, T, B) = BoundTo(d, A) \cup {r}
  BY <1>8, <1>10 DEF Settled
<1>12. ToStamp(d, T, B) = ToStamp(d, T, A)
  BY <1>5, <1>9, <1>11 DEF ToStamp
<1>13. Unheld(d, T, B) = Without(F, t)
  <2>1. {B[s].token : s \in BoundTo(d, A) \cup {r}} = {A[s].token : s \in BoundTo(d, A)} \cup {t}
    BY <1>5, <1>9
  <2> QED BY <1>1, <1>11, <2>1 DEF Unheld, Without
<1>14. Waiting(d, T, B) = Without(W, r)
  BY <1>1, <1>5, <1>7, <1>10 DEF Waiting, Rewritten, Without
<1>15. \A s \in Without(W, r) : B[s].hash = A[s].hash
  BY <1>1, <1>6 DEF Waiting, Without
<1>16. ToBind(d, T, B) = Matches(T, A, Without(W, r), Without(F, t))
  BY <1>13, <1>14, <1>15, SameHashes DEF ToBind
<1>17. ToBind(d, T, A) = Matches(T, A, W, F)
  BY <1>1 DEF ToBind
<1> QED BY <1>3, <1>4, <1>10, <1>12, <1>16, <1>17

LEMMA NumberedTables ==
  ASSUME Tables
  PROVE  /\ DOMAIN assets \in NumberSets
         /\ DOMAIN tokens[deployment] \in NumberSets /\ 0 \notin DOMAIN tokens[deployment]
<1>1. PICK m \in Nat, n \in Nat : DOMAIN assets = 1..m /\ DOMAIN tokens[deployment] = 1..n
  <2>1. assets \in Seq(Asset) /\ tokens[deployment] \in Seq(Token)
    BY DEF Tables
  <2> QED BY <2>1
<1>2. IsFiniteSet(1..m) /\ IsFiniteSet(1..n)
  <2>1. PICK b \in Int : b = 1
    OBVIOUS
  <2> QED BY <2>1, FS_Interval
<1>3. 1..m \in SUBSET Nat /\ 1..n \in SUBSET Nat /\ 0 \notin 1..n
  OBVIOUS
<1> QED BY <1>1, <1>2, <1>3 DEF NumberSets

(* The script itself only takes what it has written off its plan.          *)
LEMMA PlanWritten ==
  ASSUME BindingInv, PlanKept, write
  PROVE  PlanKept'
<1> SUFFICES ASSUME ("script" \in alone)', repair'.pc = "write"
             PROVE  /\ repair'.seen = <<>>
                    /\ repair'.release = ToRelease(deployment, tokens[deployment], assets')
                    /\ repair'.stamp = ToStamp(deployment, tokens[deployment], assets')
                    /\ repair'.bind = ToBind(deployment, tokens[deployment], assets')
  BY DEF PlanKept, write
<1>1. PICK P \in Repair : P = repair
  BY DEF BindingInv, Tables
<1>2. PICK d, T, A, B : d = deployment /\ T = tokens[deployment] /\ A = assets /\ B = assets'
  OBVIOUS
<1>3. "script" \in alone
  BY DEF write, apply, put, quiet
<1>4. /\ P.pc = "write" /\ P.seen = <<>> /\ P.release = ToRelease(d, T, A)
      /\ P.stamp = ToStamp(d, T, A) /\ P.bind = ToBind(d, T, A)
  BY <1>1, <1>2, <1>3 DEF PlanKept, write
<1>5. d # 0 /\ DOMAIN A \in NumberSets /\ DOMAIN T \in NumberSets /\ 0 \notin DOMAIN T
  BY <1>2, NumberedTables DEF BindingInv, Tables, Deployment
<1>6. ASSUME NEW r \in DOMAIN A, NEW a, a.hash = A[r].hash,
             put(r, a, "script")
      PROVE  Rewritten(A, B, r) /\ B[r] = a
  BY <1>2, <1>6 DEF put, Rewritten
<1>7. ASSUME NEW r \in DOMAIN A
      PROVE  A[r] \in Asset
  BY <1>2 DEF BindingInv, Tables
<1>8. ASSUME NEW r \in P.release, NEW a, a = [A[r] EXCEPT !.token = 0], put(r, a, "script"),
             repair' = [repair EXCEPT !.release = @ \ {r}]
      PROVE  /\ repair'.seen = <<>> /\ repair'.release = ToRelease(d, T, B)
             /\ repair'.stamp = ToStamp(d, T, B) /\ repair'.bind = ToBind(d, T, B)
  <2>1. r \in DOMAIN A /\ r \in ToRelease(d, T, A)
    BY <1>4 DEF ToRelease, BoundTo
  <2>2. a.hash = A[r].hash /\ a.token = 0
    BY <1>7, <1>8, <2>1 DEF Asset
  <2>3. Rewritten(A, B, r) /\ B[r].token = 0
    BY <1>6, <1>8, <2>1, <2>2
  <2>4. /\ repair'.seen = P.seen /\ repair'.release = Without(P.release, r)
        /\ repair'.stamp = P.stamp /\ repair'.bind = P.bind
    BY <1>1, <1>8 DEF Repair, Without
  <2> QED BY <1>4, <2>1, <2>3, <2>4, PlanReleased
<1>9. ASSUME NEW r \in P.stamp, NEW a, a = [A[r] EXCEPT !.stamp = d], put(r, a, "script"),
             repair' = [repair EXCEPT !.stamp = @ \ {r}]
      PROVE  /\ repair'.seen = <<>> /\ repair'.release = ToRelease(d, T, B)
             /\ repair'.stamp = ToStamp(d, T, B) /\ repair'.bind = ToBind(d, T, B)
  <2>1. r \in DOMAIN A /\ r \in ToStamp(d, T, A)
    BY <1>4 DEF ToStamp, Settled, BoundTo
  <2>2. a.hash = A[r].hash /\ a.token = A[r].token /\ a.stamp = d
    BY <1>7, <1>9, <2>1 DEF Asset
  <2>3. Rewritten(A, B, r) /\ B[r].token = A[r].token /\ B[r].stamp = d
    BY <1>6, <1>9, <2>1, <2>2
  <2>4. /\ repair'.seen = P.seen /\ repair'.release = P.release
        /\ repair'.stamp = Without(P.stamp, r) /\ repair'.bind = P.bind
    BY <1>1, <1>9 DEF Repair, Without
  <2> QED BY <1>4, <1>5, <2>1, <2>3, <2>4, PlanStamped
<1>10. ASSUME P.release = {}, NEW p \in P.bind, NEW a,
              a = [A[p[1]] EXCEPT !.token = p[2], !.stamp = d], put(p[1], a, "script"),
              repair' = [repair EXCEPT !.bind = @ \ {p}]
       PROVE  /\ repair'.seen = <<>> /\ repair'.release = ToRelease(d, T, B)
              /\ repair'.stamp = ToStamp(d, T, B) /\ repair'.bind = ToBind(d, T, B)
  <2>1. p \in ToBind(d, T, A) /\ ToRelease(d, T, A) = {}
    BY <1>4, <1>10
  <2>2. PICK r, t : r \in DOMAIN A /\ r = p[1] /\ t = p[2]
    BY <1>2, <1>1 DEF BindingInv, RepairBacked
  <2>3. a.hash = A[r].hash /\ a.token = t /\ a.stamp = d
    <3>1. PICK b : b = [A[r] EXCEPT !.token = t]
      OBVIOUS
    <3>2. a = [b EXCEPT !.stamp = d]
      BY <1>10, <2>2, <3>1
    <3> QED BY <1>7, <3>1, <3>2 DEF Asset
  <2>4. Rewritten(A, B, r) /\ B[r].token = t /\ B[r].stamp = d
    BY <1>6, <1>10, <2>2, <2>3
  <2>5. /\ repair'.seen = P.seen /\ repair'.release = P.release
        /\ repair'.stamp = P.stamp /\ repair'.bind = Without(P.bind, p)
    BY <1>1, <1>10 DEF Repair, Without
  <2>6. Rewritten(A, B, p[1]) /\ B[p[1]].token = p[2] /\ B[p[1]].stamp = d
    BY <2>2, <2>4
  <2>7. /\ ToRelease(d, T, B) = {} /\ ToStamp(d, T, B) = ToStamp(d, T, A)
        /\ ToBind(d, T, B) = Without(ToBind(d, T, A), p)
    BY <1>5, <2>1, <2>6, PlanBound
  <2> QED BY <1>4, <2>1, <2>5, <2>7
<1>11. repair' \notin {NoRepair, Refused}
  BY DEF NoRepair, Refused
<1>12. \/ \E r \in P.release : /\ put(r, [A[r] EXCEPT !.token = 0], "script")
                              /\ repair' = [repair EXCEPT !.release = @ \ {r}]
       \/ \E r \in P.stamp : /\ put(r, [A[r] EXCEPT !.stamp = d], "script")
                            /\ repair' = [repair EXCEPT !.stamp = @ \ {r}]
       \/ P.release = {} /\ \E p \in P.bind :
            /\ put(p[1], [A[p[1]] EXCEPT !.token = p[2], !.stamp = d], "script")
            /\ repair' = [repair EXCEPT !.bind = @ \ {p}]
  BY <1>1, <1>2, <1>11 DEF write, apply
<1> QED BY <1>2, <1>8, <1>9, <1>10, <1>12

(* Everybody else's writes end the script's being alone.                   *)
LEMMA PlanStep ==
  ASSUME BindingInv, PlanKept, [BindingNext]_vars
  PROVE  PlanKept'
<1>1. ASSUME ("script" \notin alone)' \/ repair'.pc # "write" PROVE PlanKept'
  BY <1>1 DEF PlanKept
<1>2. ASSUME UNCHANGED <<deployment, tokens, assets, repair>>, "script" \in alone' => "script" \in alone
      PROVE  PlanKept'
  BY <1>2 DEF PlanKept
<1>3. \A q \in Request : q # "script"
  BY BindingAssumption DEF BindingAssumption
<1>4. ASSUME NEW q \in Request, NEW r, NEW a, put(r, a, q), UNCHANGED repair PROVE PlanKept'
  BY <1>1, <1>3, <1>4 DEF put
<1>5. CASE \E o \in Org, h \in Hash : mintAsset(o, h)
  BY <1>1, <1>5 DEF mintAsset
<1>6. CASE \E t \in 1..MaxToken, h \in Hash : updateAssetRecord(t, h)
  BY <1>1, <1>6 DEF updateAssetRecord
<1>7. CASE redeploy
  BY <1>1, <1>7 DEF redeploy
<1>8. CASE \E h \in Hash : draft(h)
  BY <1>1, <1>8 DEF draft
<1>9. ASSUME NEW q \in Request, NEW r \in DOMAIN assets, NEW t \in 1..MaxToken, load(q, r, t)
      PROVE  PlanKept'
  BY <1>2, <1>3, <1>9 DEF load
<1>10. ASSUME NEW q \in Request, Confirm(q) PROVE PlanKept'
  <2>1. CASE verify(q)
    BY <1>2, <2>1 DEF verify, quiet
  <2>2. CASE readClaims(q)
    BY <1>2, <2>2 DEF readClaims, quiet
  <2>3. CASE releaseClaim(q)
    BY <1>2, <1>4, <2>3 DEF releaseClaim, letGo, quiet
  <2>4. CASE bindToken(q)
    BY <1>2, <1>4, <2>4 DEF bindToken, quiet
  <2>5. CASE crash(q)
    BY <1>2, <2>5 DEF crash, quiet
  <2> QED BY <1>10, <2>1, <2>2, <2>3, <2>4, <2>5 DEF Confirm
<1>11. CASE readTokens
  BY <1>1, <1>11 DEF readTokens, NoRepair
<1>12. CASE readRows
  <2> SUFFICES ASSUME "script" \in alone' PROVE PlanKept'
    BY <1>1
  <2>1. repair.seen = tokens[deployment]
    BY <1>12 DEF BindingInv, ScriptAlone, readRows, quiet
  <2>2. repair' = [pc |-> "write", seen |-> <<>>,
                   release |-> ToRelease(deployment, tokens[deployment], assets),
                   stamp |-> ToStamp(deployment, tokens[deployment], assets),
                   bind |-> ToBind(deployment, tokens[deployment], assets)]
    BY <1>12, <2>1, PlanParts DEF readRows
  <2> QED BY <1>12, <2>2 DEF PlanKept, readRows, quiet
<1>13. CASE write
  BY <1>13, PlanWritten
<1>14. CASE stop
  BY <1>1, <1>14 DEF stop, NoRepair
<1>15. CASE UNCHANGED vars
  BY <1>2, <1>15 DEF vars
<1> QED BY <1>5, <1>6, <1>7, <1>8, <1>9, <1>10, <1>11, <1>12, <1>13, <1>14, <1>15 DEF BindingNext

-----------------------------------------------------------------------------
(* Legacy rows: they only ever lose their tokens, and whoever binds a token*)
(* to a row of this deployment has let go of the legacy row that holds it. *)

Legacy(s, t) == s \in 1..Len(assets) /\ assets[s].stamp = 0 /\ assets[s].token = t

RowsApart ==
  /\ \A r \in 1..Len(assets) : assets[r].stamp <= deployment
  /\ \A r, s \in 1..Len(assets) :
       assets[r].stamp = 0 /\ assets[r].token # 0 /\ assets[s].stamp = deployment
         => assets[s].token # assets[r].token

RequestApart(q) ==
  q.pc \in {"release", "bind"} => \A s : Legacy(s, q.token) => s = q.row \/ s \in q.claims

ScriptApart ==
  /\ \A r \in repair.stamp : assets[r].stamp \in {0, deployment}
  /\ \A p \in repair.bind : \A s : Legacy(s, p[2]) => s \in repair.release

Apart == RowsApart /\ (\A q \in Request : RequestApart(req[q])) /\ ScriptApart

(* A row is left as it is but for its token, or bound on this deployment.  *)
LegacyLeft ==
  /\ Len(assets') = Len(assets)
  /\ \A s, t : Legacy(s, t)' /\ t # 0 => Legacy(s, t)
  /\ \A s \in 1..Len(assets) : assets[s].stamp \in {0, deployment} => assets'[s].stamp \in {0, deployment}

LEMMA RowApart ==
  ASSUME BindingInv, Apart, UNCHANGED deployment,
         NEW r \in 1..Len(assets), NEW a \in Asset, assets' = [assets EXCEPT ![r] = a],
         \/ a.stamp = assets[r].stamp /\ a.token \in {0, assets[r].token}
         \/ a.stamp = deployment /\ \A s : Legacy(s, a.token) => s = r
  PROVE  RowsApart' /\ LegacyLeft
<1>1. /\ Len(assets') = Len(assets) /\ Len(assets) \in Nat
      /\ \A s \in 1..Len(assets) : assets'[s] = IF s = r THEN a ELSE assets[s]
      /\ \A s \in 1..Len(assets) : assets[s] \in Asset
      /\ deployment \in Nat \ {0}
  BY DEF BindingInv, Tables, Deployment
<1>2. LegacyLeft
  BY <1>1 DEF LegacyLeft, Legacy
<1>3. \A s \in 1..Len(assets) : assets'[s].stamp <= deployment
  BY <1>1 DEF Apart, RowsApart
<1>4. ASSUME NEW x \in 1..Len(assets), NEW s \in 1..Len(assets),
             assets'[x].stamp = 0, assets'[x].token # 0, assets'[s].stamp = deployment
      PROVE  assets'[s].token # assets'[x].token
  <2>1. assets[x].stamp = 0 /\ assets[x].token = assets'[x].token /\ x # s
    BY <1>1, <1>4
  <2>2. CASE s = r /\ a.stamp = deployment /\ \A y : Legacy(y, a.token) => y = r
    BY <1>1, <2>1, <2>2 DEF Legacy
  <2>3. CASE s = r /\ a.stamp = assets[r].stamp /\ a.token \in {0, assets[r].token}
    BY <1>1, <1>4, <2>1, <2>3 DEF Apart, RowsApart
  <2>4. CASE s # r
    BY <1>1, <1>4, <2>1, <2>4 DEF Apart, RowsApart
  <2> QED BY <2>2, <2>3, <2>4
<1> QED BY <1>1, <1>2, <1>3, <1>4 DEF RowsApart

(* Nobody else minds what happens to that row.                             *)
LEMMA ApartLeft ==
  ASSUME BindingInv, Apart, LegacyLeft, UNCHANGED deployment
  PROVE  /\ \A q \in Request : RequestApart(req[q])'  \/ req'[q] # req[q]
         /\ ScriptApart' \/ repair' # repair
<1>1. \A q \in Request : req[q].token \in 1..MaxToken
  BY DEF BindingInv, Tables, Req
<1>2. ASSUME NEW q \in Request, req'[q] = req[q] PROVE RequestApart(req[q])'
  BY <1>1, <1>2 DEF Apart, RequestApart, LegacyLeft
<1>3. ASSUME repair' = repair PROVE ScriptApart'
  <2>1. \A p \in repair.bind : p[2] # 0
    BY DEF BindingInv, Tables, Repair
  <2>2. \A x \in repair.stamp : x \in 1..Len(assets)
    BY DEF BindingInv, RepairBacked
  <2> QED BY <1>3, <2>1, <2>2 DEF Apart, ScriptApart, LegacyLeft
<1> QED BY <1>2, <1>3

(* No row is written.                                                      *)
LEMMA ApartQuiet ==
  ASSUME BindingInv, Apart, UNCHANGED <<deployment, assets>>
  PROVE  /\ RowsApart'
         /\ \A q \in Request : RequestApart(req[q])' \/ req'[q] # req[q]
         /\ ScriptApart' \/ repair' # repair
<1>1. RowsApart' /\ LegacyLeft
  BY DEF Apart, RowsApart, LegacyLeft, Legacy
<1> QED BY <1>1, ApartLeft

LEMMA ConfirmApart ==
  ASSUME BindingInv, Apart, NEW q \in Request, Confirm(q)
  PROVE  Apart'
<1>1. UNCHANGED <<deployment, repair>> /\ \A x \in Request \ {q} : req'[x] = req[x]
  BY DEF Confirm, verify, readClaims, releaseClaim, letGo, bindToken, crash, answer, BindingInv, Tables
<1>2. ASSUME RowsApart', RequestApart(req[q])', LegacyLeft PROVE Apart'
  BY <1>1, <1>2, ApartLeft DEF Apart
<1>3. ASSUME UNCHANGED assets, RequestApart(req[q])' PROVE Apart'
  BY <1>1, <1>3, ApartQuiet DEF Apart
<1>4. ASSUME answer(q) PROVE RequestApart(req[q])'
  <2>1. req'[q].pc = "idle"
    BY <1>4 DEF answer, NoRequest, BindingInv, Tables
  <2> QED BY <2>1 DEF RequestApart
<1>5. CASE verify(q)
  <2>1. answer(q) \/ req'[q].pc = "claims"
    BY <1>5 DEF verify, BindingInv, Tables, Req
  <2> QED BY <1>3, <1>4, <1>5, <2>1 DEF verify, quiet, RequestApart
<1>6. CASE readClaims(q)
  <2>1. PICK v \in Req : v = req[q]
    BY DEF BindingInv, Tables
  <2>2. PICK claims : claims = {s \in DOMAIN assets \ {v.row} : assets[s].token = v.token /\ ~elsewhere(assets[s])}
    OBVIOUS
  <2>3. req'[q] = [v EXCEPT !.pc = "release", !.claims = claims]
    BY <1>6, <2>1, <2>2 DEF readClaims, BindingInv, Tables
  <2>4. req'[q].row = v.row /\ req'[q].token = v.token /\ req'[q].claims = claims
    BY <2>1, <2>3 DEF Req
  <2>5. \A s : Legacy(s, v.token) => s = v.row \/ s \in claims
    BY <2>2 DEF Legacy, elsewhere, BindingInv, Tables
  <2>6. RequestApart(req[q])'
    BY <1>6, <2>4, <2>5 DEF RequestApart, Legacy, readClaims, quiet
  <2> QED BY <1>3, <1>6, <2>6 DEF readClaims, quiet
<1>7. CASE releaseClaim(q)
  <2>1. PICK v \in Req : v = req[q] /\ v.pc = "release" /\ RequestBacked(v) /\ RequestApart(v)
    BY <1>7 DEF BindingInv, Tables, Apart, releaseClaim
  <2>2. CASE v.claims = {} /\ req' = [req EXCEPT ![q].pc = "bind"] /\ quiet
    <3>1. req'[q].row = v.row /\ req'[q].token = v.token /\ req'[q].claims = v.claims
      BY <2>1, <2>2 DEF BindingInv, Tables, Req
    <3>2. RequestApart(req[q])'
      BY <2>1, <2>2, <3>1 DEF RequestApart, Legacy, quiet
    <3> QED BY <1>3, <2>2, <3>2 DEF quiet
  <2>3. CASE answer(q) /\ quiet
    BY <1>3, <1>4, <2>3 DEF quiet
  <2>4. ASSUME NEW s \in v.claims, letGo(q, s) PROVE Apart'
    <3>1. s \in 1..Len(assets) /\ s # v.row /\ assets[s] \in Asset /\ v.token \in 1..MaxToken
      BY <2>1 DEF RequestBacked, BindingInv, Tables, Req
    <3>2. PICK a : a = [assets[s] EXCEPT !.token = IF assets[s].token = v.token THEN 0 ELSE assets[s].token]
      OBVIOUS
    <3>3. /\ a \in Asset /\ a.stamp = assets[s].stamp /\ a.token \in {0, assets[s].token}
          /\ a.token # v.token
      BY <3>1, <3>2, BindingAssumption DEF Asset, BindingAssumption
    <3>4. assets' = [assets EXCEPT ![s] = a]
      BY <2>1, <2>4, <3>2 DEF letGo, put
    <3>5. RowsApart' /\ LegacyLeft
      BY <1>1, <3>1, <3>3, <3>4, RowApart
    <3>6. /\ req'[q].row = v.row /\ req'[q].token = v.token /\ req'[q].claims = v.claims \ {s}
      BY <2>1, <2>4 DEF letGo, BindingInv, Tables, Req
    <3>7. ~Legacy(s, v.token)'
      BY <3>1, <3>3, <3>4 DEF Legacy, BindingInv, Tables
    <3>8. \A x : Legacy(x, v.token)' => x = v.row \/ x \in v.claims \ {s}
      <4>1. \A x : Legacy(x, v.token)' => Legacy(x, v.token)
        BY <3>1, <3>5 DEF LegacyLeft
      <4> QED BY <2>1, <3>7, <4>1 DEF RequestApart
    <3>9. RequestApart(req[q])'
      BY <3>6, <3>8 DEF RequestApart
    <3> QED BY <1>2, <3>5, <3>9
  <2> QED BY <1>7, <2>1, <2>2, <2>3, <2>4 DEF releaseClaim
<1>8. CASE bindToken(q)
  <2>1. PICK v \in Req : v = req[q] /\ v.pc = "bind" /\ RequestBacked(v) /\ RequestApart(v)
    BY <1>8 DEF BindingInv, Tables, Apart, bindToken
  <2>2. PICK a : a = [assets[v.row] EXCEPT !.token = v.token, !.stamp = deployment]
    OBVIOUS
  <2>3. v.row \in 1..Len(assets) /\ assets[v.row] \in Asset
    BY <2>1 DEF RequestBacked, BindingInv, Tables
  <2>4. a \in Asset /\ a.stamp = deployment /\ a.token = v.token
    <3>1. deployment \in 0..MaxDeployment /\ v.token \in 0..MaxToken
      BY BindingAssumption DEF BindingInv, Tables, Deployment, Req, BindingAssumption
    <3> QED BY <2>2, <2>3, <3>1 DEF Asset
  <2>5. \A s : Legacy(s, a.token) => s = v.row
    BY <2>1, <2>4 DEF RequestApart, RequestBacked
  <2>6. CASE put(v.row, a, q)
    <3>1. RowsApart' /\ LegacyLeft
      BY <1>1, <2>3, <2>4, <2>5, <2>6, RowApart DEF put
    <3> QED BY <1>2, <1>4, <1>8, <3>1 DEF bindToken
  <2>7. CASE quiet
    BY <1>3, <1>4, <1>8, <2>7 DEF bindToken, quiet
  <2> QED BY <1>8, <2>1, <2>2, <2>6, <2>7 DEF bindToken
<1>9. CASE crash(q)
  BY <1>3, <1>4, <1>9 DEF crash, quiet
<1> QED BY <1>5, <1>6, <1>7, <1>8, <1>9 DEF Confirm

(* A plan takes the token of no legacy row it does not release first.      *)
LEMMA ReadRowsApart ==
  ASSUME BindingInv, Apart, readRows
  PROVE  Apart'
<1>1. PICK seen, P : seen = repair.seen /\ P = plan(seen, assets)
  OBVIOUS
<1>2. PICK d : d = deployment
  OBVIOUS
<1>3. /\ P.release = ToRelease(d, seen, assets) /\ P.stamp = ToStamp(d, seen, assets)
      /\ P.bind = ToBind(d, seen, assets)
  BY <1>1, <1>2, PlanParts
<1>4. DOMAIN assets = 1..Len(assets) /\ (\A s \in 1..Len(assets) : assets[s].token \in Nat)
      /\ DOMAIN seen = 1..Len(seen)
  <2>1. assets \in Seq(Asset) /\ repair \in Repair
    BY DEF BindingInv, Tables
  <2>2. seen \in Seq(Token)
    BY <1>1, <2>1 DEF Repair
  <2>3. \A s \in 1..Len(assets) : assets[s] \in Asset
    BY <2>1
  <2>4. \A s \in 1..Len(assets) : assets[s].token \in Nat
    BY <2>3 DEF Asset
  <2> QED BY <2>1, <2>2, <2>4
<1>5. \A r \in P.stamp : assets[r].stamp = 0
  BY <1>3 DEF ToStamp
<1>6. ASSUME NEW p \in P.bind, NEW s, Legacy(s, p[2]) PROVE s \in P.release
  <2>1. p[2] \in Unheld(d, seen, assets) /\ p[2] # 0
    BY <1>3, <1>4, <1>6 DEF ToBind, Matches, Unheld
  <2>2. s \in BoundTo(d, assets)
    BY <1>4, <1>6, <2>1 DEF Legacy, BoundTo
  <2>3. s \notin Settled(d, seen, assets)
    BY <1>6, <2>1 DEF Legacy, Unheld
  <2> QED BY <1>3, <2>2, <2>3 DEF Settled
<1>7. repair' = P /\ UNCHANGED <<deployment, assets, req>>
  BY <1>1 DEF readRows, quiet
<1>8. ScriptApart'
  BY <1>5, <1>6, <1>7 DEF ScriptApart, Legacy
<1>9. RowsApart' /\ \A q \in Request : RequestApart(req[q])'
  BY <1>7, ApartQuiet
<1> QED BY <1>8, <1>9 DEF Apart

LEMMA WriteApart ==
  ASSUME BindingInv, Apart, write
  PROVE  Apart'
<1>1. PICK P \in Repair : P = repair
  BY DEF BindingInv, Tables
<1>2. UNCHANGED <<deployment, req>> /\ deployment \in 0..MaxDeployment
  <2>1. deployment \in 1..MaxDeployment
    BY DEF BindingInv, Tables, Deployment
  <2>2. UNCHANGED <<deployment, req>>
    BY DEF write
  <2> QED BY <2>1, <2>2
<1>3. \A r \in 1..Len(assets) : assets[r] \in Asset
  BY DEF BindingInv, Tables
<1>4. CASE quiet /\ repair' \in {NoRepair, Refused}
  <2>1. repair'.stamp = {} /\ repair'.bind = {}
    BY <1>4 DEF NoRepair, Refused
  <2> QED BY <1>2, <1>4, <2>1, ApartQuiet DEF quiet, Apart, ScriptApart
<1>5. ASSUME NEW r \in 1..Len(assets), NEW a \in Asset, put(r, a, "script"),
             \/ a.stamp = assets[r].stamp /\ a.token = 0 /\ P.release \ {r} \subseteq repair'.release
             \/ /\ a.stamp = deployment /\ P.release \subseteq repair'.release
                /\ \A s : Legacy(s, a.token) => s = r,
             repair'.stamp \subseteq P.stamp, repair'.bind \subseteq P.bind
      PROVE  Apart'
  <2>1. RowsApart' /\ LegacyLeft
    BY <1>2, <1>5, RowApart DEF put
  <2>2. \A q \in Request : RequestApart(req[q])'
    BY <1>2, <2>1, ApartLeft
  <2>3. \A s \in repair'.stamp : assets'[s].stamp \in {0, deployment}
    BY <1>1, <1>5, <2>1 DEF Apart, ScriptApart, LegacyLeft, BindingInv, RepairBacked
  <2>4. ASSUME NEW p \in repair'.bind, NEW s, Legacy(s, p[2])' PROVE s \in repair'.release
    <3>1. p \in P.bind /\ p[2] # 0
      BY <1>5, <2>4 DEF Repair
    <3>2. Legacy(s, p[2]) /\ s \in P.release
      BY <1>1, <2>1, <2>4, <3>1 DEF LegacyLeft, Apart, ScriptApart
    <3>3. assets'[r] = a
      BY <1>5 DEF put, BindingInv, Tables
    <3>4. s = r => a.stamp = 0 /\ a.token # 0
      BY <2>4, <3>1, <3>3 DEF Legacy
    <3>5. deployment # 0
      BY DEF BindingInv, Tables, Deployment
    <3> QED BY <1>5, <3>2, <3>4, <3>5
  <2>5. ScriptApart'
    BY <1>2, <2>3, <2>4 DEF ScriptApart
  <2> QED BY <2>1, <2>2, <2>5 DEF Apart
<1>6. ASSUME NEW r \in P.release,
             apply(r, [assets[r] EXCEPT !.token = 0], [repair EXCEPT !.release = @ \ {r}])
      PROVE  Apart'
  <2>1. r \in 1..Len(assets) /\ assets[r] \in Asset
    BY <1>1, <1>3 DEF BindingInv, RepairBacked
  <2>2. PICK a : a = [assets[r] EXCEPT !.token = 0]
    OBVIOUS
  <2>3. a \in Asset /\ a.stamp = assets[r].stamp /\ a.token = 0
    BY <2>1, <2>2, BindingAssumption DEF Asset, BindingAssumption
  <2>4. CASE put(r, a, "script") /\ repair' = [repair EXCEPT !.release = @ \ {r}]
    <3>1. /\ repair'.release = P.release \ {r} /\ repair'.stamp = P.stamp /\ repair'.bind = P.bind
      BY <1>1, <2>4 DEF Repair
    <3> QED BY <1>5, <2>1, <2>3, <2>4, <3>1
  <2> QED BY <1>4, <1>6, <2>2, <2>4 DEF apply
<1>7. ASSUME NEW r \in P.stamp, P.release = {},
             apply(r, [assets[r] EXCEPT !.stamp = deployment], [repair EXCEPT !.stamp = @ \ {r}])
      PROVE  Apart'
  <2>1. r \in 1..Len(assets) /\ assets[r] \in Asset /\ assets[r].stamp \in {0, deployment}
    BY <1>1, <1>3, <1>7 DEF BindingInv, RepairBacked, Apart, ScriptApart
  <2>2. PICK a : a = [assets[r] EXCEPT !.stamp = deployment]
    OBVIOUS
  <2>3. a \in Asset /\ a.stamp = deployment /\ a.token = assets[r].token
    BY <1>2, <2>1, <2>2 DEF Asset
  <2>4. a.token # 0 => \A s : Legacy(s, a.token) => s = r
    <3>1. ASSUME a.token # 0, NEW s, Legacy(s, a.token) PROVE s = r
      <4>1. assets[r].stamp = deployment => FALSE
        BY <2>1, <2>3, <3>1 DEF Legacy, Apart, RowsApart
      <4> QED BY <2>1, <2>3, <3>1, <4>1 DEF Legacy, BindingInv, RowsBacked
    <3> QED BY <3>1
  <2>5. CASE put(r, a, "script") /\ repair' = [repair EXCEPT !.stamp = @ \ {r}]
    <3>1. /\ repair'.release = P.release /\ repair'.stamp \subseteq P.stamp /\ repair'.bind = P.bind
      BY <1>1, <2>5 DEF Repair
    <3>2. CASE a.token # 0
      BY <1>5, <2>1, <2>3, <2>4, <2>5, <3>1, <3>2
    <3>3. CASE a.token = 0
      <4>1. RowsApart' /\ LegacyLeft
        <5>1. /\ Len(assets') = Len(assets) /\ Len(assets) \in Nat
              /\ \A s \in 1..Len(assets) : assets'[s] = IF s = r THEN a ELSE assets[s]
          BY <2>1, <2>3, <2>5 DEF put, BindingInv, Tables
        <5>2. LegacyLeft
          BY <1>2, <2>3, <3>3, <5>1 DEF LegacyLeft, Legacy
        <5>3. RowsApart'
          BY <1>2, <2>3, <3>3, <5>1 DEF Apart, RowsApart
        <5> QED BY <5>2, <5>3
      <4>2. \A q \in Request : RequestApart(req[q])'
        BY <1>2, <4>1, ApartLeft
      <4>3. \A s \in repair'.stamp : assets'[s].stamp \in {0, deployment}
        BY <1>1, <3>1, <4>1 DEF Apart, ScriptApart, LegacyLeft, BindingInv, RepairBacked
      <4>4. ASSUME NEW p \in repair'.bind, NEW s, Legacy(s, p[2])' PROVE s \in repair'.release
        <5>1. p \in P.bind /\ p[2] # 0
          BY <3>1, <4>4 DEF Repair
        <5> QED BY <1>1, <3>1, <4>1, <4>4, <5>1 DEF LegacyLeft, Apart, ScriptApart
      <4>5. ScriptApart'
        BY <1>2, <4>3, <4>4 DEF ScriptApart
      <4> QED BY <4>1, <4>2, <4>5 DEF Apart
    <3> QED BY <3>2, <3>3
  <2> QED BY <1>4, <1>7, <2>2, <2>5 DEF apply
<1>8. ASSUME NEW b \in P.bind, P.release = {},
             apply(b[1], [assets[b[1]] EXCEPT !.token = b[2], !.stamp = deployment],
                   [repair EXCEPT !.bind = @ \ {b}])
      PROVE  Apart'
  <2>1. PICK r, t : r = b[1] /\ t = b[2]
    OBVIOUS
  <2>2. r \in 1..Len(assets) /\ assets[r] \in Asset /\ t \in 1..MaxToken
    BY <1>1, <1>3, <2>1 DEF BindingInv, RepairBacked, Repair
  <2>3. PICK a : a = [assets[r] EXCEPT !.token = t, !.stamp = deployment]
    OBVIOUS
  <2>4. a \in Asset /\ a.stamp = deployment /\ a.token = t
    <3>1. t \in 0..MaxToken
      BY <2>2, BindingAssumption DEF BindingAssumption
    <3> QED BY <1>2, <2>2, <2>3, <3>1 DEF Asset
  <2>5. \A s : ~Legacy(s, a.token)
    BY <1>1, <1>8, <2>1, <2>4 DEF Apart, ScriptApart
  <2>6. CASE put(r, a, "script") /\ repair' = [repair EXCEPT !.bind = @ \ {b}]
    <3>1. /\ repair'.release = P.release /\ repair'.stamp = P.stamp /\ repair'.bind \subseteq P.bind
      BY <1>1, <2>6 DEF Repair
    <3> QED BY <1>5, <2>2, <2>4, <2>5, <2>6, <3>1
  <2> QED BY <1>4, <1>8, <2>1, <2>3, <2>6 DEF apply
<1> QED BY <1>1, <1>4, <1>6, <1>7, <1>8 DEF write

LEMMA ApartStep ==
  ASSUME BindingInv, Apart, [BindingNext]_vars
  PROVE  Apart'
<1>1. ASSUME UNCHANGED <<deployment, assets, req, repair>> PROVE Apart'
  BY <1>1, ApartQuiet DEF Apart
<1>2. CASE \E o \in Org, h \in Hash : mintAsset(o, h)
  BY <1>1, <1>2 DEF mintAsset
<1>3. CASE \E t \in 1..MaxToken, h \in Hash : updateAssetRecord(t, h)
  BY <1>1, <1>3 DEF updateAssetRecord
<1>4. CASE redeploy
  <2>1. /\ UNCHANGED assets /\ deployment' = deployment + 1 /\ deployment \in Nat
        /\ repair'.stamp = {} /\ repair'.bind = {}
        /\ \A q \in Request : req'[q].pc = "idle"
    BY <1>4, BindingAssumption
       DEF redeploy, NoRepair, NoRequest, BindingInv, Tables, Deployment, BindingAssumption
  <2>2. \A r \in 1..Len(assets) : assets[r].stamp <= deployment /\ assets[r].stamp \in Nat
    <3>1. \A r \in 1..Len(assets) : assets[r] \in Asset
      BY DEF BindingInv, Tables
    <3>2. \A r \in 1..Len(assets) : assets[r].stamp \in Nat
      BY <3>1 DEF Asset
    <3> QED BY <3>2 DEF Apart, RowsApart
  <2>3. RowsApart'
    BY <2>1, <2>2 DEF RowsApart
  <2> QED BY <2>1, <2>3 DEF Apart, RequestApart, ScriptApart
<1>5. ASSUME NEW h \in Hash, draft(h) PROVE Apart'
  <2>1. /\ UNCHANGED <<deployment, req, repair>> /\ deployment \in Nat \ {0}
        /\ Len(assets) \in Nat /\ Len(assets') = Len(assets) + 1
        /\ assets'[Len(assets) + 1].stamp = deployment /\ assets'[Len(assets) + 1].token = 0
        /\ \A r \in 1..Len(assets) : assets'[r] = assets[r]
    BY <1>5 DEF draft, BindingInv, Tables, Deployment
  <2>2. \A r \in 1..Len(assets') : r \in 1..Len(assets) \/ r = Len(assets) + 1
    BY <2>1
  <2>3. RowsApart'
    BY <2>1, <2>2 DEF Apart, RowsApart
  <2>4. \A s, t : Legacy(s, t)' => Legacy(s, t)
    BY <2>1, <2>2 DEF Legacy
  <2>5. \A r \in repair.stamp : r \in 1..Len(assets)
    BY DEF BindingInv, RepairBacked
  <2> QED BY <2>1, <2>3, <2>4, <2>5 DEF Apart, RequestApart, ScriptApart
<1>6. ASSUME NEW q \in Request, NEW r \in DOMAIN assets, NEW t \in 1..MaxToken, load(q, r, t)
      PROVE  Apart'
  <2>1. UNCHANGED <<deployment, assets, repair>> /\ \A x \in Request \ {q} : req'[x] = req[x]
    BY <1>6 DEF load, BindingInv, Tables
  <2>2. req'[q].pc = "verify"
    BY <1>6 DEF load, NoRequest, BindingInv, Tables
  <2> QED BY <2>1, <2>2, ApartQuiet DEF Apart, RequestApart
<1>7. ASSUME NEW q \in Request, Confirm(q) PROVE Apart'
  BY <1>7, ConfirmApart
<1>8. CASE readTokens \/ stop
  <2>1. /\ UNCHANGED <<deployment, assets, req>> /\ repair'.stamp = {} /\ repair'.bind = {}
    <3>1. CASE readTokens
      <4>1. PICK n : n = NoRepair
        OBVIOUS
      <4>2. n = [pc |-> "idle", seen |-> <<>>, release |-> {}, stamp |-> {}, bind |-> {}]
        BY <4>1 DEF NoRepair
      <4>3. repair' = [n EXCEPT !.pc = "rows", !.seen = tokens[deployment]]
        BY <3>1, <4>1 DEF readTokens
      <4>4. repair'.stamp = {} /\ repair'.bind = {}
        BY <4>2, <4>3
      <4> QED BY <3>1, <4>4 DEF readTokens
    <3>2. CASE stop
      BY <3>2 DEF stop, NoRepair, quiet
    <3> QED BY <1>8, <3>1, <3>2
  <2> QED BY <2>1, ApartQuiet DEF Apart, ScriptApart
<1>9. CASE readRows
  BY <1>9, ReadRowsApart
<1>10. CASE write
  BY <1>10, WriteApart
<1>11. CASE UNCHANGED vars
  BY <1>1, <1>11 DEF vars
<1> QED BY <1>2, <1>3, <1>4, <1>5, <1>6, <1>7, <1>8, <1>9, <1>10, <1>11 DEF BindingNext

LEMMA ApartInit == BindingInit => Apart
<1> SUFFICES ASSUME BindingInit PROVE Apart
  OBVIOUS
<1>1. BindingInv /\ DOMAIN assets = 1..Len(assets) /\ deployment = 1
  BY InitInv DEF BindingInv, Tables, BindingInit
<1>2. \A r \in 1..Len(assets) : assets[r].stamp = 0
  <2>1. DOMAIN assets = 1..MaxLegacy /\ \A r \in 1..MaxLegacy : assets[r].stamp = 0
    BY DEF BindingInit
  <2> QED BY <1>1, <2>1
<1>3. RowsApart
  BY <1>1, <1>2 DEF RowsApart
<1>4. \A q \in Request : req[q].pc = "idle"
  BY DEF BindingInit, NoRequest
<1>5. repair.stamp = {} /\ repair.bind = {}
  BY DEF BindingInit, NoRepair
<1> QED BY <1>3, <1>4, <1>5 DEF Apart, RequestApart, ScriptApart

(* A script nobody has disturbed is not refused.                           *)
Unrefused == "script" \in alone => repair.pc # "refused"

LEMMA UnrefusedStep ==
  ASSUME BindingInv, PlanKept, Apart, Unrefused, [BindingNext]_vars
  PROVE  Unrefused'
<1>1. \A q \in Request : q # "script"
  BY BindingAssumption DEF BindingAssumption
<1>2. CASE write
  <2>0. SUFFICES ASSUME "script" \in alone', repair'.pc = "refused" PROVE FALSE
    BY DEF Unrefused
  <2>1. PICK P \in Repair : P = repair
    BY DEF BindingInv, Tables
  <2>2. PICK d, T : d = deployment /\ T = tokens[deployment]
    OBVIOUS
  <2>3. /\ "script" \in alone /\ P.pc = "write"
        /\ P.release = ToRelease(d, T, assets) /\ P.stamp = ToStamp(d, T, assets)
        /\ P.bind = ToBind(d, T, assets)
    BY <1>2, <2>0, <2>1, <2>2 DEF write, apply, put, quiet, PlanKept
  <2>4. /\ DOMAIN assets = 1..Len(assets) /\ \A r \in 1..Len(assets) : assets[r] \in Asset
        /\ d # 0
    BY <2>2 DEF BindingInv, Tables, Deployment
  <2>5. repair' # NoRepair /\ \A S : /\ repair' # [repair EXCEPT !.release = S]
                                    /\ repair' # [repair EXCEPT !.stamp = S]
                                    /\ repair' # [repair EXCEPT !.bind = S]
    BY <2>0, <2>1, <2>3 DEF NoRepair, Repair
  <2>6. \/ \E r \in P.stamp :
             /\ P.release = {}
             /\ ~fits(r, [assets[r] EXCEPT !.stamp = deployment])
        \/ \E p \in P.bind :
             /\ P.release = {}
             /\ ~fits(p[1], [assets[p[1]] EXCEPT !.token = p[2], !.stamp = deployment])
    <3>1. ASSUME NEW r \in P.release,
                 apply(r, [assets[r] EXCEPT !.token = 0], [repair EXCEPT !.release = @ \ {r}])
          PROVE  FALSE
      <4>1. assets[r] \in Asset
        BY <2>1, <2>4 DEF BindingInv, RepairBacked
      <4>2. [assets[r] EXCEPT !.token = 0].token = 0
        BY <4>1 DEF Asset
      <4> QED BY <2>5, <3>1, <4>2 DEF apply
    <3> QED BY <1>2, <2>1, <2>5, <3>1 DEF write, apply
  <2>7. ASSUME NEW r \in P.stamp, P.release = {},
               ~fits(r, [assets[r] EXCEPT !.stamp = deployment])
        PROVE  FALSE
    <3>1. r \in 1..Len(assets) /\ assets[r] \in Asset /\ assets[r].stamp = 0 /\ assets[r].token # 0
      BY <2>3, <2>4 DEF ToStamp, Settled, BoundTo
    <3>2. /\ [assets[r] EXCEPT !.stamp = deployment].token = assets[r].token
          /\ [assets[r] EXCEPT !.stamp = deployment].stamp = deployment
      BY <3>1 DEF Asset
    <3>3. PICK s \in 1..Len(assets) : assets[s].token = assets[r].token /\ assets[s].stamp = deployment
      BY <2>4, <2>7, <3>2 DEF fits
    <3> QED BY <3>1, <3>3 DEF Apart, RowsApart
  <2>8. ASSUME NEW p \in P.bind, P.release = {},
               ~fits(p[1], [assets[p[1]] EXCEPT !.token = p[2], !.stamp = deployment])
        PROVE  FALSE
    <3>1. PICK r, t : r = p[1] /\ t = p[2]
      OBVIOUS
    <3>2. r \in 1..Len(assets) /\ assets[r] \in Asset /\ t # 0
      BY <2>1, <2>4, <3>1 DEF BindingInv, RepairBacked, Repair
    <3>3. PICK b, a : b = [assets[r] EXCEPT !.token = t] /\ a = [b EXCEPT !.stamp = deployment]
      OBVIOUS
    <3>4. a.token = t /\ a.stamp = deployment
      BY <3>2, <3>3 DEF Asset
    <3>5. a = [assets[r] EXCEPT !.token = t, !.stamp = deployment]
      BY <3>3
    <3>6. PICK s \in 1..Len(assets) : assets[s].token = t /\ assets[s].stamp = deployment
      BY <2>4, <2>8, <3>1, <3>4, <3>5 DEF fits
    <3>7. s \in BoundTo(d, assets)
      BY <2>2, <2>4, <3>2, <3>6 DEF BoundTo
    <3>8. s \in Settled(d, T, assets)
      BY <2>3, <2>8, <3>7 DEF Settled
    <3>9. t \in Unheld(d, T, assets)
      BY <2>3, <3>1 DEF ToBind, Matches
    <3> QED BY <3>6, <3>8, <3>9 DEF Unheld
  <2> QED BY <2>6, <2>7, <2>8
<1>3. ASSUME UNCHANGED repair, "script" \in alone' => "script" \in alone PROVE Unrefused'
  BY <1>3 DEF Unrefused
<1>4. ASSUME NEW q \in Request, Confirm(q) PROVE Unrefused'
  BY <1>1, <1>3, <1>4
     DEF Confirm, verify, readClaims, releaseClaim, letGo, bindToken, crash, put, quiet
<1>5. CASE readTokens \/ readRows \/ stop
  <2>1. CASE readTokens
    <3>1. PICK n : n = NoRepair
      OBVIOUS
    <3>2. n = [pc |-> "idle", seen |-> <<>>, release |-> {}, stamp |-> {}, bind |-> {}]
      BY <3>1 DEF NoRepair
    <3>3. repair' = [n EXCEPT !.pc = "rows", !.seen = tokens[deployment]]
      BY <2>1, <3>1 DEF readTokens
    <3>4. repair'.pc = "rows"
      BY <3>2, <3>3
    <3> QED BY <3>4 DEF Unrefused
  <2>2. CASE readRows
    <3>1. PICK P : P = plan(repair.seen, assets)
      OBVIOUS
    <3>2. P.pc = "write"
      BY <3>1 DEF plan
    <3> QED BY <2>2, <3>1, <3>2 DEF readRows, Unrefused
  <2>3. CASE stop
    BY <2>3 DEF stop, NoRepair, Unrefused
  <2> QED BY <1>5, <2>1, <2>2, <2>3
<1>6. CASE redeploy
  BY <1>6 DEF redeploy, Unrefused
<1>7. CASE \/ \E o \in Org, h \in Hash : mintAsset(o, h)
           \/ \E t \in 1..MaxToken, h \in Hash : updateAssetRecord(t, h)
           \/ \E h \in Hash : draft(h)
           \/ \E q \in Request, r \in DOMAIN assets, t \in 1..MaxToken : load(q, r, t)
           \/ UNCHANGED vars
  BY <1>1, <1>3, <1>7 DEF mintAsset, updateAssetRecord, draft, load, vars
<1> QED BY <1>2, <1>4, <1>5, <1>6, <1>7 DEF BindingNext

-----------------------------------------------------------------------------
(* What the project promises.                                              *)

(* The tables keep their shapes through every race of confirms, script,    *)
(* mints and new deployments.                                              *)
THEOREM BindingTypeCorrect == BindingSpec => []BindingTypeOK
<1>1. BindingInv => BindingTypeOK
  <2> SUFFICES ASSUME BindingInv PROVE BindingTypeOK
    OBVIOUS
  <2>1. \A q \in Request : req[q].row \notin req[q].claims
    BY DEF BindingInv, RequestBacked
  <2>2. req \in [Request -> [pc : {"idle", "verify", "claims", "release", "bind"},
                             row : 1..MaxRow, token : 1..MaxToken, claims : SUBSET (1..MaxRow)]]
    BY DEF BindingInv, Tables, Req
  <2>3. /\ repair.pc \in {"idle", "rows", "write", "refused"} /\ repair.seen \in Seq(Token)
        /\ repair.release \cup repair.stamp \subseteq 1..MaxRow
        /\ repair.bind \subseteq (1..MaxRow) \X (1..MaxToken)
    BY DEF BindingInv, Tables, Repair
  <2>4. QED
    BY <2>1, <2>2, <2>3 DEF BindingInv, Tables, BindingTypeOK
<1>2. QED
  BY <1>1, BindingInvariant, PTL

(* Confirm and the script bind a row to a token of a deployment only after *)
(* comparing the two, whatever moved in between.                           *)
THEOREM BindingsAreEarned == BindingSpec => []BindingEarned
<1>1. BindingInv => BindingEarned
  <2> SUFFICES ASSUME BindingInv, NEW r \in DOMAIN assets, assets[r].token # 0, assets[r].stamp # 0
               PROVE  LET a == assets[r] IN
                      /\ a.token \in DOMAIN tokens[a.stamp]
                      /\ a.hash \in Range(tokens[a.stamp][a.token].anchors)
                      /\ tokens[a.stamp][a.token].org = OrgOf[a.hash]
    BY DEF BindingEarned
  <2>1. PICK a \in Asset : a = assets[r]
    BY DEF BindingInv, Tables
  <2>2. Carries(a.stamp, a.token, a.hash)
    <3>1. r \in 1..Len(assets)
      BY DEF BindingInv, Tables
    <3>2. QED
      BY <2>1, <3>1 DEF BindingInv, RowsBacked
  <2>3. a.stamp \in Deployment
    BY <2>1, BindingAssumption DEF Asset, Deployment, BindingAssumption
  <2>4. PICK S \in Seq(Token) : S = tokens[a.stamp]
    BY <2>3 DEF BindingInv, Tables
  <2>5. a.token \in DOMAIN S
    BY <2>2, <2>4 DEF Carries
  <2>6. S[a.token].anchors \in Seq(Hash)
    <3>1. S[a.token] \in Token
      BY <2>5
    <3>2. QED
      BY <3>1 DEF Token
  <2>7. a.hash \in Range(S[a.token].anchors)
    <3>1. PICK list \in Seq(Hash) : list = S[a.token].anchors
      BY <2>6
    <3>2. \E i \in 1..Len(list) : list[i] = a.hash
      BY <2>2, <2>4, <3>1 DEF Carries
    <3>3. QED
      BY <3>1, <3>2 DEF Range
  <2>8. QED
    BY <2>1, <2>2, <2>4, <2>5, <2>7 DEF Carries
<1>2. QED
  BY <1>1, BindingInvariant, PTL

(* classifyClaim and the release loop of confirm clear every stale claim:  *)
(* a confirm nobody interferes with is never refused by the unique index.  *)
THEOREM StaleClaimsNeverWedge == BindingSpec => []NeverWedged
<1>1. BindingInv => NeverWedged
  <2> SUFFICES ASSUME BindingInv, NEW q \in Request \cap alone, req[q].pc = "bind"
               PROVE  /\ assets[req[q].row].token = 0
                      /\ fits(req[q].row, [assets[req[q].row] EXCEPT !.token = req[q].token,
                                                                     !.stamp = deployment])
    BY DEF NeverWedged
  <2>1. PICK v \in Req : v = req[q] /\ v.pc = "bind" /\ RequestBacked(v) /\ RequestAlone(v)
    BY DEF BindingInv, Tables
  <2>2. v.row \in 1..Len(assets) /\ assets[v.row] \in Asset
    BY <2>1 DEF RequestBacked, BindingInv, Tables
  <2>3. PICK a : a = [assets[v.row] EXCEPT !.token = v.token, !.stamp = deployment]
    OBVIOUS
  <2>4. a.token = v.token /\ a.stamp = deployment
    BY <2>2, <2>3 DEF Asset
  <2>5. \A s \in 1..Len(assets) \ {v.row} : ~(assets[s].token = v.token /\ assets[s].stamp = deployment)
    BY <2>1 DEF RequestBacked, RequestAlone, elsewhere
  <2>6. fits(v.row, a)
    BY <2>4, <2>5 DEF fits, BindingInv, Tables
  <2>7. QED
    BY <2>1, <2>3, <2>6 DEF RequestAlone
<1>2. QED
  BY <1>1, BindingInvariant, PTL

(* GET /api/assets lists a token with the one row bound to it on this      *)
(* deployment, and as intact while its anchor has not changed.             *)
THEOREM ListedRecordsAreIntact == BindingSpec => []ListedRecordIntact
<1>1. BindingInv => ListedRecordIntact
  <2> SUFFICES ASSUME BindingInv, NEW r \in DOMAIN assets,
                      assets[r].token # 0, assets[r].stamp = deployment
               PROVE  /\ byToken(assets[r].token) = {r}
                      /\ Len(tokens[deployment][assets[r].token].anchors) = 1
                           => Confirms(tokens[deployment], assets[r], assets[r].token)
    BY DEF ListedRecordIntact
  <2>1. PICK t : t = assets[r].token
    OBVIOUS
  <2>2. deployment # 0 /\ DOMAIN assets = 1..Len(assets)
    BY BindingAssumption DEF BindingInv, Tables, Deployment, BindingAssumption
  <2>3. PICK held : held = {s \in DOMAIN assets : assets[s].token = t /\ ~elsewhere(assets[s])}
    OBVIOUS
  <2>4. r \in held /\ assets[r].stamp # 0
    BY <2>1, <2>2, <2>3 DEF elsewhere
  <2>5. \A s \in held : assets[s].stamp # 0 => s = r
    BY <2>1, <2>2, <2>3 DEF elsewhere, BindingInv, RowsBacked
  <2>6. {s \in held : assets[s].stamp # 0} = {r}
    BY <2>4, <2>5
  <2>7. byToken(t) = {r}
    BY <2>3, <2>4, <2>6 DEF byToken
  <2>8. Carries(deployment, t, assets[r].hash)
    BY <2>1, <2>2 DEF BindingInv, RowsBacked
  <2>9. ASSUME Len(tokens[deployment][t].anchors) = 1 PROVE Confirms(tokens[deployment], assets[r], t)
    BY <2>8, <2>9 DEF Carries, Confirms, Last
  <2>10. QED
    BY <2>1, <2>7, <2>9
<1>2. QED
  BY <1>1, BindingInvariant, PTL

(* Neither a confirm nor a script that runs alone takes a token from the   *)
(* row whose record the chain has confirmed from the mint on.              *)
THEOREM VerifiedBindingsStay == BindingSpec => VerifiedBindingKept
<1> DEFINE kept ==
      \A r \in DOMAIN assets :
        LET a == assets[r] IN
        /\ a.token # 0 /\ ~elsewhere(a)
        /\ Confirms(tokens[deployment], a, a.token)
        /\ Len(tokens[deployment][a.token].anchors) = 1
        /\ repair.pc = "write" => "script" \in alone
        => assets'[r].token = a.token
<1>1. ASSUME BindingInv, BindingNext PROVE kept
  <2>1. SUFFICES ASSUME NEW r \in DOMAIN assets, NEW a \in Asset, a = assets[r],
                        a.token # 0, ~elsewhere(a), Confirms(tokens[deployment], a, a.token),
                        Len(tokens[deployment][a.token].anchors) = 1,
                        repair.pc = "write" => "script" \in alone
                 PROVE  assets'[r].token = a.token
    BY <1>1 DEF BindingInv, Tables
  <2>2. DOMAIN assets = 1..Len(assets) /\ assets \in Seq(Asset)
    BY <1>1 DEF BindingInv, Tables
  <2>3. CASE assets' = assets
    BY <2>1, <2>3
  <2>4. ASSUME NEW h \in Hash, draft(h) PROVE assets'[r] = assets[r]
    BY <2>2, <2>4 DEF draft
  <2>5. ASSUME NEW s \in 1..Len(assets), NEW b, NEW who, put(s, b, who),
               b.token = assets[s].token \/ s # r
        PROVE  assets'[r].token = a.token
    BY <2>1, <2>2, <2>5 DEF put
  <2>6. ASSUME NEW q \in Request, NEW s \in req[q].claims, req[q].pc = "release",
               letGo(q, s), ~rival(q, s)
        PROVE  assets'[r].token = a.token
    <3>1. PICK v \in Req : v = req[q] /\ RequestBacked(v)
      BY <1>1 DEF BindingInv, Tables
    <3>2. s \in 1..Len(assets) /\ v.row \in 1..Len(assets) /\ assets[s] \in Asset
      BY <1>1, <2>2, <2>6, <3>1 DEF RequestBacked
    <3>3. CASE s = r /\ a.token = v.token
      <4>1. Carries(deployment, a.token, assets[v.row].hash)
        BY <2>6, <3>1, <3>3 DEF RequestBacked
      <4>2. assets[v.row].hash = a.hash
        BY <2>1, <4>1 DEF Carries, Confirms, Last
      <4>3. QED
        BY <2>1, <2>6, <3>1, <3>3, <4>2 DEF rival
    <3>4. CASE ~(s = r /\ a.token = v.token)
      <4>1. PICK b : b = [assets[s] EXCEPT !.token = IF @ = req[q].token THEN 0 ELSE @]
        OBVIOUS
      <4>2. b.token = assets[s].token \/ s # r
        BY <2>1, <3>1, <3>2, <3>4, <4>1 DEF Asset
      <4>3. QED
        BY <2>5, <2>6, <3>2, <4>1, <4>2 DEF letGo
    <3>5. QED
      BY <3>3, <3>4
  <2>7. ASSUME NEW q \in Request, bindToken(q) PROVE assets'[r].token = a.token
    <3>1. PICK s, b : /\ s = req[q].row
                      /\ b = [assets[s] EXCEPT !.token = req[q].token, !.stamp = deployment]
      OBVIOUS
    <3>2. (assets[s].token = 0 /\ put(s, b, q)) \/ assets' = assets
      BY <2>7, <3>1 DEF bindToken, quiet
    <3>3. s \in 1..Len(assets)
      BY <1>1, <2>7, <3>1 DEF BindingInv, RequestBacked, bindToken
    <3>4. QED
      BY <2>1, <2>3, <2>5, <3>2, <3>3
  <2>8. CASE write
    <3>1. ScriptAlone /\ RepairBacked
      BY <1>1, <2>1, <2>8 DEF BindingInv, write
    <3>2. ASSUME NEW s \in repair.release,
                 apply(s, [assets[s] EXCEPT !.token = 0], [repair EXCEPT !.release = @ \ {s}])
          PROVE  assets'[r].token = a.token
      <4>1. s # r /\ s \in 1..Len(assets)
        BY <2>1, <3>1 DEF ScriptAlone, RepairBacked
      <4>2. QED
        BY <2>3, <2>5, <3>2, <4>1 DEF apply, quiet
    <3>3. ASSUME NEW s \in repair.stamp,
                 apply(s, [assets[s] EXCEPT !.stamp = deployment], [repair EXCEPT !.stamp = @ \ {s}])
          PROVE  assets'[r].token = a.token
      <4>1. s \in 1..Len(assets) /\ assets[s] \in Asset
        BY <2>2, <3>1 DEF RepairBacked
      <4>2. [assets[s] EXCEPT !.stamp = deployment].token = assets[s].token
        BY <4>1 DEF Asset
      <4>3. QED
        BY <2>3, <2>5, <3>3, <4>1, <4>2 DEF apply, quiet
    <3>4. ASSUME NEW p \in repair.bind, repair.release = {},
                 apply(p[1], [assets[p[1]] EXCEPT !.token = p[2], !.stamp = deployment],
                       [repair EXCEPT !.bind = @ \ {p}])
          PROVE  assets'[r].token = a.token
      <4>1. p[1] # r /\ p[1] \in 1..Len(assets)
        BY <2>1, <3>1, <3>4 DEF ScriptAlone, RepairBacked
      <4>2. QED
        BY <2>3, <2>5, <3>4, <4>1 DEF apply, quiet
    <3>5. QED
      BY <2>3, <2>8, <3>2, <3>3, <3>4 DEF write, quiet
  <2>9. ASSUME NEW q \in Request, Confirm(q) PROVE assets'[r].token = a.token
    <3>1. CASE releaseClaim(q)
      BY <2>3, <2>6, <3>1 DEF releaseClaim, quiet
    <3>2. CASE verify(q) \/ readClaims(q) \/ crash(q)
      BY <2>3, <3>2 DEF verify, readClaims, crash, quiet
    <3>3. QED
      BY <2>7, <2>9, <3>1, <3>2 DEF Confirm
  <2>10. QED
    BY <1>1, <2>1, <2>3, <2>4, <2>8, <2>9
       DEF BindingNext, mintAsset, updateAssetRecord, redeploy, load, readTokens, readRows, stop, quiet
<1>2. BindingInv /\ [BindingNext]_vars => [kept]_vars
  BY <1>1
<1> HIDE DEF kept
<1>3. BindingSpec => [][kept]_vars
  BY <1>2, BindingInvariant, PTL DEF BindingSpec
<1>4. QED
  BY <1>3 DEF kept, VerifiedBindingKept

(* A run of the script that nobody disturbs is not refused by the unique   *)
(* index, and a second one right after it finds nothing to do: the writes  *)
(* that are left are at every point the plan that would be made then.      *)
THEOREM RepairsSettle == BindingSpec => []RepairSettles
<1>1. BindingInit => PlanKept /\ Apart /\ Unrefused
  BY ApartInit DEF BindingInit, PlanKept, NoRepair, Unrefused
<1>2. BindingInv /\ PlanKept /\ Apart /\ Unrefused /\ [BindingNext]_vars
        => PlanKept' /\ Apart' /\ Unrefused'
  BY PlanStep, ApartStep, UnrefusedStep
<1>3. BindingInv /\ PlanKept /\ Unrefused => RepairSettles
  <2> SUFFICES ASSUME BindingInv, PlanKept, repair.pc = "write", finished, "script" \in alone
               PROVE  plan(tokens[deployment], assets) = repair
    BY DEF RepairSettles, Unrefused
  <2>1. PICK P \in Repair : P = repair
    BY DEF BindingInv, Tables
  <2>2. plan(tokens[deployment], assets)
          = [pc |-> P.pc, seen |-> P.seen, release |-> P.release, stamp |-> P.stamp, bind |-> P.bind]
    BY <2>1, PlanParts DEF PlanKept
  <2> QED BY <2>1, <2>2 DEF Repair
<1> QED BY <1>1, <1>2, <1>3, BindingInvariant, PTL DEF BindingSpec
=================================================================================
