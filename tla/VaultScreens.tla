------------------------------- MODULE VaultScreens -----------------------------
(***************************************************************************)
(* The asset vault, the certificate page and the mint wizard: what they    *)
(* show of the certificates of an organization and what they offer. As in  *)
(* Screens, every definition is a function of the chain. Which database    *)
(* row a certificate is shown with is the subject of AssetBinding; here a  *)
(* row is the hash it records, or none.                                    *)
(***************************************************************************)
EXTENDS AssetNFT, Screens

(* A row records the hash of an asset, another hash, or is missing.        *)
NoRow == NoHash
Row   == Hash \cup {NoRow, "altered"}

(* A certificate as the server lists it; readAsset answers null for a      *)
(* token without an organization.                                          *)
AssetSummary(t, row) ==
  [tokenId |-> t, owner |-> ownerOf[t], assignedTo |-> assets[t].assignedTo,
   active |-> assets[t].active,
   recordIntact |-> IF row = NoRow THEN "unknown"
                    ELSE IF row = assets[t].assetHash THEN "intact" ELSE "tampered"]

readAssetsOfOrganization(o) == {orgAssets[o][i] : i \in DOMAIN orgAssets[o]}

listAssets(o, rows) ==
  {AssetSummary(t, rows[t]) : t \in {u \in readAssetsOfOrganization(o) : assetExists(u)}}

(* The status filter of the vault.                                         *)
AssetVault(list, status) ==
  {a \in list : /\ status = "active" => a.active
                /\ status = "revoked" => ~a.active
                /\ status = "tampered" => a.recordIntact = "tampered"}

(* The alert above the list, whose button selects that filter.             *)
tamperedCount(list) == Cardinality({a \in list : a.recordIntact = "tampered"})

tamperedAlert(list) ==
  [shown |-> tamperedCount(list) > 0, showOnlyThose |-> AssetVault(list, "tampered")]

StatusBadge(a) == IF a.active THEN "Active" ELSE "Revoked"

CertificateCard(a) ==
  [heldBy |-> a.assignedTo, status |-> StatusBadge(a), integrity |-> a.recordIntact,
   border |-> IF a.recordIntact = "tampered" THEN "danger"
              ELSE IF a.active THEN "none" ELSE "warn"]

AssetTable(a) == [heldBy |-> a.assignedTo, status |-> StatusBadge(a), integrity |-> a.recordIntact]

(* The certificate page finds its token in the same listing, and else says *)
(* that it is not held by this organization.                               *)
AssetDetail(o, t, rows) ==
  LET found == {a \in listAssets(o, rows) : a.tokenId = t} IN
  IF found = {} THEN [panel |-> "none here"]
  ELSE LET a == CHOOSE x \in found : TRUE IN
       [panel |-> "certificate", holder |-> a.assignedTo, status |-> StatusBadge(a),
        integrity |-> a.recordIntact, differNote |-> a.owner # a.assignedTo]

(* Its integrity panel says the same thing three times: a badge, a line    *)
(* about the record in the store, and an alert.                            *)
IntegrityPanel(a, row) ==
  [badge |-> CASE a.recordIntact = "unknown" -> "neutral"
               [] a.recordIntact = "intact" -> "verified"
               [] a.recordIntact = "tampered" -> "tampered",
   record |-> IF row = NoRow THEN "none"
              ELSE IF a.recordIntact = "intact" THEN "re-hashes" ELSE "no longer",
   alert |-> a.recordIntact = "tampered"]

(* What a plain user sees as assigned to them.                             *)
UserOverview(w, list) == {a \in list : a.assignedTo = w}

SimpleAssetRow(a) == IF a.active THEN "Yours" ELSE "Withdrawn"

(* Who is offered a mint, and the members it may be assigned to.           *)
canMint(me) == "MINT_ASSETS" \in me.permissions

MintPicker_all(me) == \* mutant: lapsed and revoked members are offered too
  {row.wallet : row \in MembersScreen(me, me.activeOrgId).members}

MintPicker(me) ==
  {row.wallet : row \in {m \in MembersScreen(me, me.activeOrgId).members : m.role # NONE}}

MintWizard(me, to) == gate(me) = "none" /\ canMint(me) /\ to \in MintPicker(me)

-----------------------------------------------------------------------------
(* Correctness.                                                            *)

(* What the screens say of certificates is what the contract confirms.     *)
(*   A third party's question whether a wallet holds a certificate is      *)
(* answered yes exactly when the organization lists it as active and as    *)
(* the wallet's own, the roster shows the wallet with a role and there is  *)
(* no suspension banner; the card, the table and the page of a certificate *)
(* say the same, the page never has two holders to explain, and what it    *)
(* says of the record's integrity, and the alert above the list, is what   *)
(* verifyAssetHash answers for the hash the row records.                   *)
(*   A mint that the wizard offers is accepted: neither the sender nor the *)
(* chosen holder is refused. (What is left is a paused contract, which no  *)
(* screen reads.)                                                          *)
shownHeld(o, t, w, list) ==
  /\ \E a \in UserOverview(w, AssetVault(list, "active")) :
       a.tokenId = t /\ SimpleAssetRow(a) = "Yours"
  /\ \E row \in MembersScreen(session(w), o).members : row.wallet = w /\ row.role # NONE
  /\ ~SuspendedNotice(o)

integrityAsShown(list, rows) ==
  /\ \A a \in list :
       LET says == IntegrityPanel(a, rows[a.tokenId]) IN
       /\ says.badge = "verified" <=> verifyAssetHash(a.tokenId, rows[a.tokenId])
       /\ says.badge = "neutral" <=> says.record = "none"
       /\ says.badge = "verified" <=> says.record = "re-hashes"
       /\ says.alert <=> a \in tamperedAlert(list).showOnlyThose
  /\ tamperedAlert(list).shown <=> tamperedAlert(list).showOnlyThose # {}

sameEverywhere(o, a, rows) ==
  LET page == AssetDetail(o, a.tokenId, rows) IN
  /\ \A c \in {"heldBy", "status", "integrity"} : CertificateCard(a)[c] = AssetTable(a)[c]
  /\ page.holder = AssetTable(a).heldBy /\ ~page.differNote
  /\ page.status = AssetTable(a).status /\ page.integrity = AssetTable(a).integrity

ownershipAsShown(rows) ==
  \A o \in 1..organizationCount :
    LET list == listAssets(o, rows) IN
    /\ \A a \in list : sameEverywhere(o, a, rows)
    /\ integrityAsShown(list, rows)
    /\ \A t \in minted, w \in Wallet :
         assets[t].orgId = o => (verifyOwnership(t, w) <=> shownHeld(o, t, w, list))

mintsAccepted(w, o) ==
  \A to \in Wallet : MintWizard(session(w), to) => \E h \in Hash : ENABLED mintAsset(w, o, to, h)

VaultConfirmed ==
  /\ \A row \in Row : ownershipAsShown([t \in TokenId |-> row])
  /\ ~paused /\ nextTokenId <= MaxTokens =>
       \A w \in Wallet, o \in OrgId : mayRun(w) /\ session(w).activeOrgId = o => mintsAccepted(w, o)
=============================================================================
