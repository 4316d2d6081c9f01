-------------------------------- MODULE AssetNFT --------------------------------
(***************************************************************************)
(* The contract AssetNFT on top of OrgAccessManager: certificates that are *)
(* minted to members, moved only by the organization, revoked to the root  *)
(* admin's custody and restored.                                           *)
(*                                                                         *)
(* transferFrom and safeTransferFrom reach _update with                    *)
(* _orgControlledTransfer unset and always revert, so a holder has no      *)
(* action here. The flag is set and cleared inside one call that makes no  *)
(* external call, so it is FALSE in every state.                           *)
(*                                                                         *)
(* _safeMint calls the recipient back when it is a contract, after the     *)
(* token exists and before its URI is set. "minting" is the stack of such  *)
(* unfinished calls: while it is not empty only the recipient of the       *)
(* innermost one runs, in the same transaction and at the same time.       *)
(***************************************************************************)
EXTENDS OrgAccessManager

CONSTANTS
  MaxTokens,      \* bound: certificates ever minted
  MaxTransfers,   \* bound: movements of one certificate
  ContractWallet, \* wallets with code, which _safeMint calls back
  NftOwnerArgs    \* bound: accounts AssetNFT's ownership may move to

ASSUME AssetBounds == MaxTokens \in Nat /\ MaxTransfers \in Nat
ASSUME ContractWalletAssumption == ContractWallet \subseteq Wallet
ASSUME NftOwnerArgsBound == NftOwnerArgs \subseteq Address

TokenId == 1..MaxTokens

VARIABLES
  assets,      \* _assets
  nextTokenId, \* _nextTokenId
  orgAssets,   \* _orgAssets
  ownerOf,     \* ERC721 _owners, Zero before the mint
  tokenURI,    \* ERC721URIStorage: the record whose public metadata is served
  paused,      \* Pausable
  nftOwner,    \* AssetNFT's own Ownable owner()
  minting      \* the mintAsset calls that wait for onERC721Received

assetVars == <<assets, nextTokenId, orgAssets, ownerOf, tokenURI, paused, nftOwner, minting>>
vars      == <<chainVars, assetVars>>

Asset == [orgId : OrgId, assetHash : Bytes32, assignedTo : Address, active : BOOLEAN,
          transferCount : Nat]

BlankAsset == [orgId |-> 0, assetHash |-> NoHash, assignedTo |-> Zero, active |-> FALSE,
               transferCount |-> 0]

AssetTypeOK ==
  /\ AccessTypeOK
  /\ assets \in [TokenId -> Asset]
  /\ nextTokenId \in 1..(MaxTokens + 1)
  /\ orgAssets \in [OrgId -> Seq(TokenId)]
  /\ ownerOf \in [TokenId -> Address]
  /\ tokenURI \in [TokenId -> Bytes32]
  /\ paused \in BOOLEAN
  /\ nftOwner \in Address
  /\ minting \in Seq([token : TokenId, uri : Hash, to : ContractWallet])

AssetInit ==
  /\ AccessInit
  /\ assets = [t \in TokenId |-> BlankAsset]
  /\ nextTokenId = 1
  /\ orgAssets = [o \in OrgId |-> <<>>]
  /\ ownerOf = [t \in TokenId |-> Zero]
  /\ tokenURI = [t \in TokenId |-> NoHash]
  /\ paused = FALSE
  /\ nftOwner = Deployer
  /\ minting = <<>>

-----------------------------------------------------------------------------
(* Views and requirements.                                                 *)

assetExists(t) == assets[t].orgId # 0

isOrgMember(o, a) == effectiveRole(o, a) # NONE

verifyOwnership(t, a) ==
  /\ assetExists(t) /\ assets[t].active
  /\ ownerOf[t] = a
  /\ isActive(a)
  /\ isOrganizationActive(assets[t].orgId)
  /\ isOrgMember(assets[t].orgId, a)

verifyAssetHash(t, hash) == assetExists(t) /\ assets[t].assetHash = hash

minted == {t \in TokenId : t < nextTokenId}

-----------------------------------------------------------------------------
(* Minting. For a wallet without code the call ends in the same step; a    *)
(* contract is called back first and finishMint is the rest of the call.   *)

mintAsset(s, o, to, record) ==
  /\ ~paused
  /\ hasPermission(o, s, "MINT_ASSETS")
  /\ to # Zero /\ record # NoHash
  /\ isOrgMember(o, to)
  /\ nextTokenId <= MaxTokens
  /\ nextTokenId' = nextTokenId + 1
  /\ assets' = [assets EXCEPT ![nextTokenId] =
                  [orgId |-> o, assetHash |-> record, assignedTo |-> to, active |-> TRUE,
                   transferCount |-> 0]]
  /\ orgAssets' = [orgAssets EXCEPT ![o] = Append(@, nextTokenId)]
  /\ ownerOf' = [ownerOf EXCEPT ![nextTokenId] = to]
  /\ IF to \in ContractWallet
     THEN /\ minting' = Append(minting, [token |-> nextTokenId, uri |-> record, to |-> to])
          /\ UNCHANGED tokenURI
     ELSE /\ tokenURI' = [tokenURI EXCEPT ![nextTokenId] = record]
          /\ UNCHANGED minting
  /\ UNCHANGED <<chainVars, paused, nftOwner>>

finishMint ==
  /\ minting # <<>>
  /\ LET call == minting[Len(minting)] IN
       /\ tokenURI' = [tokenURI EXCEPT ![call.token] = call.uri]
       /\ minting' = SubSeq(minting, 1, Len(minting) - 1)
  /\ UNCHANGED <<chainVars, assets, nextTokenId, orgAssets, ownerOf, paused, nftOwner>>

-----------------------------------------------------------------------------
(* Movement. "hand" gives a certificate to a wallet and counts the         *)
(* movement when the wallet does not hold it already.                      *)

hand_stillAssigned(t, to, active) == \* mutant: assignedTo is set on reassignment only
  /\ assets' = [assets EXCEPT ![t].assignedTo = IF active THEN to ELSE @,
                              ![t].active = active,
                              ![t].transferCount = IF ownerOf[t] = to THEN @ ELSE @ + 1]
  /\ ownerOf' = [ownerOf EXCEPT ![t] = to]

hand(t, to, active) ==
  /\ assets[t].transferCount < MaxTransfers
  /\ assets' = [assets EXCEPT ![t].assignedTo = to,
                              ![t].active = active,
                              ![t].transferCount = IF ownerOf[t] = to THEN @ ELSE @ + 1]
  /\ ownerOf' = [ownerOf EXCEPT ![t] = to]

reassignAsset(s, t, to) ==
  /\ ~paused
  /\ assetExists(t) /\ assets[t].active
  /\ to # Zero
  /\ hasPermission(assets[t].orgId, s, "TRANSFER_ASSETS")
  /\ isOrgMember(assets[t].orgId, to)
  /\ ownerOf[t] # to
  /\ hand(t, to, TRUE)
  /\ UNCHANGED <<chainVars, nextTokenId, orgAssets, tokenURI, paused, nftOwner, minting>>

revokeAsset_fromMember(s, t) == \* mutant: only a member's certificate can be revoked
  /\ ~paused
  /\ assetExists(t) /\ assets[t].active
  /\ hasPermission(assets[t].orgId, s, "TRANSFER_ASSETS")
  /\ isOrgMember(assets[t].orgId, ownerOf[t])
  /\ hand(t, orgRootAdmin(assets[t].orgId), FALSE)
  /\ UNCHANGED <<chainVars, nextTokenId, orgAssets, tokenURI, paused, nftOwner, minting>>

revokeAsset(s, t) ==
  /\ ~paused
  /\ assetExists(t) /\ assets[t].active
  /\ hasPermission(assets[t].orgId, s, "TRANSFER_ASSETS")
  /\ hand(t, orgRootAdmin(assets[t].orgId), FALSE)
  /\ UNCHANGED <<chainVars, nextTokenId, orgAssets, tokenURI, paused, nftOwner, minting>>

restoreAsset_anyone(s, t, to) == \* mutant: the new holder need not be a member
  /\ ~paused
  /\ assetExists(t) /\ ~assets[t].active
  /\ to # Zero
  /\ hasPermission(assets[t].orgId, s, "TRANSFER_ASSETS")
  /\ hand(t, to, TRUE)
  /\ UNCHANGED <<chainVars, nextTokenId, orgAssets, tokenURI, paused, nftOwner, minting>>

restoreAsset(s, t, to) ==
  /\ ~paused
  /\ assetExists(t) /\ ~assets[t].active
  /\ to # Zero
  /\ hasPermission(assets[t].orgId, s, "TRANSFER_ASSETS")
  /\ isOrgMember(assets[t].orgId, to)
  /\ hand(t, to, TRUE)
  /\ UNCHANGED <<chainVars, nextTokenId, orgAssets, tokenURI, paused, nftOwner, minting>>

updateAssetRecord(s, t, record) ==
  /\ ~paused
  /\ assetExists(t)
  /\ record # NoHash
  /\ hasPermission(assets[t].orgId, s, "MINT_ASSETS")
  /\ assets' = [assets EXCEPT ![t].assetHash = record]
  /\ tokenURI' = [tokenURI EXCEPT ![t] = record]
  /\ UNCHANGED <<chainVars, nextTokenId, orgAssets, ownerOf, paused, nftOwner, minting>>

setPaused(s, value) ==
  /\ s = nftOwner
  /\ paused # value
  /\ paused' = value
  /\ UNCHANGED <<chainVars, assets, nextTokenId, orgAssets, ownerOf, tokenURI, nftOwner, minting>>

moveNftOwnership(s, newOwner) ==
  /\ s = nftOwner
  /\ nftOwner' = newOwner
  /\ UNCHANGED <<chainVars, assets, nextTokenId, orgAssets, ownerOf, tokenURI, paused, minting>>

-----------------------------------------------------------------------------

AssetTx(s) ==
  \/ \E o \in OrgId, to \in Address, r \in Bytes32 : mintAsset(s, o, to, r)
  \/ \E t \in TokenId, to \in Address : reassignAsset(s, t, to)
  \/ \E t \in TokenId : revokeAsset(s, t)
  \/ \E t \in TokenId, to \in Address : restoreAsset(s, t, to)
  \/ \E t \in TokenId, r \in Bytes32 : updateAssetRecord(s, t, r)
  \/ \E value \in BOOLEAN : setPaused(s, value)
  \/ \E a \in NftOwnerArgs : moveNftOwnership(s, a)

(* Who may run: anyone between transactions, inside a mint only the wallet *)
(* that is being called back.                                              *)
mayRun(s) == IF minting = <<>> THEN TRUE ELSE s = minting[Len(minting)].to

Tx(s) ==
  /\ mayRun(s)
  /\ \/ AssetTx(s)
     \/ AccessTx(s) /\ UNCHANGED assetVars

Next ==
  \/ \E s \in Wallet : Tx(s)
  \/ finishMint
  \/ minting = <<>> /\ Tick /\ UNCHANGED assetVars

Spec == AssetInit /\ [][Next]_vars

-----------------------------------------------------------------------------
(* Safety.                                                                 *)

(* The contract keeps custody twice, in ERC-721's owner and in the asset's *)
(* assignedTo. They agree in every state, those a recipient's callback     *)
(* sees included, and a token that was not minted has neither. And         *)
(* assetsOfOrganization lists exactly the organization's certificates,     *)
(* each once, in whatever order mints nest in callbacks.                   *)
CustodyAgrees ==
  /\ \A t \in TokenId :
       /\ ownerOf[t] = assets[t].assignedTo
       /\ t \in minted <=> ownerOf[t] # Zero
       /\ t \in minted <=> assetExists(t)
  /\ \A o \in OrgId, t \in TokenId :
       Cardinality({i \in 1..Len(orgAssets[o]) : orgAssets[o][i] = t})
         = IF t \in minted /\ assets[t].orgId = o THEN 1 ELSE 0

(* A certificate changes hands only in a transaction of somebody who may   *)
(* transfer assets in its organization, while the contract is not paused;  *)
(* an active one lands with a member of that organization, a revoked one   *)
(* with its root admin. Holding it gives no right to move it.              *)
mayMove(s, t) == ~paused /\ hasPermission(assets[t].orgId, s, "TRANSFER_ASSETS")

lawfulHolder(t) ==
  IF assets'[t].active THEN isOrgMember(assets[t].orgId, ownerOf'[t])
                       ELSE ownerOf'[t] = orgRootAdmin(assets[t].orgId)

CustodyMovedByOrganization ==
  [][\A t \in minted :
       ownerOf'[t] # ownerOf[t] =>
         /\ lawfulHolder(t)
         /\ \A s \in Wallet : ~mayMove(s, t) => ~Tx(s)
    ]_vars

(* Custody can be recovered from any holder. Whoever left, was revoked,    *)
(* lapsed or was removed, an active root admin who still has the transfer  *)
(* permission can pull an active certificate back and put a revoked one    *)
(* into its own hands.                                                     *)
CustodyRecoverable ==
  minting = <<>> =>
    \A t \in minted :
      LET o == assets[t].orgId
          root == orgRootAdmin(o)
      IN  mayMove(root, t) /\ assets[t].transferCount < MaxTransfers =>
            IF assets[t].active THEN ENABLED revokeAsset(root, t)
                                ELSE ENABLED restoreAsset(root, t, root)
=============================================================================
