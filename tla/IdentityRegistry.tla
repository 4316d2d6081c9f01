---------------------------- MODULE IdentityRegistry ----------------------------
(***************************************************************************)
(* The contract IdentityRegistry: wallets with an identity that can be     *)
(* revoked and reactivated, the registrars that may act for others, and    *)
(* the organizations with their transferable root-admin seat.              *)
(*                                                                         *)
(* One action per external function; its first parameter is msg.sender.    *)
(* A call that reverts changes nothing, so a revert is a disabled action.  *)
(* A hash stands for the off-chain record it is the keccak256 of.          *)
(***************************************************************************)
EXTENDS Naturals, FiniteSets

CONSTANTS
  Wallet,           \* accounts that send transactions
  Zero,             \* address(0)
  Deployer,         \* initialOwner of the constructors
  Hash,             \* non-zero hashes of off-chain records
  NoHash,           \* bytes32(0)
  MaxOrganizations, \* bound: organizations ever created
  RegistrarArgs,    \* bound: accounts setRegistrar is tried on
  OwnerArgs         \* bound: accounts the Ownable ownership may move to

ASSUME WalletAssumption == Zero \notin Wallet /\ Deployer \in Wallet
ASSUME HashAssumption   == NoHash \notin Hash
ASSUME OrgBound         == MaxOrganizations \in Nat
ASSUME ArgBounds        == RegistrarArgs \subseteq Wallet /\ OwnerArgs \subseteq Wallet \cup {Zero}

Address == Wallet \cup {Zero}
Bytes32 == Hash \cup {NoHash}
OrgId   == 0..MaxOrganizations

VARIABLES
  identities,        \* _identities
  isRegistrar,       \* isRegistrar
  organizations,     \* _organizations
  organizationCount, \* organizationCount
  owner              \* Ownable's owner()

registryVars == <<identities, isRegistrar, organizations, organizationCount, owner>>

Identity     == [identityHash : Bytes32, exists : BOOLEAN, active : BOOLEAN]
Organization == [metadataHash : Bytes32, rootAdmin : Address, active : BOOLEAN]

BlankIdentity     == [identityHash |-> NoHash, exists |-> FALSE, active |-> FALSE]
BlankOrganization == [metadataHash |-> NoHash, rootAdmin |-> Zero, active |-> FALSE]

RegistryTypeOK ==
  /\ identities \in [Address -> Identity]
  /\ isRegistrar \in [Address -> BOOLEAN]
  /\ organizations \in [OrgId -> Organization]
  /\ organizationCount \in OrgId
  /\ owner \in Address

RegistryInit ==
  /\ identities = [a \in Address |-> BlankIdentity]
  /\ isRegistrar = [a \in Address |-> a = Deployer]
  /\ organizations = [o \in OrgId |-> BlankOrganization]
  /\ organizationCount = 0
  /\ owner = Deployer

-----------------------------------------------------------------------------
(* Views.                                                                  *)

isActive(a) == identities[a].exists /\ identities[a].active

organizationExists(o) == o # 0 /\ o <= organizationCount

isOrganizationActive(o) == organizationExists(o) /\ organizations[o].active

orgRootAdmin(o) == organizations[o].rootAdmin

-----------------------------------------------------------------------------
(* Registrars and the identity life cycle.                                 *)

setRegistrar(s, registrar, allowed) ==
  /\ s = owner
  /\ registrar # Zero
  /\ isRegistrar' = [isRegistrar EXCEPT ![registrar] = allowed]
  /\ UNCHANGED <<identities, organizations, organizationCount, owner>>

register(a, hash) ==
  /\ a # Zero /\ hash # NoHash
  /\ ~identities[a].exists
  /\ identities' = [identities EXCEPT ![a] =
                      [identityHash |-> hash, exists |-> TRUE, active |-> TRUE]]
  /\ UNCHANGED <<isRegistrar, organizations, organizationCount, owner>>

registerIdentity(s, hash) == register(s, hash)

registerIdentityFor(s, a, hash) == isRegistrar[s] /\ register(a, hash)

updateIdentityHash(s, hash) ==
  /\ hash # NoHash
  /\ isActive(s)
  /\ identities' = [identities EXCEPT ![s].identityHash = hash]
  /\ UNCHANGED <<isRegistrar, organizations, organizationCount, owner>>

revokeIdentity(s, a) ==
  /\ s = a \/ isRegistrar[s]
  /\ isActive(a)
  /\ identities' = [identities EXCEPT ![a].active = FALSE]
  /\ UNCHANGED <<isRegistrar, organizations, organizationCount, owner>>

reactivateIdentity(s, a) ==
  /\ isRegistrar[s]
  /\ identities[a].exists /\ ~identities[a].active
  /\ identities' = [identities EXCEPT ![a].active = TRUE]
  /\ UNCHANGED <<isRegistrar, organizations, organizationCount, owner>>

-----------------------------------------------------------------------------
(* Organizations.                                                          *)

createOrganization(s, hash) ==
  /\ hash # NoHash
  /\ isActive(s)
  /\ organizationCount < MaxOrganizations
  /\ organizationCount' = organizationCount + 1
  /\ organizations' = [organizations EXCEPT ![organizationCount + 1] =
                         [metadataHash |-> hash, rootAdmin |-> s, active |-> TRUE]]
  /\ UNCHANGED <<identities, isRegistrar, owner>>

updateOrganizationMetadata(s, o, hash) ==
  /\ hash # NoHash
  /\ organizationExists(o)
  /\ s = orgRootAdmin(o)
  /\ organizations' = [organizations EXCEPT ![o].metadataHash = hash]
  /\ UNCHANGED <<identities, isRegistrar, organizationCount, owner>>

setOrganizationActive(s, o, active) ==
  /\ organizationExists(o)
  /\ s \in {orgRootAdmin(o), owner}
  /\ organizations' = [organizations EXCEPT ![o].active = active]
  /\ UNCHANGED <<identities, isRegistrar, organizationCount, owner>>

transferOrgRootAdmin(s, o, newAdmin) ==
  /\ newAdmin # Zero
  /\ organizationExists(o)
  /\ s = orgRootAdmin(o)
  /\ isActive(newAdmin)
  /\ organizations' = [organizations EXCEPT ![o].rootAdmin = newAdmin]
  /\ UNCHANGED <<identities, isRegistrar, organizationCount, owner>>

(* OpenZeppelin's Ownable: transferOwnership refuses the zero address and  *)
(* renounceOwnership sets it, so together they reach every address.        *)
moveOwnership(s, newOwner) ==
  /\ s = owner
  /\ owner' = newOwner
  /\ UNCHANGED <<identities, isRegistrar, organizations, organizationCount>>

-----------------------------------------------------------------------------

RegistryTx(s) ==
  \/ \E r \in RegistrarArgs, allowed \in BOOLEAN : setRegistrar(s, r, allowed)
  \/ \E h \in Bytes32 : registerIdentity(s, h)
  \/ \E a \in Address, h \in Bytes32 : registerIdentityFor(s, a, h)
  \/ \E h \in Bytes32 : updateIdentityHash(s, h)
  \/ \E a \in Address : revokeIdentity(s, a)
  \/ \E a \in Address : reactivateIdentity(s, a)
  \/ \E h \in Bytes32 : createOrganization(s, h)
  \/ \E o \in OrgId, h \in Bytes32 : updateOrganizationMetadata(s, o, h)
  \/ \E o \in OrgId, active \in BOOLEAN : setOrganizationActive(s, o, active)
  \/ \E o \in OrgId, a \in Address : transferOrgRootAdmin(s, o, a)
  \/ \E a \in OwnerArgs : moveOwnership(s, a)

RegistryNext == \E s \in Wallet : RegistryTx(s)

RegistrySpec == RegistryInit /\ [][RegistryNext]_registryVars

-----------------------------------------------------------------------------
(* Safety.                                                                 *)

(* Every organization that was created keeps a root admin with a           *)
(* registered identity and an anchored record, and no record exists under  *)
(* an id that was not handed out: createOrganization and the transfers of  *)
(* the seat never leave an organization without a seat holder.             *)
OrganizationsSeated ==
  \A o \in OrgId :
    IF organizationExists(o)
    THEN /\ organizations[o].metadataHash # NoHash
         /\ organizations[o].rootAdmin \in Wallet
         /\ identities[organizations[o].rootAdmin].exists
    ELSE organizations[o] = BlankOrganization

(* A wallet is registered at most once: whatever registrars and the wallet *)
(* itself do, an identity never disappears, and while it is revoked its    *)
(* anchor does not move, so the record of a leaver can always be compared  *)
(* with the hash that was current when the identity was cut off.           *)
RevokedRecordFrozen ==
  [][\A a \in Address :
       identities[a].exists =>
         /\ identities'[a].exists
         /\ ~identities[a].active => identities'[a].identityHash = identities[a].identityHash
    ]_registryVars

=============================================================================
