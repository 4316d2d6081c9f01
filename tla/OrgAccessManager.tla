---------------------------- MODULE OrgAccessManager ----------------------------
(***************************************************************************)
(* The contract OrgAccessManager on top of IdentityRegistry: memberships   *)
(* with a role and an expiry, the enumeration list with its swap-and-pop   *)
(* index, the permission overrides, and per-role application access.       *)
(*                                                                         *)
(* The state of both contracts is one state: a transaction of either       *)
(* contract is one step, and the block clock is a step of its own.         *)
(***************************************************************************)
EXTENDS IdentityRegistry, Sequences

CONSTANTS
  Application,  \* application ids (keccak256 of a slug)
  MaxTime,      \* bound: the last block timestamp
  RoleArgs,     \* bound: roles that are granted
  AccessArgs,   \* bound: roles whose access to an application is switched
  ExpiryArgs,   \* bound: expiries that are asked for, 0 = permanent
  OverrideArgs  \* bound: <<role, permission>> pairs that are overridden

Roles == {"ADMIN", "MANAGER", "AUDITOR", "USER"}
NONE  == "NONE"

Permissions == {"MANAGE_MEMBERS", "ASSIGN_ROLES", "MINT_ASSETS",
                "TRANSFER_ASSETS", "VIEW_AUDIT", "MANAGE_APPS"}

Override == {"Unset", "Allowed", "Denied"}

ASSUME TimeAssumption   == MaxTime \in Nat
ASSUME RoleArgsBound    == RoleArgs \subseteq Roles \cup {NONE}
ASSUME AccessArgsBound  == AccessArgs \subseteq Roles \cup {NONE}
ASSUME ExpiryArgsBound  == ExpiryArgs \subseteq Nat
ASSUME OverrideArgsBound == OverrideArgs \subseteq Roles \X Permissions

VARIABLES
  memberships,           \* _memberships
  memberList,            \* _memberList
  memberIndex,           \* _memberIndex, positions from 0
  overrides,             \* _permissionOverride
  applicationMetadata,   \* applicationMetadata
  applicationRegistered, \* applicationRegistered
  appRoleAccess,         \* _appRoleAccess
  now                    \* block.timestamp

memberVars == <<memberships, memberList, memberIndex>>
appVars    == <<applicationMetadata, applicationRegistered, appRoleAccess>>
accessVars == <<memberVars, overrides, appVars>>
chainVars  == <<registryVars, accessVars, now>>

Membership == [role : Roles \cup {NONE}, expiresAt : Nat]

NoMembership == [role |-> NONE, expiresAt |-> 0]

AccessTypeOK ==
  /\ RegistryTypeOK
  /\ memberships \in [OrgId -> [Address -> Membership]]
  /\ memberList \in [OrgId -> Seq(Address)]
  /\ memberIndex \in [OrgId -> [Address -> Nat]]
  /\ overrides \in [OrgId -> [Roles -> [Permissions -> Override]]]
  /\ applicationMetadata \in [OrgId -> [Application -> Bytes32]]
  /\ applicationRegistered \in [OrgId -> [Application -> BOOLEAN]]
  /\ appRoleAccess \in [OrgId -> [Application -> [Roles -> BOOLEAN]]]
  /\ now \in Nat

AccessInit ==
  /\ RegistryInit
  /\ memberships = [o \in OrgId |-> [a \in Address |-> NoMembership]]
  /\ memberList = [o \in OrgId |-> <<>>]
  /\ memberIndex = [o \in OrgId |-> [a \in Address |-> 0]]
  /\ overrides = [o \in OrgId |-> [r \in Roles |-> [p \in Permissions |-> "Unset"]]]
  /\ applicationMetadata = [o \in OrgId |-> [p \in Application |-> NoHash]]
  /\ applicationRegistered = [o \in OrgId |-> [p \in Application |-> FALSE]]
  /\ appRoleAccess = [o \in OrgId |-> [p \in Application |-> [r \in Roles |-> FALSE]]]
  /\ now = 1

-----------------------------------------------------------------------------
(* Views.                                                                  *)

isValidRole(r) == r \in Roles

lapsed(m) == m.expiresAt # 0 /\ m.expiresAt <= now

effectiveRole_rootFirst(o, a) == \* mutant: the seat is looked at before the identity
  IF orgRootAdmin(o) = a THEN "ADMIN"
  ELSE IF isActive(a) /\ ~lapsed(memberships[o][a]) THEN memberships[o][a].role ELSE NONE

(* The identity decides first, then the seat, then the stored membership.  *)
effectiveRole(o, a) ==
  IF ~isActive(a) THEN NONE
  ELSE IF orgRootAdmin(o) = a THEN "ADMIN"
  ELSE IF lapsed(memberships[o][a]) THEN NONE ELSE memberships[o][a].role

defaultPermission(r, p) ==
  \/ r = "ADMIN"
  \/ r = "MANAGER" /\ p \in {"TRANSFER_ASSETS", "VIEW_AUDIT"}
  \/ r = "AUDITOR" /\ p = "VIEW_AUDIT"

hasPermission(o, a, p) ==
  LET r == effectiveRole(o, a) IN
  /\ isOrganizationActive(o)
  /\ r # NONE
  /\ \/ overrides[o][r][p] = "Allowed"
     \/ overrides[o][r][p] = "Unset" /\ defaultPermission(r, p)

canAccessApp(o, a, app) ==
  LET r == effectiveRole(o, a) IN
  /\ applicationRegistered[o][app]
  /\ isOrganizationActive(o)
  /\ r # NONE
  /\ appRoleAccess[o][app][r]

futureExpiry(e) == e = 0 \/ e > now

-----------------------------------------------------------------------------
(* Members.                                                                *)

addMember(s, o, a, role, expiry) ==
  /\ isOrganizationActive(o)
  /\ hasPermission(o, s, "MANAGE_MEMBERS")
  /\ a # Zero
  /\ isValidRole(role)
  /\ isActive(a)
  /\ memberships[o][a].role = NONE
  /\ futureExpiry(expiry)
  /\ memberships' = [memberships EXCEPT ![o][a] = [role |-> role, expiresAt |-> expiry]]
  /\ memberIndex' = [memberIndex EXCEPT ![o][a] = Len(memberList[o])]
  /\ memberList' = [memberList EXCEPT ![o] = Append(@, a)]
  /\ UNCHANGED <<registryVars, overrides, appVars, now>>

assignRole_self(s, o, a, role, expiry) == \* mutant: self-targeting is not blocked
  /\ isOrganizationActive(o)
  /\ hasPermission(o, s, "ASSIGN_ROLES")
  /\ a # orgRootAdmin(o)
  /\ isValidRole(role) /\ isActive(a) /\ futureExpiry(expiry)
  /\ memberships[o][a].role # NONE
  /\ memberships' = [memberships EXCEPT ![o][a] = [role |-> role, expiresAt |-> expiry]]
  /\ UNCHANGED <<registryVars, memberList, memberIndex, overrides, appVars, now>>

assignRole(s, o, a, role, expiry) ==
  /\ isOrganizationActive(o)
  /\ hasPermission(o, s, "ASSIGN_ROLES")
  /\ a # s /\ a # orgRootAdmin(o)
  /\ isValidRole(role)
  /\ isActive(a)
  /\ futureExpiry(expiry)
  /\ memberships[o][a].role # NONE
  /\ memberships' = [memberships EXCEPT ![o][a] = [role |-> role, expiresAt |-> expiry]]
  /\ UNCHANGED <<registryVars, memberList, memberIndex, overrides, appVars, now>>

setRoleExpiry(s, o, a, expiry) ==
  /\ isOrganizationActive(o)
  /\ hasPermission(o, s, "ASSIGN_ROLES")
  /\ a # orgRootAdmin(o)
  /\ futureExpiry(expiry)
  /\ memberships[o][a].role # NONE
  /\ memberships' = [memberships EXCEPT ![o][a].expiresAt = expiry]
  /\ UNCHANGED <<registryVars, memberList, memberIndex, overrides, appVars, now>>

removeMember_staleIndex(s, o, a) == \* mutant: the moved member keeps its old index
  LET list == memberList[o]
      idx  == memberIndex[o][a]
  IN
  /\ isOrganizationActive(o)
  /\ hasPermission(o, s, "MANAGE_MEMBERS")
  /\ a # s /\ a # orgRootAdmin(o)
  /\ memberships[o][a].role # NONE
  /\ memberships' = [memberships EXCEPT ![o][a] = NoMembership]
  /\ memberList' = [memberList EXCEPT ![o] =
                      SubSeq([list EXCEPT ![idx + 1] = list[Len(list)]], 1, Len(list) - 1)]
  /\ memberIndex' = [memberIndex EXCEPT ![o][a] = 0]
  /\ UNCHANGED <<registryVars, overrides, appVars, now>>

(* The last member of the list takes the place of the one who leaves. When *)
(* the leaver is the last, its index is written and then deleted.          *)
removeMember(s, o, a) ==
  LET list == memberList[o]
      idx  == memberIndex[o][a]
      last == list[Len(list)]
  IN
  /\ isOrganizationActive(o)
  /\ hasPermission(o, s, "MANAGE_MEMBERS")
  /\ a # s /\ a # orgRootAdmin(o)
  /\ memberships[o][a].role # NONE
  /\ memberships' = [memberships EXCEPT ![o][a] = NoMembership]
  /\ memberList' = [memberList EXCEPT ![o] =
                      SubSeq([list EXCEPT ![idx + 1] = last], 1, Len(list) - 1)]
  /\ memberIndex' = [memberIndex EXCEPT ![o][last] = idx, ![o][a] = 0]
  /\ UNCHANGED <<registryVars, overrides, appVars, now>>

-----------------------------------------------------------------------------
(* Permissions and applications.                                           *)

setPermission_unguarded(s, o, role, permission, state) == \* mutant: MANAGE_MEMBERS is not guarded
  /\ isOrganizationActive(o)
  /\ effectiveRole(o, s) = "ADMIN"
  /\ isValidRole(role)
  /\ ~(role = "ADMIN" /\ permission = "ASSIGN_ROLES" /\ state = "Denied")
  /\ overrides' = [overrides EXCEPT ![o][role][permission] = state]
  /\ UNCHANGED <<registryVars, memberVars, appVars, now>>

setPermission(s, o, role, permission, state) ==
  /\ isOrganizationActive(o)
  /\ effectiveRole(o, s) = "ADMIN"
  /\ isValidRole(role)
  /\ ~(role = "ADMIN" /\ permission \in {"ASSIGN_ROLES", "MANAGE_MEMBERS"} /\ state = "Denied")
  /\ overrides' = [overrides EXCEPT ![o][role][permission] = state]
  /\ UNCHANGED <<registryVars, memberVars, appVars, now>>

registerApplication(s, o, app, hash) ==
  /\ isOrganizationActive(o)
  /\ hasPermission(o, s, "MANAGE_APPS")
  /\ hash # NoHash
  /\ ~applicationRegistered[o][app]
  /\ applicationRegistered' = [applicationRegistered EXCEPT ![o][app] = TRUE]
  /\ applicationMetadata' = [applicationMetadata EXCEPT ![o][app] = hash]
  /\ UNCHANGED <<registryVars, memberVars, overrides, appRoleAccess, now>>

setAppAccess(s, o, app, role, allowed) ==
  /\ isOrganizationActive(o)
  /\ hasPermission(o, s, "MANAGE_APPS")
  /\ applicationRegistered[o][app]
  /\ isValidRole(role)
  /\ appRoleAccess' = [appRoleAccess EXCEPT ![o][app][role] = allowed]
  /\ UNCHANGED <<registryVars, memberVars, overrides, applicationMetadata,
                 applicationRegistered, now>>

-----------------------------------------------------------------------------

MembersTx(s) ==
  \E o \in OrgId, a \in Address :
    \/ \E role \in RoleArgs, e \in ExpiryArgs : addMember(s, o, a, role, e)
    \/ \E role \in RoleArgs, e \in ExpiryArgs : assignRole(s, o, a, role, e)
    \/ \E e \in ExpiryArgs : setRoleExpiry(s, o, a, e)
    \/ removeMember(s, o, a)

PolicyTx(s) ==
  \E o \in OrgId :
    \/ \E x \in OverrideArgs, state \in Override : setPermission(s, o, x[1], x[2], state)
    \/ \E app \in Application, h \in Bytes32 : registerApplication(s, o, app, h)
    \/ \E app \in Application, role \in AccessArgs, allowed \in BOOLEAN :
         setAppAccess(s, o, app, role, allowed)

AccessTx(s) ==
  \/ MembersTx(s)
  \/ PolicyTx(s)
  \/ RegistryTx(s) /\ UNCHANGED <<accessVars, now>>

(* Time passes between blocks.                                             *)
Tick ==
  /\ now < MaxTime
  /\ now' = now + 1
  /\ UNCHANGED <<registryVars, accessVars>>

AccessNext == Tick \/ \E s \in Wallet : AccessTx(s)

AccessSpec == AccessInit /\ [][AccessNext]_chainVars

-----------------------------------------------------------------------------
(* Safety.                                                                 *)

(* The enumeration list, the index and the membership table tell the same  *)
(* story: the wallets with a stored role are listed exactly once, each at  *)
(* the position its index names. addMember and the swap-and-pop of         *)
(* removeMember update the three together, in any order of joins, leaves,  *)
(* re-joins and removals of the member that was just moved.                *)
MemberListExact ==
  \A o \in OrgId :
    LET list == memberList[o] IN
    /\ \A a \in Address :
         memberships[o][a].role # NONE =>
           /\ memberIndex[o][a] < Len(list)
           /\ list[memberIndex[o][a] + 1] = a
    /\ \A i \in 1..Len(list) :
         /\ memberships[o][list[i]].role # NONE
         /\ memberIndex[o][list[i]] = i - 1

(* An active organization whose root admin is active can always be         *)
(* governed: no sequence of overrides, role changes, removals and          *)
(* hand-overs takes member management or role assignment away from the     *)
(* seat, which is what the guard of setPermission is for.                  *)
GovernanceKept ==
  \A o \in OrgId :
    isOrganizationActive(o) /\ isActive(orgRootAdmin(o)) =>
      \A p \in {"MANAGE_MEMBERS", "ASSIGN_ROLES"} : hasPermission(o, orgRootAdmin(o), p)

(* Nobody promotes themselves. A wallet's own transaction never raises its *)
(* role in an organization that exists, nor gives a wallet that is not     *)
(* ADMIN there a permission it lacked. Registrars, who may reactivate      *)
(* themselves, and the platform owner, who may resume an organization, are *)
(* the two powers the code puts above organizations.                       *)
Rank(r) == CASE r = "ADMIN" -> 4 [] r = "MANAGER" -> 3 [] r = "AUDITOR" -> 2
             [] r = "USER" -> 1 [] r = NONE -> 0

roleRises(o, a) == Rank(effectiveRole(o, a)') > Rank(effectiveRole(o, a))

gainsPermission(o, a) ==
  \E p \in Permissions : hasPermission(o, a, p)' /\ ~hasPermission(o, a, p)

NoSelfElevation ==
  [][\A o \in OrgId, s \in Wallet :
       /\ organizationExists(o)
       /\ ~isRegistrar[s]
       /\ \/ roleRises(o, s)
          \/ effectiveRole(o, s) # "ADMIN" /\ s # owner /\ gainsPermission(o, s)
       => ~AccessTx(s)
    ]_chainVars

(* The kill switch: whoever is revoked, lapsed, removed or a member of     *)
(* another organization only, changes nothing in an organization's member, *)
(* permission and application tables, and while an organization is         *)
(* suspended nobody does, its root admin included.                         *)
orgTables(o) == <<memberships[o], memberList[o], memberIndex[o], overrides[o],
                  applicationMetadata[o], applicationRegistered[o], appRoleAccess[o]>>

mayGovern(o, s) == isActive(s) /\ isOrganizationActive(o) /\ effectiveRole(o, s) # NONE

OnlyMembersGovern ==
  [][\A o \in OrgId :
       orgTables(o)' # orgTables(o) =>
         \A s \in Wallet : mayGovern(o, s) \/ ~AccessTx(s)
    ]_chainVars

(* What the comment of effectiveRole promises: "The root admin always      *)
(* resolves to ADMIN so an organization can never be orphaned".            *)
RootAdminAlwaysAdmin ==
  \A o \in OrgId : organizationExists(o) => effectiveRole(o, orgRootAdmin(o)) = "ADMIN"
=============================================================================
