------------------------- MODULE OrgAccessManagerProofs -------------------------
(***************************************************************************)
(* Theorems about IdentityRegistry and OrgAccessManager, for any number of *)
(* wallets, hashes, organizations and memberships: both are type correct,  *)
(* an organization never loses its seat holder or its record, the member   *)
(* list stays exact under swap-and-pop, the seat can always govern, who    *)
(* has no standing changes nothing, and nobody elevates themselves.        *)
(***************************************************************************)
EXTENDS OrgAccessManager, TLAPS

(* Switching an identity on or off keeps the table of identities typed.    *)
LEMMA SwitchActive ==
  ASSUME NEW table \in [Address -> Identity], NEW a \in Address, NEW b \in BOOLEAN
  PROVE  [table EXCEPT ![a].active = b] \in [Address -> Identity]
  BY DEF Identity

(* One transaction keeps the types: the lemma the contracts built on the   *)
(* registry cite, because they interleave registry transactions with       *)
(* their own.                                                              *)
LEMMA RegistryTxTypeOK ==
  ASSUME RegistryTypeOK, NEW s \in Wallet, RegistryTx(s)
  PROVE  RegistryTypeOK'
<1> USE WalletAssumption, HashAssumption, OrgBound, ArgBounds
<1> USE DEF RegistryTypeOK
<1>1. ASSUME NEW r \in RegistrarArgs, NEW allowed \in BOOLEAN, setRegistrar(s, r, allowed)
      PROVE  RegistryTypeOK'
  BY <1>1 DEF setRegistrar, Address
<1>2. ASSUME NEW a \in Address, NEW h \in Bytes32, register(a, h)
      PROVE  RegistryTypeOK'
  BY <1>2 DEF register, Identity
<1>3. ASSUME NEW h \in Bytes32, updateIdentityHash(s, h)
      PROVE  RegistryTypeOK'
  BY <1>3 DEF updateIdentityHash, Identity
<1>4. ASSUME NEW a \in Address, revokeIdentity(s, a)
      PROVE  RegistryTypeOK'
  <2>1. identities' \in [Address -> Identity]
    BY <1>4, SwitchActive DEF revokeIdentity, RegistryTypeOK
  <2>2. QED
    BY <1>4, <2>1 DEF revokeIdentity, RegistryTypeOK
<1>5. ASSUME NEW a \in Address, reactivateIdentity(s, a)
      PROVE  RegistryTypeOK'
  <2>1. identities' \in [Address -> Identity]
    BY <1>5, SwitchActive DEF reactivateIdentity, RegistryTypeOK
  <2>2. QED
    BY <1>5, <2>1 DEF reactivateIdentity, RegistryTypeOK
<1>6. ASSUME NEW h \in Bytes32, createOrganization(s, h)
      PROVE  RegistryTypeOK'
  BY <1>6 DEF createOrganization, Organization, OrgId, Address
<1>7. ASSUME NEW o \in OrgId, NEW h \in Bytes32, updateOrganizationMetadata(s, o, h)
      PROVE  RegistryTypeOK'
  BY <1>7 DEF updateOrganizationMetadata, Organization
<1>8. ASSUME NEW o \in OrgId, NEW active \in BOOLEAN, setOrganizationActive(s, o, active)
      PROVE  RegistryTypeOK'
  BY <1>8 DEF setOrganizationActive, Organization
<1>9. ASSUME NEW o \in OrgId, NEW a \in Address, transferOrgRootAdmin(s, o, a)
      PROVE  RegistryTypeOK'
  BY <1>9 DEF transferOrgRootAdmin, Organization
<1>10. ASSUME NEW a \in OwnerArgs, moveOwnership(s, a)
       PROVE  RegistryTypeOK'
  BY <1>10 DEF moveOwnership, Address
<1>11. QED
  BY <1>1, <1>2, <1>3, <1>4, <1>5, <1>6, <1>7, <1>8, <1>9, <1>10
     DEF RegistryTx, registerIdentity, registerIdentityFor, Address

LEMMA RegistryInitTypeOK == RegistryInit => RegistryTypeOK
  BY WalletAssumption, OrgBound
     DEF RegistryInit, RegistryTypeOK, Identity, Organization, Address, Bytes32, OrgId,
         BlankIdentity, BlankOrganization

(* Type correctness of the registry.                                       *)
THEOREM RegistryTypeCorrect == RegistrySpec => []RegistryTypeOK
<1>1. RegistryTypeOK /\ [RegistryNext]_registryVars => RegistryTypeOK'
  <2> SUFFICES ASSUME RegistryTypeOK, [RegistryNext]_registryVars
               PROVE  RegistryTypeOK'
    OBVIOUS
  <2>1. CASE RegistryNext
    BY <2>1, RegistryTxTypeOK DEF RegistryNext
  <2>2. CASE UNCHANGED registryVars
    BY <2>2 DEF registryVars, RegistryTypeOK
  <2>3. QED
    BY <2>1, <2>2
<1>2. QED
  BY <1>1, RegistryInitTypeOK, PTL DEF RegistrySpec

-----------------------------------------------------------------------------

(* One transaction keeps every organization seated: identities are never   *)
(* deleted, and a seat is only ever given to a registered wallet.          *)
LEMMA RegistryTxSeated ==
  ASSUME RegistryTypeOK, OrganizationsSeated, NEW s \in Wallet, RegistryTx(s)
  PROVE  OrganizationsSeated'
<1> USE WalletAssumption, HashAssumption, OrgBound, ArgBounds
<1> USE DEF RegistryTypeOK, OrganizationsSeated, Identity, Organization, Address, Bytes32,
            OrgId, organizationExists, orgRootAdmin, isActive
<1>1. ASSUME UNCHANGED <<organizations, organizationCount>>,
             \A a \in Address : identities[a].exists => identities'[a].exists
      PROVE  OrganizationsSeated'
  BY <1>1
<1>2. ASSUME NEW h \in Bytes32, createOrganization(s, h)
      PROVE  OrganizationsSeated'
  <2> DEFINE new == organizationCount + 1
             record == [metadataHash |-> h, rootAdmin |-> s, active |-> TRUE]
  <2>1. /\ new \in OrgId /\ organizationCount' = new
        /\ identities' = identities /\ identities[s].exists /\ h # NoHash
        /\ organizations' = [organizations EXCEPT ![new] = record]
    BY <1>2 DEF createOrganization
  <2>2. organizations'[new] = record /\ \A o \in OrgId \ {new} : organizations'[o] = organizations[o]
    BY <2>1
  <2>3. \A o \in OrgId : organizationExists(o)' <=> organizationExists(o) \/ o = new
    BY <2>1
  <2>4. QED
    BY <2>1, <2>2, <2>3
<1>3. CASE \E o \in OrgId, h \in Bytes32 : updateOrganizationMetadata(s, o, h)
  BY <1>3 DEF updateOrganizationMetadata
<1>4. CASE \E o \in OrgId, active \in BOOLEAN : setOrganizationActive(s, o, active)
  BY <1>4 DEF setOrganizationActive
<1>5. CASE \E o \in OrgId, a \in Address : transferOrgRootAdmin(s, o, a)
  BY <1>5 DEF transferOrgRootAdmin
<1>6. ASSUME NEW a \in Address, NEW h \in Bytes32, register(a, h)
      PROVE  OrganizationsSeated'
  BY <1>1, <1>6 DEF register
<1>7. ASSUME NEW h \in Bytes32, updateIdentityHash(s, h)
      PROVE  OrganizationsSeated'
  BY <1>1, <1>7 DEF updateIdentityHash
<1>8. ASSUME NEW a \in Address, revokeIdentity(s, a)
      PROVE  OrganizationsSeated'
  <2>1. \A x \in Address : identities'[x].exists = identities[x].exists
    BY <1>8 DEF revokeIdentity
  <2>2. QED
    BY <1>1, <1>8, <2>1 DEF revokeIdentity
<1>9. ASSUME NEW a \in Address, reactivateIdentity(s, a)
      PROVE  OrganizationsSeated'
  <2>1. \A x \in Address : identities'[x].exists = identities[x].exists
    BY <1>9 DEF reactivateIdentity
  <2>2. QED
    BY <1>1, <1>9, <2>1 DEF reactivateIdentity
<1>10. CASE \E r \in RegistrarArgs, allowed \in BOOLEAN : setRegistrar(s, r, allowed)
  BY <1>1, <1>10 DEF setRegistrar
<1>11. CASE \E a \in OwnerArgs : moveOwnership(s, a)
  BY <1>1, <1>11 DEF moveOwnership
<1>12. QED
  BY <1>2, <1>3, <1>4, <1>5, <1>6, <1>7, <1>8, <1>9, <1>10, <1>11
     DEF RegistryTx, registerIdentity, registerIdentityFor, Address

LEMMA RegistryInitSeated == RegistryInit => OrganizationsSeated
  BY DEF RegistryInit, OrganizationsSeated, organizationExists, OrgId

(* Every organization that exists has a registered root admin, for ever.   *)
THEOREM OrganizationsStaySeated == RegistrySpec => []OrganizationsSeated
<1>1. RegistryTypeOK /\ OrganizationsSeated /\ [RegistryNext]_registryVars => OrganizationsSeated'
  <2> SUFFICES ASSUME RegistryTypeOK, OrganizationsSeated, [RegistryNext]_registryVars
               PROVE  OrganizationsSeated'
    OBVIOUS
  <2>1. CASE RegistryNext
    BY <2>1, RegistryTxSeated DEF RegistryNext
  <2>2. CASE UNCHANGED registryVars
    BY <2>2 DEF registryVars, OrganizationsSeated, organizationExists
  <2>3. QED
    BY <2>1, <2>2
<1>2. QED
  BY <1>1, RegistryInitSeated, RegistryTypeCorrect, PTL DEF RegistrySpec

-----------------------------------------------------------------------------
(* OrgAccessManager: its types and the exactness of its member list are    *)
(* one invariant. An index is a position of the list, so the list          *)
(* removeMember writes is a list of addresses, only because the list was   *)
(* exact before.                                                           *)

(* What MemberListExact says of one organization.                          *)
ListExact(members, list, index) ==
  /\ \A a \in Address :
       members[a].role # NONE => index[a] < Len(list) /\ list[index[a] + 1] = a
  /\ \A i \in 1..Len(list) : members[list[i]].role # NONE /\ index[list[i]] = i - 1

(* addMember: a newcomer is appended and gets the last position.           *)
LEMMA AppendMember ==
  ASSUME NEW members \in [Address -> Membership], NEW list \in Seq(Address),
         NEW index \in [Address -> Nat], ListExact(members, list, index),
         NEW a \in Address, members[a].role = NONE,
         NEW m \in Membership, m.role # NONE
  PROVE  ListExact([members EXCEPT ![a] = m], Append(list, a), [index EXCEPT ![a] = Len(list)])
<1> DEFINE members2 == [members EXCEPT ![a] = m]
           index2   == [index EXCEPT ![a] = Len(list)]
           list2    == Append(list, a)
<1>1. /\ members2[a] = m /\ \A b \in Address \ {a} : members2[b] = members[b]
      /\ index2[a] = Len(list) /\ \A b \in Address \ {a} : index2[b] = index[b]
  OBVIOUS
<1>2. /\ Len(list2) = Len(list) + 1 /\ list2[Len(list) + 1] = a
      /\ \A i \in 1..Len(list) : list2[i] = list[i]
      /\ Len(list) \in Nat /\ \A i \in 1..Len(list) : list[i] \in Address
  OBVIOUS
<1>3. \A i \in 1..Len(list) : list[i] # a
  BY DEF ListExact
<1>4. ASSUME NEW b \in Address, members2[b].role # NONE
      PROVE  index2[b] < Len(list2) /\ list2[index2[b] + 1] = b
  <2>1. CASE b = a
    BY <1>1, <1>2, <2>1
  <2>2. CASE b # a
    <3>1. members[b].role # NONE /\ index2[b] = index[b]
      BY <1>1, <1>4, <2>2
    <3>2. index[b] < Len(list) /\ list[index[b] + 1] = b /\ index[b] \in Nat
      BY <3>1 DEF ListExact
    <3>3. index[b] + 1 \in 1..Len(list)
      BY <1>2, <3>2
    <3>4. QED
      BY <1>2, <3>1, <3>2, <3>3
  <2>3. QED
    BY <2>1, <2>2
<1>5. ASSUME NEW i \in 1..Len(list2)
      PROVE  members2[list2[i]].role # NONE /\ index2[list2[i]] = i - 1
  <2>1. CASE i = Len(list) + 1
    BY <1>1, <1>2, <2>1
  <2>2. CASE i # Len(list) + 1
    <3>1. i \in 1..Len(list)
      BY <1>2, <2>2
    <3>2. list2[i] = list[i] /\ list[i] \in Address \ {a}
      BY <1>2, <1>3, <3>1
    <3>3. QED
      BY <1>1, <3>1, <3>2 DEF ListExact
  <2>3. QED
    BY <2>1, <2>2
<1>6. QED
  BY <1>4, <1>5 DEF ListExact

(* removeMember: the last member takes the leaver's position.              *)
LEMMA SwapAndPop ==
  ASSUME NEW members \in [Address -> Membership], NEW list \in Seq(Address),
         NEW index \in [Address -> Nat], ListExact(members, list, index),
         NEW a \in Address, members[a].role # NONE
  PROVE  LET last  == list[Len(list)]
             list2 == SubSeq([list EXCEPT ![index[a] + 1] = last], 1, Len(list) - 1)
         IN  /\ last \in Address
             /\ list2 \in Seq(Address)
             /\ ListExact([members EXCEPT ![a] = NoMembership], list2,
                          [index EXCEPT ![last] = index[a], ![a] = 0])
<1> DEFINE n     == Len(list)
           last  == list[n]
           slot  == index[a] + 1
           list2 == SubSeq([list EXCEPT ![slot] = last], 1, n - 1)
           members2 == [members EXCEPT ![a] = NoMembership]
           index2   == [index EXCEPT ![last] = index[a], ![a] = 0]
<1>1. n \in Nat /\ slot \in 1..n /\ list[slot] = a /\ index[a] = slot - 1
  BY DEF ListExact
<1>2. last \in Address /\ n \in 1..n /\ \A i \in 1..n : list[i] \in Address
  BY <1>1
<1>3. [list EXCEPT ![slot] = last] \in Seq(Address) /\ Len([list EXCEPT ![slot] = last]) = n
  BY <1>1, <1>2
<1>4. list2 \in Seq(Address) /\ Len(list2) = n - 1
  BY <1>1, <1>3
<1>5. \A i \in 1..(n - 1) : list2[i] = IF i = slot THEN last ELSE list[i]
  BY <1>1, <1>2, <1>3
<1>6. /\ members2[a] = NoMembership /\ \A b \in Address \ {a} : members2[b] = members[b]
      /\ \A b \in Address \ {a, last} : index2[b] = index[b]
      /\ last # a => index2[last] = slot - 1
  BY <1>1, <1>2
<1>7. ASSUME NEW i \in 1..n, NEW j \in 1..n, list[i] = list[j]
      PROVE  i = j
  <2>1. index[list[i]] = i - 1 /\ index[list[j]] = j - 1
    BY DEF ListExact
  <2>2. QED
    BY <1>7, <2>1
<1>8. ASSUME NEW b \in Address, members2[b].role # NONE
      PROVE  index2[b] < n - 1 /\ list2[index2[b] + 1] = b
  <2>1. b # a /\ members[b].role # NONE
    BY <1>6, <1>8 DEF NoMembership
  <2>2. index[b] \in Nat /\ index[b] < n /\ list[index[b] + 1] = b
    BY <2>1 DEF ListExact
  <2>3. CASE b = last
    <3>1. index2[b] = slot - 1 /\ slot # n
      BY <1>1, <1>6, <2>1, <2>3
    <3>2. QED
      BY <1>1, <1>5, <2>3, <3>1
  <2>4. CASE b # last
    <3>1. index2[b] = index[b] /\ index[b] + 1 # n /\ index[b] + 1 # slot
      BY <1>1, <1>6, <2>1, <2>2, <2>4
    <3>2. index[b] + 1 \in 1..(n - 1)
      BY <1>1, <2>2, <3>1
    <3>3. QED
      BY <1>1, <1>5, <2>2, <3>1, <3>2
  <2>5. QED
    BY <2>3, <2>4
<1>9. ASSUME NEW i \in 1..(n - 1)
      PROVE  members2[list2[i]].role # NONE /\ index2[list2[i]] = i - 1
  <2>0. i \in 1..n /\ i # n
    BY <1>1
  <2>1. CASE i = slot
    <3>1. last # a
      BY <1>1, <1>2, <1>7, <2>0, <2>1
    <3>2. members[last].role # NONE
      BY <1>2 DEF ListExact
    <3>3. QED
      BY <1>2, <1>5, <1>6, <2>1, <3>1, <3>2
  <2>2. CASE i # slot
    <3>1. list2[i] = list[i] /\ list[i] \in Address
      BY <1>2, <1>5, <2>0, <2>2
    <3>2. list[i] # a
      BY <1>1, <1>7, <2>0, <2>2
    <3>3. list[i] # last
      BY <1>2, <1>7, <2>0
    <3>4. members[list[i]].role # NONE /\ index[list[i]] = i - 1
      BY <2>0 DEF ListExact
    <3>5. QED
      BY <1>6, <3>1, <3>2, <3>3, <3>4
  <2>3. QED
    BY <2>1, <2>2
<1>10. ListExact(members2, list2, index2)
  <2> HIDE DEF members2, list2, index2
  <2>1. QED
    BY <1>4, <1>8, <1>9 DEF ListExact
<1>11. QED
  BY <1>2, <1>4, <1>10

-----------------------------------------------------------------------------

AccessInv == AccessTypeOK /\ MemberListExact

LEMMA ListExactEverywhere ==
  MemberListExact <=> \A o \in OrgId : ListExact(memberships[o], memberList[o], memberIndex[o])
  BY DEF MemberListExact, ListExact

(* Replacing one organization's member tables keeps the invariant when the *)
(* new tables are typed and exact.                                         *)
LEMMA OneOrganization ==
  ASSUME AccessInv, NEW o \in OrgId,
         NEW m \in [Address -> Membership], NEW list \in Seq(Address),
         NEW index \in [Address -> Nat], ListExact(m, list, index),
         memberships' = [memberships EXCEPT ![o] = m],
         memberList' = [memberList EXCEPT ![o] = list],
         memberIndex' = [memberIndex EXCEPT ![o] = index],
         UNCHANGED <<registryVars, overrides, appVars, now>>
  PROVE  AccessInv'
<1>1. AccessTypeOK'
  BY DEF AccessInv, AccessTypeOK, RegistryTypeOK, registryVars, appVars
<1>2. \A x \in OrgId : IF x = o
        THEN memberships'[x] = m /\ memberList'[x] = list /\ memberIndex'[x] = index
        ELSE /\ memberships'[x] = memberships[x] /\ memberList'[x] = memberList[x]
             /\ memberIndex'[x] = memberIndex[x]
  BY DEF AccessInv, AccessTypeOK
<1>3. \A x \in OrgId : ListExact(memberships'[x], memberList'[x], memberIndex'[x])
  BY <1>2, ListExactEverywhere DEF AccessInv
<1>4. MemberListExact'
  BY <1>3 DEF MemberListExact, ListExact
<1>5. QED
  BY <1>1, <1>4 DEF AccessInv

(* A new role or expiry for somebody who stays a member moves nobody in    *)
(* the list.                                                               *)
LEMMA Restate ==
  ASSUME AccessInv, NEW o \in OrgId, NEW a \in Address, memberships[o][a].role # NONE,
         NEW m \in Membership, m.role # NONE,
         memberships' = [memberships EXCEPT ![o][a] = m],
         UNCHANGED <<registryVars, memberList, memberIndex, overrides, appVars, now>>
  PROVE  AccessInv'
<1> DEFINE members == [memberships[o] EXCEPT ![a] = m]
<1>1. /\ members \in [Address -> Membership] /\ memberList[o] \in Seq(Address)
      /\ memberIndex[o] \in [Address -> Nat]
  BY DEF AccessInv, AccessTypeOK
<1>2. /\ memberships' = [memberships EXCEPT ![o] = members]
      /\ memberList' = [memberList EXCEPT ![o] = memberList[o]]
      /\ memberIndex' = [memberIndex EXCEPT ![o] = memberIndex[o]]
  BY DEF AccessInv, AccessTypeOK
<1>3. \A b \in Address : members[b].role # NONE <=> memberships[o][b].role # NONE
  BY DEF AccessInv, AccessTypeOK
<1>4. ListExact(memberships[o], memberList[o], memberIndex[o])
  BY ListExactEverywhere DEF AccessInv
<1>5. \A i \in 1..Len(memberList[o]) : memberList[o][i] \in Address
  BY <1>1
<1>6. ListExact(members, memberList[o], memberIndex[o])
  <2> HIDE DEF members
  <2>1. \A b \in Address : members[b].role # NONE =>
          memberIndex[o][b] < Len(memberList[o]) /\ memberList[o][memberIndex[o][b] + 1] = b
    BY <1>3, <1>4 DEF ListExact
  <2>2. \A i \in 1..Len(memberList[o]) :
          members[memberList[o][i]].role # NONE /\ memberIndex[o][memberList[o][i]] = i - 1
    BY <1>3, <1>4, <1>5 DEF ListExact
  <2>3. QED
    BY <2>1, <2>2 DEF ListExact
<1>7. QED
  BY <1>1, <1>2, <1>6, OneOrganization

LEMMA AddMemberInv ==
  ASSUME AccessInv, NEW s \in Wallet, NEW o \in OrgId, NEW a \in Address,
         NEW role \in RoleArgs, NEW e \in ExpiryArgs, addMember(s, o, a, role, e)
  PROVE  AccessInv'
<1> DEFINE m == [role |-> role, expiresAt |-> e]
<1>1. /\ memberships[o] \in [Address -> Membership] /\ memberList[o] \in Seq(Address)
      /\ memberIndex[o] \in [Address -> Nat]
  BY DEF AccessInv, AccessTypeOK
<1>2. m \in Membership /\ m.role # NONE /\ memberships[o][a].role = NONE
  BY RoleArgsBound, ExpiryArgsBound DEF addMember, isValidRole, Membership, Roles, NONE
<1>3. ListExact(memberships[o], memberList[o], memberIndex[o])
  BY ListExactEverywhere DEF AccessInv
<1>4. ListExact([memberships[o] EXCEPT ![a] = m], Append(memberList[o], a),
                [memberIndex[o] EXCEPT ![a] = Len(memberList[o])])
  BY <1>1, <1>2, <1>3, AppendMember
<1>5. /\ memberships' = [memberships EXCEPT ![o] = [memberships[o] EXCEPT ![a] = m]]
      /\ memberList' = [memberList EXCEPT ![o] = Append(memberList[o], a)]
      /\ memberIndex' = [memberIndex EXCEPT ![o] =
                           [memberIndex[o] EXCEPT ![a] = Len(memberList[o])]]
      /\ UNCHANGED <<registryVars, overrides, appVars, now>>
  BY DEF addMember, AccessInv, AccessTypeOK
<1>6. /\ [memberships[o] EXCEPT ![a] = m] \in [Address -> Membership]
      /\ Append(memberList[o], a) \in Seq(Address)
      /\ [memberIndex[o] EXCEPT ![a] = Len(memberList[o])] \in [Address -> Nat]
  BY <1>1, <1>2
<1>7. QED
  BY <1>4, <1>5, <1>6, OneOrganization

LEMMA RemoveMemberInv ==
  ASSUME AccessInv, NEW s \in Wallet, NEW o \in OrgId, NEW a \in Address,
         removeMember(s, o, a)
  PROVE  AccessInv'
<1> DEFINE list == memberList[o]
           idx  == memberIndex[o][a]
           last == list[Len(list)]
           members2 == [memberships[o] EXCEPT ![a] = NoMembership]
           list2  == SubSeq([list EXCEPT ![idx + 1] = last], 1, Len(list) - 1)
           index2 == [memberIndex[o] EXCEPT ![last] = idx, ![a] = 0]
<1>1. /\ memberships[o] \in [Address -> Membership] /\ list \in Seq(Address)
      /\ memberIndex[o] \in [Address -> Nat] /\ NoMembership \in Membership
  BY DEF AccessInv, AccessTypeOK, NoMembership, Membership
<1>2. ListExact(memberships[o], list, memberIndex[o])
  BY ListExactEverywhere DEF AccessInv
<1>3. memberships[o][a].role # NONE
  BY DEF removeMember
<1>4. last \in Address /\ list2 \in Seq(Address) /\ ListExact(members2, list2, index2)
  BY <1>1, <1>2, <1>3, SwapAndPop
<1>5. memberships' = [memberships EXCEPT ![o] = members2]
  BY DEF removeMember, AccessInv, AccessTypeOK
<1>6. memberList' = [memberList EXCEPT ![o] = list2]
  BY DEF removeMember, AccessInv, AccessTypeOK
<1>7. memberIndex' = [memberIndex EXCEPT ![o] = index2]
  BY DEF removeMember, AccessInv, AccessTypeOK
<1>8. members2 \in [Address -> Membership] /\ index2 \in [Address -> Nat]
  BY <1>1, <1>4
<1>9. UNCHANGED <<registryVars, overrides, appVars, now>>
  BY DEF removeMember
<1>10. QED
  BY <1>4, <1>5, <1>6, <1>7, <1>8, <1>9, OneOrganization

LEMMA MembersTxInv ==
  ASSUME AccessInv, NEW s \in Wallet, MembersTx(s)
  PROVE  AccessInv'
<1>1. ASSUME NEW o \in OrgId, NEW a \in Address, NEW role \in RoleArgs, NEW e \in ExpiryArgs,
             addMember(s, o, a, role, e)
      PROVE  AccessInv'
  BY <1>1, AddMemberInv
<1>2. ASSUME NEW o \in OrgId, NEW a \in Address, NEW role \in RoleArgs, NEW e \in ExpiryArgs,
             assignRole(s, o, a, role, e)
      PROVE  AccessInv'
  <2>1. [role |-> role, expiresAt |-> e] \in Membership /\ role # NONE
    BY <1>2, RoleArgsBound, ExpiryArgsBound
       DEF assignRole, isValidRole, Membership, Roles, NONE
  <2>2. QED
    BY <1>2, <2>1, Restate DEF assignRole
<1>3. ASSUME NEW o \in OrgId, NEW a \in Address, NEW e \in ExpiryArgs,
             setRoleExpiry(s, o, a, e)
      PROVE  AccessInv'
  <2> DEFINE m == [memberships[o][a] EXCEPT !.expiresAt = e]
  <2>1. memberships[o][a] \in Membership /\ memberships[o][a].role # NONE
    BY <1>3 DEF setRoleExpiry, AccessInv, AccessTypeOK
  <2>2. m \in Membership /\ m.role # NONE
    BY <2>1, ExpiryArgsBound DEF Membership
  <2>3. memberships' = [memberships EXCEPT ![o][a] = m]
    BY <1>3 DEF setRoleExpiry, AccessInv, AccessTypeOK
  <2>4. QED
    BY <1>3, <2>1, <2>2, <2>3, Restate DEF setRoleExpiry
<1>4. ASSUME NEW o \in OrgId, NEW a \in Address, removeMember(s, o, a)
      PROVE  AccessInv'
  BY <1>4, RemoveMemberInv
<1>5. QED
  BY <1>1, <1>2, <1>3, <1>4 DEF MembersTx

LEMMA PolicyTxInv ==
  ASSUME AccessInv, NEW s \in Wallet, PolicyTx(s)
  PROVE  AccessInv'
<1>1. UNCHANGED <<registryVars, memberVars, now>>
  BY DEF PolicyTx, setPermission, registerApplication, setAppAccess
<1>2. MemberListExact'
  BY <1>1 DEF AccessInv, MemberListExact, memberVars
<1>3. RegistryTypeOK'
  BY <1>1 DEF AccessInv, AccessTypeOK, RegistryTypeOK, registryVars
<1>4. ASSUME NEW o \in OrgId, NEW x \in OverrideArgs, NEW state \in Override,
             setPermission(s, o, x[1], x[2], state)
      PROVE  AccessTypeOK'
  <2>1. x[1] \in Roles /\ x[2] \in Permissions
    BY OverrideArgsBound
  <2>2. overrides' \in [OrgId -> [Roles -> [Permissions -> Override]]]
    BY <1>4, <2>1 DEF setPermission, AccessInv, AccessTypeOK
  <2>3. QED
    BY <1>1, <1>3, <1>4, <2>2
       DEF setPermission, AccessInv, AccessTypeOK, memberVars, appVars
<1>5. ASSUME NEW o \in OrgId, NEW app \in Application, NEW h \in Bytes32,
             registerApplication(s, o, app, h)
      PROVE  AccessTypeOK'
  <2>1. applicationRegistered' \in [OrgId -> [Application -> BOOLEAN]]
    BY <1>5 DEF registerApplication, AccessInv, AccessTypeOK
  <2>2. applicationMetadata' \in [OrgId -> [Application -> Bytes32]]
    BY <1>5 DEF registerApplication, AccessInv, AccessTypeOK
  <2>3. QED
    BY <1>1, <1>3, <1>5, <2>1, <2>2
       DEF registerApplication, AccessInv, AccessTypeOK, memberVars
<1>6. ASSUME NEW o \in OrgId, NEW app \in Application, NEW role \in AccessArgs,
             NEW allowed \in BOOLEAN, setAppAccess(s, o, app, role, allowed)
      PROVE  AccessTypeOK'
  <2>1. appRoleAccess' \in [OrgId -> [Application -> [Roles -> BOOLEAN]]]
    BY <1>6 DEF setAppAccess, isValidRole, AccessInv, AccessTypeOK
  <2>2. QED
    BY <1>1, <1>3, <1>6, <2>1 DEF setAppAccess, AccessInv, AccessTypeOK, memberVars
<1>7. QED
  BY <1>2, <1>4, <1>5, <1>6 DEF PolicyTx, AccessInv

(* One transaction of either contract keeps the invariant: the lemma the   *)
(* contracts and services on top of the access manager cite.               *)
LEMMA AccessTxInv ==
  ASSUME AccessInv, NEW s \in Wallet, AccessTx(s)
  PROVE  AccessInv'
<1>1. CASE MembersTx(s)
  BY <1>1, MembersTxInv
<1>2. CASE PolicyTx(s)
  BY <1>2, PolicyTxInv
<1>3. CASE RegistryTx(s) /\ UNCHANGED <<accessVars, now>>
  <2>1. RegistryTypeOK'
    BY <1>3, RegistryTxTypeOK DEF AccessInv, AccessTypeOK
  <2>2. QED
    BY <1>3, <2>1
       DEF AccessInv, AccessTypeOK, MemberListExact, accessVars, memberVars, appVars
<1>4. QED
  BY <1>1, <1>2, <1>3 DEF AccessTx

LEMMA TickInv == AccessInv /\ Tick => AccessInv'
  BY DEF Tick, AccessInv, AccessTypeOK, RegistryTypeOK, MemberListExact, registryVars,
         accessVars, memberVars, appVars

LEMMA AccessInitInv == AccessInit => AccessInv
<1> SUFFICES ASSUME AccessInit
             PROVE  AccessInv
  OBVIOUS
<1>1. RegistryTypeOK
  BY RegistryInitTypeOK DEF AccessInit
<1>2. /\ memberships \in [OrgId -> [Address -> Membership]]
      /\ memberList \in [OrgId -> Seq(Address)]
      /\ memberIndex \in [OrgId -> [Address -> Nat]]
      /\ now \in Nat
  BY DEF AccessInit, NoMembership, Membership
<1>3. /\ overrides \in [OrgId -> [Roles -> [Permissions -> Override]]]
      /\ applicationMetadata \in [OrgId -> [Application -> Bytes32]]
      /\ applicationRegistered \in [OrgId -> [Application -> BOOLEAN]]
      /\ appRoleAccess \in [OrgId -> [Application -> [Roles -> BOOLEAN]]]
  BY DEF AccessInit, Override, Bytes32
<1>4. MemberListExact
  BY DEF AccessInit, MemberListExact, NoMembership
<1>5. QED
  BY <1>1, <1>2, <1>3, <1>4 DEF AccessInv, AccessTypeOK

LEMMA AccessInvariant == AccessSpec => []AccessInv
<1>1. AccessInv /\ [AccessNext]_chainVars => AccessInv'
  <2> SUFFICES ASSUME AccessInv, [AccessNext]_chainVars
               PROVE  AccessInv'
    OBVIOUS
  <2>1. CASE AccessNext
    BY <2>1, AccessTxInv, TickInv DEF AccessNext
  <2>2. CASE UNCHANGED chainVars
    BY <2>2 DEF AccessInv, AccessTypeOK, RegistryTypeOK, MemberListExact, chainVars,
                registryVars, accessVars, memberVars, appVars
  <2>3. QED
    BY <2>1, <2>2
<1>2. QED
  BY <1>1, AccessInitInv, PTL DEF AccessSpec

(* Type correctness of the registry and the access manager together.       *)
THEOREM AccessTypeCorrect == AccessSpec => []AccessTypeOK
  BY AccessInvariant, PTL DEF AccessInv

(* The member list, its index and the membership table of every            *)
(* organization agree in every reachable state.                            *)
THEOREM MemberListStaysExact == AccessSpec => []MemberListExact
  BY AccessInvariant, PTL DEF AccessInv

-----------------------------------------------------------------------------

(* Why the seat can always govern: setPermission refuses to deny ADMIN     *)
(* either of the two permissions, so no override of them is ever "Denied". *)
AdminKeepsGovernance ==
  \A o \in OrgId, p \in {"MANAGE_MEMBERS", "ASSIGN_ROLES"} : overrides[o]["ADMIN"][p] # "Denied"

LEMMA AccessTxKeepsGovernance ==
  ASSUME AccessInv, AdminKeepsGovernance, NEW s \in Wallet, AccessTx(s)
  PROVE  AdminKeepsGovernance'
<1>1. CASE MembersTx(s)
  BY <1>1 DEF MembersTx, addMember, assignRole, setRoleExpiry, removeMember, AdminKeepsGovernance
<1>2. ASSUME NEW o \in OrgId, NEW x \in OverrideArgs, NEW state \in Override,
             setPermission(s, o, x[1], x[2], state)
      PROVE  AdminKeepsGovernance'
  <2>1. x[1] \in Roles /\ x[2] \in Permissions
    BY OverrideArgsBound
  <2>2. \A o2 \in OrgId, r \in Roles, p \in Permissions :
          overrides'[o2][r][p] =
            IF o2 = o /\ r = x[1] /\ p = x[2] THEN state ELSE overrides[o2][r][p]
    BY <1>2, <2>1 DEF setPermission, AccessInv, AccessTypeOK
  <2>3. ~(x[1] = "ADMIN" /\ x[2] \in {"ASSIGN_ROLES", "MANAGE_MEMBERS"} /\ state = "Denied")
    BY <1>2 DEF setPermission
  <2>4. QED
    BY <2>2, <2>3 DEF AdminKeepsGovernance, Roles, Permissions
<1>3. ASSUME NEW o \in OrgId, NEW app \in Application, NEW h \in Bytes32,
             registerApplication(s, o, app, h)
      PROVE  AdminKeepsGovernance'
  BY <1>3 DEF registerApplication, AdminKeepsGovernance
<1>4. ASSUME NEW o \in OrgId, NEW app \in Application, NEW role \in AccessArgs,
             NEW allowed \in BOOLEAN, setAppAccess(s, o, app, role, allowed)
      PROVE  AdminKeepsGovernance'
  BY <1>4 DEF setAppAccess, AdminKeepsGovernance
<1>5. CASE RegistryTx(s) /\ UNCHANGED <<accessVars, now>>
  BY <1>5 DEF accessVars, AdminKeepsGovernance
<1>6. QED
  BY <1>1, <1>2, <1>3, <1>4, <1>5 DEF AccessTx, PolicyTx

LEMMA GovernanceFollows == AccessInv /\ AdminKeepsGovernance => GovernanceKept
<1> SUFFICES ASSUME AccessInv, AdminKeepsGovernance,
                    NEW o \in OrgId, isOrganizationActive(o), isActive(orgRootAdmin(o)),
                    NEW p \in {"MANAGE_MEMBERS", "ASSIGN_ROLES"}
             PROVE  hasPermission(o, orgRootAdmin(o), p)
  BY DEF GovernanceKept
<1>1. effectiveRole(o, orgRootAdmin(o)) = "ADMIN"
  BY DEF effectiveRole
<1>2. overrides[o]["ADMIN"][p] \in {"Unset", "Allowed"}
  BY DEF AccessInv, AccessTypeOK, AdminKeepsGovernance, Override, Roles, Permissions
<1>3. QED
  BY <1>1, <1>2 DEF hasPermission, defaultPermission, NONE

(* An active organization with an active root admin can always be governed *)
(* by its seat, whatever overrides were set.                               *)
THEOREM GovernanceNeverLost == AccessSpec => []GovernanceKept
<1>1. AccessInit => AdminKeepsGovernance
  BY DEF AccessInit, AdminKeepsGovernance, Roles, Permissions
<1>2. AccessInv /\ AdminKeepsGovernance /\ [AccessNext]_chainVars => AdminKeepsGovernance'
  <2> SUFFICES ASSUME AccessInv, AdminKeepsGovernance, [AccessNext]_chainVars
               PROVE  AdminKeepsGovernance'
    OBVIOUS
  <2>1. CASE \E s \in Wallet : AccessTx(s)
    BY <2>1, AccessTxKeepsGovernance
  <2>2. CASE Tick
    BY <2>2 DEF Tick, accessVars, AdminKeepsGovernance
  <2>3. CASE UNCHANGED chainVars
    BY <2>3 DEF chainVars, accessVars, AdminKeepsGovernance
  <2>4. QED
    BY <2>1, <2>2, <2>3 DEF AccessNext
<1>3. QED
  BY <1>1, <1>2, AccessInvariant, GovernanceFollows, PTL DEF AccessSpec

-----------------------------------------------------------------------------

(* A membership is of somebody with an identity: addMember and assignRole  *)
(* ask for an active one, and identities never disappear. Registering is   *)
(* therefore no way to a role that was waiting.                            *)
MembersRegistered ==
  \A o \in OrgId, a \in Address : memberships[o][a].role # NONE => identities[a].exists

StandingInv == AccessInv /\ OrganizationsSeated /\ MembersRegistered

(* What a role is computed from.                                           *)
LEMMA SameStanding ==
  ASSUME NEW o, NEW a,
         isActive(a)' = isActive(a), orgRootAdmin(o)' = orgRootAdmin(o),
         memberships'[o][a] = memberships[o][a], now' = now
  PROVE  effectiveRole(o, a)' = effectiveRole(o, a)
  BY DEF effectiveRole, lapsed

LEMMA RolesAreRanked ==
  ASSUME AccessTypeOK, NEW o \in OrgId, NEW a \in Address
  PROVE  effectiveRole(o, a) \in Roles \cup {NONE}
  BY DEF AccessTypeOK, Membership, effectiveRole, Roles

(* Who may do anything to an organization's tables.                        *)
LEMMA PermittedGovern ==
  ASSUME NEW o, NEW s, NEW p, hasPermission(o, s, p)
  PROVE  mayGovern(o, s)
  BY DEF hasPermission, mayGovern, effectiveRole

(* The other organizations' tables are left alone.                         *)
LEMMA OtherTables ==
  ASSUME AccessInv, NEW s \in Wallet, NEW o \in OrgId,
         MembersTx(s) \/ PolicyTx(s), orgTables(o)' # orgTables(o)
  PROVE  mayGovern(o, s)
<1>1. ASSUME NEW o2 \in OrgId, NEW a \in Address, NEW role \in RoleArgs, NEW e \in ExpiryArgs,
             addMember(s, o2, a, role, e) \/ assignRole(s, o2, a, role, e)
      PROVE  mayGovern(o, s)
  <2>1. o2 = o
    BY <1>1 DEF addMember, assignRole, orgTables, appVars, AccessInv, AccessTypeOK
  <2>2. QED
    BY <1>1, <2>1, PermittedGovern DEF addMember, assignRole
<1>2. ASSUME NEW o2 \in OrgId, NEW a \in Address, NEW e \in ExpiryArgs, setRoleExpiry(s, o2, a, e)
      PROVE  mayGovern(o, s)
  <2>1. memberships' = [memberships EXCEPT ![o2] = [memberships[o2] EXCEPT
                          ![a] = [memberships[o2][a] EXCEPT !.expiresAt = e]]]
    BY <1>2 DEF setRoleExpiry, AccessInv, AccessTypeOK
  <2>2. o2 # o => memberships'[o] = memberships[o]
    BY <2>1 DEF AccessInv, AccessTypeOK
  <2>3. o2 = o
    BY <1>2, <2>2 DEF setRoleExpiry, orgTables, appVars
  <2>4. QED
    BY <1>2, <2>3, PermittedGovern DEF setRoleExpiry
<1>3. ASSUME NEW o2 \in OrgId, NEW a \in Address, removeMember(s, o2, a)
      PROVE  mayGovern(o, s)
  <2>1. o2 = o
    BY <1>3 DEF removeMember, orgTables, appVars, AccessInv, AccessTypeOK
  <2>2. QED
    BY <1>3, <2>1, PermittedGovern DEF removeMember
<1>4. ASSUME NEW o2 \in OrgId, NEW x \in OverrideArgs, NEW state \in Override,
             setPermission(s, o2, x[1], x[2], state)
      PROVE  mayGovern(o, s)
  <2>1. o2 = o
    BY <1>4 DEF setPermission, orgTables, memberVars, appVars, AccessInv, AccessTypeOK
  <2>2. QED
    BY <1>4, <2>1 DEF setPermission, mayGovern, effectiveRole, NONE
<1>5. ASSUME NEW o2 \in OrgId, NEW app \in Application, NEW h \in Bytes32,
             registerApplication(s, o2, app, h)
      PROVE  mayGovern(o, s)
  <2>1. o2 = o
    BY <1>5 DEF registerApplication, orgTables, memberVars, AccessInv, AccessTypeOK
  <2>2. QED
    BY <1>5, <2>1, PermittedGovern DEF registerApplication
<1>6. ASSUME NEW o2 \in OrgId, NEW app \in Application, NEW role \in AccessArgs,
             NEW allowed \in BOOLEAN, setAppAccess(s, o2, app, role, allowed)
      PROVE  mayGovern(o, s)
  <2>1. o2 = o
    BY <1>6 DEF setAppAccess, orgTables, memberVars, AccessInv, AccessTypeOK
  <2>2. QED
    BY <1>6, <2>1, PermittedGovern DEF setAppAccess
<1>7. QED
  BY <1>1, <1>2, <1>3, <1>4, <1>5, <1>6 DEF MembersTx, PolicyTx

(* Nobody without standing in an organization changes its tables, and      *)
(* while it is suspended nobody does: every function of the access manager *)
(* asks for the sender's permission, which asks for the identity, the seat *)
(* or the unexpired membership, and for the organization.                  *)
THEOREM OutsidersChangeNothing == AccessSpec => OnlyMembersGovern
<1>1. AccessInv /\ [AccessNext]_chainVars =>
        [\A o \in OrgId : orgTables(o)' # orgTables(o) =>
           \A s \in Wallet : mayGovern(o, s) \/ ~AccessTx(s)]_chainVars
  <2> SUFFICES ASSUME AccessInv, NEW o \in OrgId, orgTables(o)' # orgTables(o),
                      NEW s \in Wallet, AccessTx(s)
               PROVE  mayGovern(o, s)
    OBVIOUS
  <2>1. ~(RegistryTx(s) /\ UNCHANGED <<accessVars, now>>)
    BY DEF orgTables, accessVars, memberVars, appVars
  <2>2. QED
    BY <2>1, OtherTables DEF AccessTx
<1>2. QED
  BY <1>1, AccessInvariant, PTL DEF AccessSpec, OnlyMembersGovern

-----------------------------------------------------------------------------

LEMMA StandingInitInv == AccessInit => OrganizationsSeated /\ MembersRegistered
  BY RegistryInitSeated DEF AccessInit, MembersRegistered, NoMembership

(* A registry transaction never makes an identity disappear.               *)
LEMMA IdentitiesStay ==
  ASSUME RegistryTypeOK, NEW s \in Wallet, RegistryTx(s), NEW a \in Address, identities[a].exists
  PROVE  identities'[a].exists
<1> USE DEF RegistryTypeOK, Identity, Address
<1>1. ASSUME NEW b \in Address, NEW h \in Bytes32, register(b, h)
      PROVE  identities'[a].exists
  BY <1>1 DEF register
<1>2. ASSUME NEW h \in Bytes32, updateIdentityHash(s, h)
      PROVE  identities'[a].exists
  BY <1>2 DEF updateIdentityHash
<1>3. ASSUME NEW b \in Address, revokeIdentity(s, b) \/ reactivateIdentity(s, b)
      PROVE  identities'[a].exists
  BY <1>3 DEF revokeIdentity, reactivateIdentity
<1>4. ASSUME identities' = identities
      PROVE  identities'[a].exists
  BY <1>4
<1>5. QED
  BY <1>1, <1>2, <1>3, <1>4
     DEF RegistryTx, registerIdentity, registerIdentityFor, setRegistrar, createOrganization,
         updateOrganizationMetadata, setOrganizationActive, transferOrgRootAdmin, moveOwnership

(* A membership table in which one entry is new or changed.                *)
LEMMA OneMembership ==
  ASSUME AccessInv, MembersRegistered, NEW o \in OrgId, NEW a \in Address, NEW m,
         memberships' = [memberships EXCEPT ![o][a] = m], identities' = identities,
         m.role # NONE => identities[a].exists
  PROVE  MembersRegistered'
<1>1. \A o2 \in OrgId, b \in Address :
        memberships'[o2][b] = IF o2 = o /\ b = a THEN m ELSE memberships[o2][b]
  BY DEF AccessInv, AccessTypeOK
<1>2. QED
  BY <1>1 DEF MembersRegistered

LEMMA AccessTxStanding ==
  ASSUME StandingInv, NEW s \in Wallet, AccessTx(s)
  PROVE  OrganizationsSeated' /\ MembersRegistered'
<1> USE DEF StandingInv
<1>1. CASE RegistryTx(s) /\ UNCHANGED <<accessVars, now>>
  <2>1. RegistryTypeOK
    BY DEF AccessInv, AccessTypeOK
  <2>2. OrganizationsSeated'
    BY <1>1, <2>1, RegistryTxSeated
  <2>3. \A a \in Address : identities[a].exists => identities'[a].exists
    BY <1>1, <2>1, IdentitiesStay
  <2>4. QED
    BY <1>1, <2>2, <2>3 DEF MembersRegistered, accessVars, memberVars
<1>2. ASSUME UNCHANGED registryVars PROVE OrganizationsSeated'
  BY <1>2 DEF registryVars, OrganizationsSeated, organizationExists
<1>3. ASSUME NEW o \in OrgId, NEW a \in Address, NEW role \in RoleArgs, NEW e \in ExpiryArgs,
             addMember(s, o, a, role, e) \/ assignRole(s, o, a, role, e)
      PROVE  OrganizationsSeated' /\ MembersRegistered'
  BY <1>2, <1>3, OneMembership DEF addMember, assignRole, isActive, registryVars
<1>4. ASSUME NEW o \in OrgId, NEW a \in Address, NEW e \in ExpiryArgs, setRoleExpiry(s, o, a, e)
      PROVE  OrganizationsSeated' /\ MembersRegistered'
  <2> DEFINE m == [memberships[o][a] EXCEPT !.expiresAt = e]
  <2>1. memberships' = [memberships EXCEPT ![o][a] = m]
    BY <1>4 DEF setRoleExpiry, AccessInv, AccessTypeOK
  <2>2. m.role = memberships[o][a].role
    BY DEF AccessInv, AccessTypeOK, Membership
  <2>3. identities[a].exists
    BY <1>4 DEF setRoleExpiry, MembersRegistered
  <2>4. identities' = identities
    BY <1>4 DEF setRoleExpiry, registryVars
  <2> HIDE DEF m
  <2>5. MembersRegistered'
    BY <2>1, <2>3, <2>4, OneMembership
  <2>6. QED
    BY <1>2, <1>4, <2>5 DEF setRoleExpiry
<1>5. ASSUME NEW o \in OrgId, NEW a \in Address, removeMember(s, o, a)
      PROVE  OrganizationsSeated' /\ MembersRegistered'
  BY <1>2, <1>5, OneMembership DEF removeMember, NoMembership, registryVars
<1>6. CASE PolicyTx(s)
  <2>1. UNCHANGED <<registryVars, memberVars>>
    BY <1>6 DEF PolicyTx, setPermission, registerApplication, setAppAccess
  <2>2. QED
    BY <1>2, <2>1 DEF MembersRegistered, registryVars, memberVars
<1>7. CASE MembersTx(s)
  BY <1>3, <1>4, <1>5, <1>7 DEF MembersTx
<1>8. QED
  BY <1>1, <1>6, <1>7 DEF AccessTx

LEMMA StandingInvariant == AccessSpec => []StandingInv
<1>1. StandingInv /\ [AccessNext]_chainVars => OrganizationsSeated' /\ MembersRegistered'
  <2> SUFFICES ASSUME StandingInv, [AccessNext]_chainVars
               PROVE  OrganizationsSeated' /\ MembersRegistered'
    OBVIOUS
  <2>1. CASE \E s \in Wallet : AccessTx(s)
    BY <2>1, AccessTxStanding
  <2>2. CASE Tick \/ UNCHANGED chainVars
    BY <2>2 DEF Tick, chainVars, registryVars, accessVars, memberVars, StandingInv,
                OrganizationsSeated, organizationExists, MembersRegistered
  <2>3. QED
    BY <2>1, <2>2 DEF AccessNext
<1>2. QED
  BY <1>1, StandingInitInv, AccessInvariant, PTL DEF AccessSpec, StandingInv

(* The sender's own role stays as it is when it edits members: nobody may  *)
(* assign or remove themselves, whoever adds themselves has no membership  *)
(* and so acts from the seat, and a new expiry moves a membership that has *)
(* not lapsed.                                                             *)
LEMMA MembersTxKeepsRole ==
  ASSUME StandingInv, NEW s \in Wallet, MembersTx(s), NEW o \in OrgId
  PROVE  effectiveRole(o, s)' = effectiveRole(o, s)
<1> s \in Address
  BY DEF Address
<1>1. /\ isActive(s)' = isActive(s) /\ orgRootAdmin(o)' = orgRootAdmin(o) /\ now' = now
  BY DEF MembersTx, addMember, assignRole, setRoleExpiry, removeMember, registryVars, isActive,
         orgRootAdmin
<1>2. ASSUME NEW o2 \in OrgId, NEW a \in Address, NEW m,
             memberships' = [memberships EXCEPT ![o2][a] = m], ~(o2 = o /\ a = s)
      PROVE  effectiveRole(o, s)' = effectiveRole(o, s)
  <2>1. memberships'[o][s] = memberships[o][s]
    BY <1>2 DEF StandingInv, AccessInv, AccessTypeOK
  <2>2. QED
    BY <1>1, <2>1, SameStanding
<1>3. ASSUME NEW o2 \in OrgId, NEW a \in Address, NEW role \in RoleArgs, NEW e \in ExpiryArgs,
             addMember(s, o2, a, role, e)
      PROVE  effectiveRole(o, s)' = effectiveRole(o, s)
  <2>1. CASE o2 = o /\ a = s
    <3>1. effectiveRole(o, s) # NONE /\ memberships[o][s].role = NONE
      BY <1>3, <2>1 DEF addMember, hasPermission
    <3>2. QED
      BY <1>1, <3>1 DEF effectiveRole
  <2>2. QED
    BY <1>2, <1>3, <2>1 DEF addMember
<1>4. ASSUME NEW o2 \in OrgId, NEW a \in Address, NEW role \in RoleArgs, NEW e \in ExpiryArgs,
             assignRole(s, o2, a, role, e)
      PROVE  effectiveRole(o, s)' = effectiveRole(o, s)
  BY <1>2, <1>4 DEF assignRole
<1>5. ASSUME NEW o2 \in OrgId, NEW a \in Address, NEW e \in ExpiryArgs, setRoleExpiry(s, o2, a, e)
      PROVE  effectiveRole(o, s)' = effectiveRole(o, s)
  <2>1. PICK m : m = [memberships[o2][a] EXCEPT !.expiresAt = e]
    OBVIOUS
  <2>2. memberships' = [memberships EXCEPT ![o2][a] = m]
    BY <1>5, <2>1 DEF setRoleExpiry, StandingInv, AccessInv, AccessTypeOK
  <2>3. CASE o2 = o /\ a = s
    <3>1. memberships[o][s] \in Membership /\ memberships'[o][s] = m
      BY <2>2, <2>3 DEF StandingInv, AccessInv, AccessTypeOK
    <3>2. m.role = memberships[o][s].role /\ m.expiresAt = e
      BY <2>1, <2>3, <3>1 DEF Membership
    <3>3. effectiveRole(o, s) # NONE /\ orgRootAdmin(o) # s
      BY <1>5, <2>3 DEF setRoleExpiry, hasPermission
    <3>4. isActive(s) /\ ~lapsed(memberships[o][s])
      BY <3>3 DEF effectiveRole
    <3>5. ~lapsed(memberships[o][s])'
      BY <1>1, <1>5, <3>1, <3>2, ExpiryArgsBound
         DEF setRoleExpiry, futureExpiry, lapsed, StandingInv, AccessInv, AccessTypeOK
    <3>6. QED
      BY <1>1, <3>1, <3>2, <3>3, <3>4, <3>5 DEF effectiveRole
  <2>4. QED
    BY <1>2, <2>2, <2>3
<1>6. ASSUME NEW o2 \in OrgId, NEW a \in Address, removeMember(s, o2, a)
      PROVE  effectiveRole(o, s)' = effectiveRole(o, s)
  BY <1>2, <1>6 DEF removeMember
<1>7. QED
  BY <1>3, <1>4, <1>5, <1>6 DEF MembersTx

(* A registry transaction of somebody who is no registrar: registering     *)
(* gives no role, since nobody without an identity has a membership or a   *)
(* seat; the seat can be handed on but not taken; and whoever resumes an   *)
(* organization is its root admin or the platform owner.                   *)
LEMMA RegistryTxGivesNoRole ==
  ASSUME StandingInv, NEW s \in Wallet, ~isRegistrar[s], RegistryTx(s),
         UNCHANGED <<accessVars, now>>, NEW o \in OrgId, organizationExists(o)
  PROVE  /\ effectiveRole(o, s) # "ADMIN" => effectiveRole(o, s)' \in {effectiveRole(o, s), NONE}
         /\ \/ isOrganizationActive(o)' => isOrganizationActive(o)
            \/ s = owner
            \/ effectiveRole(o, s) \in {"ADMIN", NONE}
<1> USE DEF StandingInv, AccessInv, AccessTypeOK, RegistryTypeOK, Identity, Organization, Address
<1> DEFINE goal ==
      /\ effectiveRole(o, s) # "ADMIN" => effectiveRole(o, s)' \in {effectiveRole(o, s), NONE}
      /\ \/ isOrganizationActive(o)' => isOrganizationActive(o)
         \/ s = owner
         \/ effectiveRole(o, s) \in {"ADMIN", NONE}
<1>1. memberships'[o][s] = memberships[o][s] /\ now' = now
  BY DEF accessVars, memberVars
<1>2. ASSUME isActive(s)' = isActive(s), orgRootAdmin(o)' = orgRootAdmin(o),
             isOrganizationActive(o)' = isOrganizationActive(o)
      PROVE  goal
  BY <1>1, <1>2, SameStanding
<1>3. ASSUME NEW h \in Bytes32, registerIdentity(s, h)
      PROVE  goal
  <2>1. /\ ~identities[s].exists /\ UNCHANGED <<organizations, organizationCount>>
    BY <1>3 DEF registerIdentity, register
  <2>2. memberships[o][s].role = NONE /\ orgRootAdmin(o) # s
    BY <2>1 DEF MembersRegistered, OrganizationsSeated, orgRootAdmin
  <2>3. effectiveRole(o, s) = NONE /\ effectiveRole(o, s)' = NONE
    BY <1>1, <2>1, <2>2 DEF effectiveRole, isActive, orgRootAdmin
  <2>4. QED
    BY <2>3
<1>4. ASSUME NEW h \in Bytes32, updateIdentityHash(s, h)
      PROVE  goal
  <2>1. isActive(s)' = isActive(s)
    BY <1>4 DEF updateIdentityHash, isActive
  <2>2. QED
    BY <1>2, <1>4, <2>1
       DEF updateIdentityHash, orgRootAdmin, isOrganizationActive, organizationExists
<1>5. ASSUME NEW a \in Address, revokeIdentity(s, a)
      PROVE  goal
  <2>1. ~isActive(s)'
    BY <1>5 DEF revokeIdentity, isActive
  <2>2. QED
    BY <1>5, <2>1 DEF revokeIdentity, effectiveRole, isOrganizationActive, organizationExists
<1>6. ASSUME NEW h \in Bytes32, createOrganization(s, h)
      PROVE  goal
  <2>1. organizations'[o] = organizations[o] /\ organizationExists(o)'
    BY <1>6, OrgBound DEF createOrganization, organizationExists, OrgId
  <2>2. QED
    BY <1>2, <1>6, <2>1 DEF createOrganization, isActive, orgRootAdmin, isOrganizationActive
<1>7. ASSUME NEW o2 \in OrgId, NEW h \in Bytes32, updateOrganizationMetadata(s, o2, h)
      PROVE  goal
  <2>1. /\ organizations'[o].rootAdmin = organizations[o].rootAdmin
        /\ organizations'[o].active = organizations[o].active
    BY <1>7 DEF updateOrganizationMetadata
  <2>2. QED
    BY <1>2, <1>7, <2>1
       DEF updateOrganizationMetadata, isActive, orgRootAdmin, isOrganizationActive,
           organizationExists
<1>8. ASSUME NEW o2 \in OrgId, NEW active \in BOOLEAN, setOrganizationActive(s, o2, active)
      PROVE  goal
  <2>1. /\ organizations'[o].rootAdmin = organizations[o].rootAdmin
        /\ o2 # o => organizations'[o] = organizations[o]
    BY <1>8 DEF setOrganizationActive
  <2>2. CASE o2 = o
    <3>1. s = owner \/ effectiveRole(o, s) \in {"ADMIN", NONE}
      BY <1>8, <2>2 DEF setOrganizationActive, effectiveRole
    <3>2. effectiveRole(o, s)' = effectiveRole(o, s)
      BY <1>1, <1>8, <2>1, SameStanding DEF setOrganizationActive, isActive, orgRootAdmin
    <3>3. QED
      BY <3>1, <3>2
  <2>3. QED
    BY <1>2, <1>8, <2>1, <2>2
       DEF setOrganizationActive, isActive, orgRootAdmin, isOrganizationActive, organizationExists
<1>9. ASSUME NEW o2 \in OrgId, NEW a \in Address, transferOrgRootAdmin(s, o2, a)
      PROVE  goal
  <2>1. /\ organizations'[o].active = organizations[o].active
        /\ o2 # o => organizations'[o] = organizations[o]
    BY <1>9 DEF transferOrgRootAdmin
  <2>2. isOrganizationActive(o)' = isOrganizationActive(o) /\ isActive(s)' = isActive(s)
    BY <1>9, <2>1 DEF transferOrgRootAdmin, isOrganizationActive, organizationExists, isActive
  <2>3. CASE o2 = o
    BY <1>9, <2>2, <2>3 DEF transferOrgRootAdmin, effectiveRole
  <2>4. QED
    BY <1>2, <2>1, <2>2, <2>3 DEF orgRootAdmin
<1>10. ASSUME UNCHANGED <<identities, organizations, organizationCount>>
       PROVE  goal
  BY <1>2, <1>10 DEF isActive, orgRootAdmin, isOrganizationActive, organizationExists
<1>11. QED
  BY <1>3, <1>4, <1>5, <1>6, <1>7, <1>8, <1>9, <1>10
     DEF RegistryTx, setRegistrar, registerIdentityFor, reactivateIdentity, moveOwnership

(* What any transaction of a wallet that is no registrar leaves of its own *)
(* role, and what it needs to change what its role permits.                *)
LEMMA OwnTx ==
  ASSUME StandingInv, NEW s \in Wallet, ~isRegistrar[s], AccessTx(s), NEW o \in OrgId,
         organizationExists(o)
  PROVE  /\ effectiveRole(o, s) # "ADMIN" =>
              effectiveRole(o, s)' \in {effectiveRole(o, s), NONE} /\ overrides'[o] = overrides[o]
         /\ \/ isOrganizationActive(o)' => isOrganizationActive(o)
            \/ s = owner
            \/ effectiveRole(o, s) \in {"ADMIN", NONE}
<1>1. CASE MembersTx(s)
  <2>1. UNCHANGED <<registryVars, overrides>>
    BY <1>1 DEF MembersTx, addMember, assignRole, setRoleExpiry, removeMember
  <2>2. QED
    BY <1>1, <2>1, MembersTxKeepsRole DEF registryVars, isOrganizationActive, organizationExists
<1>2. CASE PolicyTx(s)
  <2>1. UNCHANGED <<registryVars, memberVars, now>>
    BY <1>2 DEF PolicyTx, setPermission, registerApplication, setAppAccess
  <2>2. effectiveRole(o, s)' = effectiveRole(o, s)
    BY <2>1, SameStanding DEF registryVars, memberVars, isActive, orgRootAdmin
  <2>3. effectiveRole(o, s) # "ADMIN" => overrides'[o] = overrides[o]
    BY <1>2 DEF PolicyTx, setPermission, registerApplication, setAppAccess, StandingInv, AccessInv,
                AccessTypeOK
  <2>4. QED
    BY <2>1, <2>2, <2>3 DEF registryVars, isOrganizationActive, organizationExists
<1>3. CASE RegistryTx(s) /\ UNCHANGED <<accessVars, now>>
  BY <1>3, RegistryTxGivesNoRole DEF accessVars
<1>4. QED
  BY <1>1, <1>2, <1>3 DEF AccessTx

(* Nobody promotes themselves: no transaction of a wallet that is neither  *)
(* registrar nor, where an organization is resumed, the platform owner,    *)
(* raises the wallet's own role or gives it a permission it lacked.        *)
THEOREM NobodyElevatesThemselves == AccessSpec => NoSelfElevation
<1>1. StandingInv /\ AccessInv' /\ [AccessNext]_chainVars =>
        [\A o \in OrgId, s \in Wallet :
           /\ organizationExists(o)
           /\ ~isRegistrar[s]
           /\ \/ roleRises(o, s)
              \/ effectiveRole(o, s) # "ADMIN" /\ s # owner /\ gainsPermission(o, s)
           => ~AccessTx(s)]_chainVars
  <2> SUFFICES ASSUME StandingInv, AccessInv', NEW o \in OrgId, NEW s \in Wallet,
                      organizationExists(o), ~isRegistrar[s], AccessTx(s)
               PROVE  /\ ~roleRises(o, s)
                      /\ effectiveRole(o, s) # "ADMIN" /\ s # owner => ~gainsPermission(o, s)
    OBVIOUS
  <2>1. PICK before, after : before = effectiveRole(o, s) /\ after = effectiveRole(o, s)'
    OBVIOUS
  <2>2. after \in Roles \cup {NONE}
    BY <2>1 DEF Address, AccessInv, AccessTypeOK, Membership, effectiveRole, Roles
  <2>3. before # "ADMIN" => after \in {before, NONE} /\ overrides'[o] = overrides[o]
    BY <2>1, OwnTx
  <2>4. ~roleRises(o, s)
    <3>1. ~(Rank(after) > Rank(before))
      BY <2>2, <2>3, RolesAreRanked, <2>1 DEF Rank, Roles, NONE, StandingInv, AccessInv, Address
    <3>2. QED
      BY <2>1, <3>1 DEF roleRises
  <2>5. ASSUME before # "ADMIN", s # owner PROVE ~gainsPermission(o, s)
    <3>1. CASE after = NONE
      BY <2>1, <3>1 DEF gainsPermission, hasPermission
    <3>2. CASE after = before /\ before # NONE
      <4>1. isOrganizationActive(o)' => isOrganizationActive(o)
        BY <2>1, <2>5, <3>2, OwnTx
      <4>2. QED
        BY <2>1, <2>3, <2>5, <3>2, <4>1 DEF gainsPermission, hasPermission
    <3>3. QED
      BY <2>3, <2>5, <3>1, <3>2
  <2>6. QED
    BY <2>1, <2>4, <2>5
<1>2. QED
  BY <1>1, StandingInvariant, AccessInvariant, PTL DEF AccessSpec, NoSelfElevation
=============================================================================
