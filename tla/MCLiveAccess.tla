------------------------------ MODULE MCLiveAccess ------------------------------
(* LiveAccess for TLC, from an organization that is set up: the subject is *)
(* a member with the role USER, and USER may use the application.          *)
EXTENDS LiveAccess, TLC

CONSTANTS root, employee, h

NoOverrides == {}

member == [role |-> "USER", expiresAt |-> 0]

MCLiveInit ==
  /\ identities = [a \in Address |->
       IF a \in Wallet THEN [identityHash |-> h, exists |-> TRUE, active |-> TRUE]
                       ELSE BlankIdentity]
  /\ isRegistrar = [a \in Address |-> a = Deployer]
  /\ organizations = [o \in OrgId |->
       IF o = Org THEN [metadataHash |-> h, rootAdmin |-> root, active |-> TRUE]
                  ELSE BlankOrganization]
  /\ organizationCount = 1
  /\ owner = Deployer
  /\ \E e \in ExpiryArgs :
       memberships = [o \in OrgId |-> [a \in Address |->
         IF o = Org /\ a = employee THEN [member EXCEPT !.expiresAt = e] ELSE NoMembership]]
  /\ memberList = [o \in OrgId |-> IF o = Org THEN <<employee>> ELSE <<>>]
  /\ memberIndex = [o \in OrgId |-> [a \in Address |-> 0]]
  /\ overrides = [o \in OrgId |-> [r \in Roles |-> [p \in Permissions |-> "Unset"]]]
  /\ applicationMetadata = [o \in OrgId |-> [p \in Application |-> IF o = Org THEN h ELSE NoHash]]
  /\ applicationRegistered = [o \in OrgId |-> [p \in Application |-> o = Org]]
  /\ appRoleAccess = [o \in OrgId |-> [p \in Application |-> [r \in Roles |-> o = Org /\ r \in {"USER", "ADMIN"}]]]
  /\ now = 1
  /\ notStarted

MCLiveSpec == MCLiveInit /\ [][LiveNext]_<<chainVars, liveVars>>
=============================================================================
