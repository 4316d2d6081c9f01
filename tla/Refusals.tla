-------------------------------- MODULE Refusals --------------------------------
(***************************************************************************)
(* Why the contract refuses what the console sends, and what the console   *)
(* tells its user to do about it (lib/tx-errors.ts). A call checks its     *)
(* arguments in an order, and the first check that fails names the error;  *)
(* the actions of OrgAccessManager only know whether one does.             *)
(***************************************************************************)
EXTENDS OrgAccessManager

(* A check is a condition that must not hold and the error it is reverted  *)
(* with.                                                                   *)
failing(checks) == {i \in DOMAIN checks : checks[i][1]}

revert(checks) ==
  LET hit == failing(checks) IN
  IF hit = {} THEN "none" ELSE checks[CHOOSE i \in hit : \A j \in hit : i <= j][2]

_requireActiveOrg(o) ==
  <<<<~organizationExists(o), "OrganizationNotFound">>,
    <<~isOrganizationActive(o), "OrganizationSuspended">>>>

_requirePermission(o, s, p) == <<<<~hasPermission(o, s, p), "MissingPermission">>>>

_requireFutureExpiry(e) == <<<<~futureExpiry(e), "ExpiryInPast">>>>

notSelfNorRoot(o, s, a) ==
  <<<<a = s, "CannotTargetSelf">>, <<a = orgRootAdmin(o), "CannotModifyRootAdmin">>>>

addMemberReverts(s, o, a, role, e) ==
  revert(_requireActiveOrg(o) \o _requirePermission(o, s, "MANAGE_MEMBERS") \o
         <<<<a = Zero, "ZeroAddress">>, <<~isValidRole(role), "InvalidRole">>,
           <<~isActive(a), "IdentityNotActive">>,
           <<memberships[o][a].role # NONE, "AlreadyMember">>>> \o _requireFutureExpiry(e))

assignRoleReverts(s, o, a, role, e) ==
  revert(_requireActiveOrg(o) \o _requirePermission(o, s, "ASSIGN_ROLES") \o notSelfNorRoot(o, s, a) \o
         <<<<~isValidRole(role), "InvalidRole">>, <<~isActive(a), "IdentityNotActive">>>> \o
         _requireFutureExpiry(e) \o <<<<memberships[o][a].role = NONE, "NotMember">>>>)

removeMemberReverts(s, o, a) ==
  revert(_requireActiveOrg(o) \o _requirePermission(o, s, "MANAGE_MEMBERS") \o notSelfNorRoot(o, s, a) \o
         <<<<memberships[o][a].role = NONE, "NotMember">>>>)

setPermissionReverts(s, o, role, p, state) ==
  revert(_requireActiveOrg(o) \o
         <<<<effectiveRole(o, s) # "ADMIN", "MissingPermission">>, <<~isValidRole(role), "InvalidRole">>,
           <<role = "ADMIN" /\ p \in {"ASSIGN_ROLES", "MANAGE_MEMBERS"} /\ state = "Denied",
             "CannotDisableAdminGovernance">>>>)

registerApplicationReverts(s, o, app, hash) ==
  revert(_requireActiveOrg(o) \o _requirePermission(o, s, "MANAGE_APPS") \o
         <<<<hash = NoHash, "EmptyHash">>,
           <<applicationRegistered[o][app], "ApplicationAlreadyRegistered">>>>)

(* What the explanation of an error says to its reader: a call that will   *)
(* do instead, who must act first, or what is wrong with the input.        *)
EXPLANATIONS ==
  [AlreadyMember |-> "assignRole", NotMember |-> "no role to change",
   CannotTargetSelf |-> "another admin", CannotModifyRootAdmin |-> "transferOrgRootAdmin",
   IdentityNotActive |-> "a live identity", OrganizationSuspended |-> "reinstate",
   ApplicationAlreadyRegistered |-> "setAppAccess",
   MissingPermission |-> "a role", CannotDisableAdminGovernance |-> "nothing",
   ExpiryInPast |-> "the form", InvalidRole |-> "the form", ZeroAddress |-> "the form",
   EmptyHash |-> "the form", OrganizationNotFound |-> "nothing"]

(* An error without an explanation is shown by its name.                   *)
decodeFailure(error) ==
  [errorName |-> error,
   advice |-> IF error \in DOMAIN EXPLANATIONS THEN EXPLANATIONS[error] ELSE "the name"]
=============================================================================
