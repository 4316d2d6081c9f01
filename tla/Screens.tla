--------------------------------- MODULE Screens --------------------------------
(***************************************************************************)
(* What the console shows of an organization and what it lets its user     *)
(* sign: the server's reads of the chain, its refusals, the panels these   *)
(* turn into, and the rows, cells, cards and forms of the members, roles,  *)
(* applications, audit, overview and identity screens.                     *)
(*                                                                         *)
(* Nothing here has state. Every definition is a function of the chain at  *)
(* the moment the server reads it, so a page that is out of date is one    *)
(* evaluated in an earlier state; when that may be is the subject of       *)
(* Console. Here the tables, guards and texts of the screens are compared  *)
(* with the contract's. The browser's and the server's clock agree with    *)
(* the block's.                                                            *)
(***************************************************************************)
EXTENDS Refusals

first(S) == CHOOSE n \in S : \A m \in S : n <= m

-----------------------------------------------------------------------------
(* The session the console works with: identity, live memberships, and the *)
(* role and permissions in the first organization of these.                *)

readMemberships(w) == {o \in 1..organizationCount : effectiveRole(o, w) # NONE}

readPermissionsFor(o, w) == {p \in Permissions : hasPermission(o, w, p)}

session(w) ==
  LET orgs == readMemberships(w)
      o    == IF orgs = {} THEN 0 ELSE first(orgs)
  IN  [wallet |-> w, registered |-> identities[w].exists, active |-> isActive(w),
       activeOrgId |-> o,
       role |-> IF o = 0 THEN NONE ELSE effectiveRole(o, w),
       permissions |-> IF o = 0 THEN {} ELSE readPermissionsFor(o, w)]

(* The panel an organization screen shows instead of loading anything. (A  *)
(* wallet on another chain has a panel of its own before these two.)       *)
gate(me) ==
  IF me.registered /\ ~me.active THEN "Revoked"
  ELSE IF me.activeOrgId = 0 THEN "NoOrganisation" ELSE "none"

-----------------------------------------------------------------------------
(* The server's refusals and the panels the console makes of them.         *)

requireActiveIdentity(w) ==
  IF ~identities[w].exists THEN "unregistered"
  ELSE IF ~isActive(w) THEN "revoked" ELSE "none"

requireMember_roleOnly(o, w) == \* mutant: the role stands for the whole check
  IF effectiveRole(o, w) = NONE THEN "notMember" ELSE "none"

requireMember(o, w) ==
  IF requireActiveIdentity(w) # "none" THEN requireActiveIdentity(w)
  ELSE IF effectiveRole(o, w) = NONE THEN "notMember" ELSE "none"

requirePermission(o, w, p) ==
  IF requireActiveIdentity(w) # "none" THEN requireActiveIdentity(w)
  ELSE IF hasPermission(o, w, p) THEN "none" ELSE "denied"

ApiErrorPanel(refusal) ==
  CASE refusal = "none" -> "none"
    [] refusal = "revoked" -> "Revoked"
    [] refusal = "notMember" -> "NoOrganisation"
    [] refusal \in {"unregistered", "denied"} -> "Denied"

(* What the panels tell their reader. Revoked: nothing in any organization *)
(* is left of the wallet's. NoOrganisation, behind the gate: the wallet    *)
(* has a valid identity, no membership, and may found an organization.     *)
(* Denied: an override of this permission for this role would help.        *)
RevokedPanel(w) ==
  \A o \in 1..organizationCount :
    /\ effectiveRole(o, w) = NONE /\ readPermissionsFor(o, w) = {}
    /\ \A app \in Application : ~canAccessApp(o, w, app)

NoOrganisationPanel(w) ==
  /\ isActive(w) /\ readMemberships(w) = {}
  /\ organizationCount < MaxOrganizations => \E h \in Hash : ENABLED createOrganization(w, h)

DeniedPanel(role, p) == [role |-> role, permission |-> p, target |-> "Allowed"]

(* "Every permission below currently answers false": beside the content.   *)
SuspendedNotice(o) == ~organizations[o].active

canEdit(me) == me.role = "ADMIN"

(* What a screen of organization o shows instead of its content.           *)
panel(me, o) == IF gate(me) # "none" THEN gate(me) ELSE ApiErrorPanel(requireMember(o, me.wallet))

(* The sync is offered beside everything but a refusal.                    *)
AuditTrail(o, w) ==
  LET refusal == requirePermission(o, w, "VIEW_AUDIT") IN
  [panel |-> ApiErrorPanel(refusal), sync |-> refusal = "none"]

-----------------------------------------------------------------------------
(* Members. The root admin holds its seat without being listed, so the     *)
(* roster puts it in front when the contract's list lacks it.              *)

readOrgMembers_listed(o) == memberList[o] \* mutant: the contract's list is the roster

readOrgMembers(o) ==
  LET listed == {memberList[o][i] : i \in 1..Len(memberList[o])} IN
  IF orgRootAdmin(o) \in listed \cup {Zero} THEN memberList[o]
  ELSE <<orgRootAdmin(o)>> \o memberList[o]

VerificationBadge(w) ==
  IF ~identities[w].exists THEN "unverified"
  ELSE IF isActive(w) THEN "verified" ELSE "revoked"

expired(o, w) == memberships[o][w].expiresAt # 0 /\ memberships[o][w].expiresAt <= now

OrgMember(o, w) ==
  [wallet |-> w, role |-> effectiveRole(o, w), storedRole |-> memberships[o][w].role,
   expired |-> expired(o, w), isRootAdmin |-> orgRootAdmin(o) = w,
   identity |-> VerificationBadge(w)]

MembersScreen(me, o) ==
  [panel |-> panel(me, o), suspended |-> SuspendedNotice(o), add |-> canEdit(me),
   members |-> {OrgMember(o, readOrgMembers(o)[i]) : i \in 1..Len(readOrgMembers(o))}]

(* A row: "was X" under the role, what the other columns say of the cause, *)
(* and the two controls an ADMIN gets.                                     *)
MemberRow(me, row) ==
  [was |-> row.storedRole # NONE /\ row.role # row.storedRole,
   explained |-> row.expired \/ row.identity # "verified" \/ row.isRootAdmin,
   change |-> me.role = "ADMIN" /\ ~row.isRootAdmin,
   remove |-> me.role = "ADMIN" /\ ~row.isRootAdmin /\ row.wallet # me.wallet]

(* What the dialogs let their user sign, and what the note of each says    *)
(* the contract may refuse.                                                *)
expiryFuture(e) == e = 0 \/ e > now

AddMemberModal(screen, o, a, role, e) ==
  [submit |-> screen.add /\ role \in Roles /\ expiryFuture(e),
   note |-> ~isActive(a) \/ memberships[o][a].role # NONE]

ChangeRoleForm(me, row, role, e) ==
  LET current == IF row.storedRole # NONE THEN row.storedRole ELSE row.role IN
  [submit |-> /\ MemberRow(me, row).change
              /\ role \in Roles /\ expiryFuture(e)
              /\ role # current \/ e # 0,
   note |-> row.wallet = me.wallet \/ row.isRootAdmin \/ row.identity # "verified"]

RemoveMemberModal(me, row) ==
  [submit |-> MemberRow(me, row).remove,
   note |-> row.wallet = me.wallet \/ row.isRootAdmin]

-----------------------------------------------------------------------------
(* Roles: the matrix, tri-state, and the override dialog.                  *)

matrixCell(o, role, p) ==
  [role |-> role, permission |-> p, default |-> defaultPermission(role, p),
   override |-> overrides[o][role][p],
   effective |-> \/ overrides[o][role][p] = "Allowed"
                 \/ overrides[o][role][p] = "Unset" /\ defaultPermission(role, p)]

RolesScreen(me, o) ==
  [panel |-> panel(me, o), suspended |-> SuspendedNotice(o), edit |-> canEdit(me)]

(* The table, the panel beside it that explains one of its cells, and the  *)
(* list of overrides below.                                                *)
MatrixButton(cell) == [mark |-> cell.effective, ring |-> cell.override # "Unset"]

matrixTable(o) == [x \in Roles \X Permissions |-> MatrixButton(matrixCell(o, x[1], x[2]))]

overridesList(o) == {x \in Roles \X Permissions : matrixTable(o)[x].ring}

isLocked_roles(role, p) == role = "ADMIN" /\ p = "ASSIGN_ROLES" \* mutant: one of the two

isLocked(role, p) == role = "ADMIN" /\ p \in {"MANAGE_MEMBERS", "ASSIGN_ROLES"}

CellDetail(me, cell) ==
  [today |-> cell.effective, locked |-> isLocked(cell.role, cell.permission),
   change |-> canEdit(me)]

(* "Those two cells are permanently allowed."                              *)
lockoutGuard == {x \in Roles \X Permissions : isLocked(x[1], x[2])}

OverrideModal(me, cell, target) ==
  [wouldBe |-> IF target = "Unset" THEN cell.default ELSE target = "Allowed",
   submit |-> /\ CellDetail(me, cell).change
              /\ ~(isLocked(cell.role, cell.permission) /\ target = "Denied")
              /\ target # cell.override]

-----------------------------------------------------------------------------
(* Applications. A row of the registry has a status, callbacks and a       *)
(* secret; which roles may sign in is read from the chain.                 *)

AppRow == [status : {"draft", "active", "revoked"}, callbacks : BOOLEAN, secret : BOOLEAN]

rolesAllowedOnChain(o, app) == {r \in Roles : appRoleAccess[o][app][r]}

(* The five steps to an active integration: whether each is done and what  *)
(* it asks an admin to do if it is not.                                    *)
integrationSteps(o, app, row) ==
  LET revoked    == row.status = "revoked"
      registered == applicationRegistered[o][app] /\ ~revoked
      callback   == registered /\ row.callbacks
      secret     == callback /\ row.secret
  IN  <<[done |-> TRUE, todo |-> "nothing"],
        [done |-> registered, todo |-> "registerApplication"],
        [done |-> callback, todo |-> "callback URL"],
        [done |-> secret, todo |-> "client secret"],
        [done |-> secret /\ rolesAllowedOnChain(o, app) # {},
         todo |-> IF revoked THEN "restore" ELSE "setAppAccess"]>>

Stages == <<"draft", "registered", "callback", "secret", "active">>

integrationStage(steps) ==
  Stages[CHOOSE i \in 1..5 : /\ \A j \in 1..i : steps[j].done
                             /\ i < 5 => ~steps[i + 1].done]

(* "Next": what the first step asks for that is missing.                   *)
StagePipeline(steps) ==
  LET missing == {i \in 1..5 : ~steps[i].done} IN
  IF missing = {} THEN "nothing" ELSE steps[first(missing)].todo

AppCard(me, o, app) ==
  [callerHasAccess |-> me.role \in rolesAllowedOnChain(o, app),
   toggles |-> "MANAGE_APPS" \in me.permissions /\ applicationRegistered[o][app]]

ApplicationsScreen(me, o) ==
  [panel |-> panel(me, o), register |-> "MANAGE_APPS" \in me.permissions,
   credentials |-> me.role = "ADMIN"]

(* The buttons of a card under its roles.                                  *)
AppControls(me, row) ==
  IF "MANAGE_APPS" \notin me.permissions THEN {}
  ELSE {IF row.secret THEN "Rotate secret" ELSE "Generate secret",
        IF row.status = "revoked" THEN "Restore integration" ELSE "Revoke integration"}

(* A registration, its text fields filled in: some role has to be chosen,  *)
(* "or nobody will be able to sign in", and the slug has to be free.       *)
RegisterAppModal(me, o, app, roles) ==
  [submit |-> /\ ApplicationsScreen(me, o).register
              /\ roles # {} /\ ~applicationRegistered[o][app],
   nobody |-> roles = {}]

-----------------------------------------------------------------------------
(* Overview, identity and onboarding.                                      *)

Overview(me) == IF me.role \in {"ADMIN", "MANAGER", "AUDITOR"} THEN "admin" ELSE "user"

(* The links of the administrator's overview, by the permission they need. *)
AdminOverview(me) ==
  {p \in {"MANAGE_MEMBERS", "MINT_ASSETS"} : Overview(me) = "admin" /\ p \in me.permissions}

IdentityPage(me) == [badge |-> VerificationBadge(me.wallet), onboarding |-> ~me.registered]

(* Onboarding, which no gate precedes, offers both paths to whoever is not *)
(* through with it. The call an identity is anchored with is the server's  *)
(* nextStep; the organization is the second of two steps.                  *)
Onboarding(me) == IF me.registered /\ me.activeOrgId # 0 THEN "already set up" ELSE "Which are you?"

IndividualFlow(me) == IF me.registered THEN "updateIdentityHash" ELSE "registerIdentity"

OrganisationFlow(me) == [stepOneComplete |-> me.registered, create |-> me.registered]

(* What the two flows promise in the end. "Give them this address": an     *)
(* admin adds the wallet with a call of their own. "You are its root admin *)
(* ... The permission matrix already works with no configuration."         *)
addedByAddress(w) ==
  \A o \in 1..organizationCount :
    isOrganizationActive(o) /\ isActive(orgRootAdmin(o)) /\ memberships[o][w].role = NONE =>
      addMemberReverts(orgRootAdmin(o), o, w, "USER", 0) = "none"

createdOrganisation(o) ==
  LET me == session(orgRootAdmin(o)) IN
  me.active /\ isOrganizationActive(o) =>
    /\ effectiveRole(o, me.wallet) = "ADMIN"
    /\ overridesList(o) = {} =>
         readPermissionsFor(o, me.wallet) = {p \in Permissions : defaultPermission("ADMIN", p)}

-----------------------------------------------------------------------------
(* Correctness.                                                            *)

(* The roster shows everybody who has a role in the organization, once,    *)
(* the seat that is on no list included; and no row shows a lost or a      *)
(* changed role without the badge that explains it.                        *)
RosterExact ==
  \A o \in 1..organizationCount :
    LET roster == readOrgMembers(o) IN
    /\ \A i, j \in 1..Len(roster) : roster[i] = roster[j] => i = j
    /\ \A w \in Wallet : effectiveRole(o, w) # NONE => \E i \in 1..Len(roster) : roster[i] = w
    /\ \A i \in 1..Len(roster) :
         LET row == OrgMember(o, roster[i]) IN
         row.role = NONE \/ row.storedRole \notin {NONE, row.role} =>
           row.expired \/ row.identity # "verified" \/ row.isRootAdmin

(* The screens say what the contract answers. A refusal is explained by    *)
(* its cause, whatever an older session made the page ask for: a revoked   *)
(* identity as that and not as the missing membership it entails, a        *)
(* membership that ended as that, a missing permission as a denial; what   *)
(* the panels say besides is so, and an override does help who is denied.  *)
(*   While the organization is not suspended, the holder of a role may do  *)
(* exactly what the role's row of the matrix says and use exactly the      *)
(* applications whose card says so; while it is, nobody may do anything.   *)
(* The cells that are called permanently allowed are allowed. The override *)
(* dialog forecasts from the values the matrix shows, and a pipeline reads *)
(* active just when nothing is missing.                                    *)
(*   What the pipeline of an integration that is not revoked asks for next *)
(* the screen has a control for: the form for a new application, or the    *)
(* button of the card. (Not for a callback URL. And of a revoked one it    *)
(* asks for the registration, which there may be already; its text for     *)
(* "restore" is never the next one, the card's button is.)                 *)
namesTheCause(o, w) ==
  /\ ApiErrorPanel(requireMember(o, w)) =
       IF ~isActive(w) THEN "Revoked"
       ELSE IF o \in readMemberships(w) THEN "none" ELSE "NoOrganisation"
  /\ AuditTrail(o, w).panel =
       IF ~isActive(w) THEN "Revoked"
       ELSE IF "VIEW_AUDIT" \in readPermissionsFor(o, w) THEN "none" ELSE "Denied"

panelsHold(w) ==
  LET me == session(w) IN
  /\ gate(me) = "Revoked" => RevokedPanel(w)
  /\ gate(me) = "NoOrganisation" /\ me.registered => NoOrganisationPanel(w)

overrideHelps(o, w) ==
  LET denied == DeniedPanel(effectiveRole(o, w), "VIEW_AUDIT") IN
  AuditTrail(o, w).panel = "Denied" /\ denied.role # NONE /\ isOrganizationActive(o) =>
    \A a \in Wallet :
      LET admin == session(a)
          form  == OverrideModal(admin, matrixCell(o, denied.role, denied.permission), denied.target)
      IN  admin.activeOrgId = o /\ admin.role = "ADMIN" => form.submit /\ form.wouldBe

answersHold(me, o) ==
  /\ \A p \in Permissions : matrixTable(o)[<<me.role, p>>].mark <=> p \in me.permissions
  /\ \A app \in Application :
       AppCard(me, o, app).callerHasAccess <=> canAccessApp(o, me.wallet, app)

matrixHolds(o) ==
  LET me == session(Deployer) IN
  /\ \A x \in lockoutGuard : matrixTable(o)[x].mark
  /\ \A role \in Roles, p \in Permissions :
       LET cell == matrixCell(o, role, p) IN
       OverrideModal(me, cell, cell.override).wouldBe = CellDetail(me, cell).today

pipelineHolds(o, app, row) ==
  LET steps == integrationSteps(o, app, row) IN
  /\ integrationStage(steps) = "active" <=> StagePipeline(steps) = "nothing"
  /\ integrationStage(steps) = "draft" /\ row.status # "revoked" =>
       \A w \in Wallet : ~canAccessApp(o, w, app)

nextIsOffered(me, o, app, row) ==
  LET next == StagePipeline(integrationSteps(o, app, row)) IN
  CASE next = "registerApplication" -> RegisterAppModal(me, o, app, {"USER"}).submit
    [] next = "client secret" -> "Generate secret" \in AppControls(me, row)
    [] next = "setAppAccess" -> AppCard(me, o, app).toggles
    [] OTHER -> next \in {"nothing", "callback URL"}

ShownIsApplied ==
  /\ \A w \in Wallet : panelsHold(w)
  /\ \A o \in 1..organizationCount :
       /\ \A w \in Wallet :
            LET me == session(w) IN
            /\ identities[w].exists => namesTheCause(o, w) /\ overrideHelps(o, w)
            /\ me.activeOrgId = o => RolesScreen(me, o).panel = "none"
            /\ me.activeOrgId = o /\ "MANAGE_APPS" \in me.permissions =>
                 \A app \in Application, row \in AppRow :
                   IF row.status = "revoked" THEN "Restore integration" \in AppControls(me, row)
                   ELSE nextIsOffered(me, o, app, row)
            /\ IF SuspendedNotice(o) THEN readPermissionsFor(o, w) = {}
               ELSE me.activeOrgId = o => answersHold(me, o)
       /\ matrixHolds(o)
       /\ \A app \in Application, row \in AppRow : pipelineHolds(o, app, row)

(* What a form lets its user sign, the contract accepts, unless the page   *)
(* said that it would not: the organization is suspended, or the note of   *)
(* the dialog names the rule the call breaks. A new application starts     *)
(* with nobody let in. The identity page asks for a registration just when *)
(* one is accepted, the overview links only to what the wallet may really  *)
(* do, and onboarding, to a wallet that is not revoked, offers calls that  *)
(* are accepted and promises what is so.                                   *)
(*   And when the contract does refuse, the error it names is one that has *)
(* an explanation, and the call this sends its reader to instead is not    *)
(* refused as well, with the permission it needs: a member that cannot be  *)
(* added can be changed, and one that has no role to change can be added.  *)
membersFormsHold(w, o) ==
  LET me     == session(w)
      screen == MembersScreen(me, o)
  IN
  \A role \in RoleArgs, e \in ExpiryArgs \cup {0} :
    /\ \A a \in Address :
         LET add == AddMemberModal(screen, o, a, role, e) IN
         add.submit /\ ~add.note => ENABLED addMember(w, o, a, role, e)
    /\ \A row \in screen.members :
         LET change == ChangeRoleForm(me, row, role, e) IN
         change.submit /\ ~change.note => ENABLED assignRole(w, o, row.wallet, role, e)

removalsHold(w, o) ==
  LET me == session(w) IN
  \A row \in MembersScreen(me, o).members :
    LET remove == RemoveMemberModal(me, row) IN
    remove.submit /\ ~remove.note => ENABLED removeMember(w, o, row.wallet)

policyFormsHold(w, o) ==
  LET me == session(w) IN
  /\ \A x \in OverrideArgs, target \in Override :
       OverrideModal(me, matrixCell(o, x[1], x[2]), target).submit =>
         ENABLED setPermission(w, o, x[1], x[2], target)
  /\ \A app \in Application, role \in Roles, allowed \in BOOLEAN :
       AppCard(me, o, app).toggles => ENABLED setAppAccess(w, o, app, role, allowed)
  /\ \A app \in Application, h \in Hash :
       (\E roles \in SUBSET Roles : RegisterAppModal(me, o, app, roles).submit) =>
         /\ ENABLED registerApplication(w, o, app, h)
         /\ RegisterAppModal(me, o, app, rolesAllowedOnChain(o, app)).nobody

adviceHelps(w, o) ==
  /\ \A a \in Address :
       LET add    == decodeFailure(addMemberReverts(w, o, a, "USER", 0))
           change == decodeFailure(assignRoleReverts(w, o, a, "USER", 0))
           remove == decodeFailure(removeMemberReverts(w, o, a))
           mayBe(x) == isActive(a) /\ hasPermission(o, w, x)
       IN
       /\ add.errorName = "none" <=> ENABLED addMember(w, o, a, "USER", 0)
       /\ change.errorName = "none" <=> ENABLED assignRole(w, o, a, "USER", 0)
       /\ remove.errorName = "none" <=> ENABLED removeMember(w, o, a)
       /\ add.advice = "assignRole" /\ mayBe("ASSIGN_ROLES") =>
            change.errorName \in {"none", "CannotTargetSelf", "CannotModifyRootAdmin"}
       /\ "no role to change" \in {change.advice, remove.advice} /\ mayBe("MANAGE_MEMBERS") => add.errorName = "none"
       /\ add.advice = "reinstate" => \E s \in Wallet : ENABLED setOrganizationActive(s, o, TRUE)
  /\ \A app \in Application, h \in Hash :
       decodeFailure(registerApplicationReverts(w, o, app, h)).advice = "setAppAccess" =>
         ENABLED setAppAccess(w, o, app, "USER", TRUE)
  /\ \A x \in OverrideArgs, state \in Override :
       decodeFailure(setPermissionReverts(w, o, x[1], x[2], state)).advice = "nothing" => isLocked(x[1], x[2])

onboardingHolds(w) ==
  LET me == session(w) IN
  /\ Onboarding(me) = "already set up" => gate(me) = "none"
  /\ IdentityPage(me).badge # "revoked" =>
       /\ CASE IndividualFlow(me) = "registerIdentity"   -> \E h \in Hash : ENABLED registerIdentity(w, h)
            [] IndividualFlow(me) = "updateIdentityHash" -> \E h \in Hash : ENABLED updateIdentityHash(w, h)
       /\ OrganisationFlow(me).create /\ organizationCount < MaxOrganizations =>
            \E h \in Hash : ENABLED createOrganization(w, h)
  /\ me.active => addedByAddress(w)

RefusalsAreAnnounced ==
  /\ \A o \in 1..organizationCount : createdOrganisation(o)
  /\ \A w \in Wallet :
       LET me == session(w) IN
       /\ onboardingHolds(w)
       /\ IdentityPage(me).onboarding <=> \E h \in Hash : ENABLED registerIdentity(w, h)
       /\ \A o \in 1..organizationCount :
            me.activeOrgId = o =>
              /\ adviceHelps(w, o)
              /\ \A p \in AdminOverview(me) : hasPermission(o, w, p)
              /\ gate(me) = "none" /\ ~SuspendedNotice(o) =>
                   membersFormsHold(w, o) /\ removalsHold(w, o) /\ policyFormsHold(w, o)
=============================================================================
