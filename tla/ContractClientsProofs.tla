-------------------------- MODULE ContractClientsProofs --------------------------
(***************************************************************************)
(* Theorems about those the contracts serve, for any number of wallets,    *)
(* organizations, memberships, certificates, flows and transactions: the   *)
(* console's members screen (Screens), the server's evaluation of live     *)
(* access (LiveAccess), the certificates, however deeply mints nest in     *)
(* callbacks (AssetNFT), and the mirrored records of profiles and          *)
(* organizations (Records).                                                *)
(***************************************************************************)
EXTENDS Screens, LiveAccess, AssetNFT, Records, OrgAccessManagerProofs, FiniteSetTheorems

-----------------------------------------------------------------------------
(* The members screen: its roster is exact because the contract's member   *)
(* list is.                                                                *)

(* The roster is the member list, or the list with the seat in front of it *)
(* when it is taken and not listed.                                        *)
LEMMA RosterShape ==
  ASSUME NEW o \in OrgId, memberList[o] \in Seq(Address), NEW root, root = orgRootAdmin(o),
         NEW roster, roster = readOrgMembers(o)
  PROVE  \/ /\ roster = memberList[o]
            /\ root = Zero \/ \E i \in 1..Len(memberList[o]) : memberList[o][i] = root
         \/ /\ \A i \in 1..Len(memberList[o]) : memberList[o][i] # root
            /\ root # Zero
            /\ Len(roster) = Len(memberList[o]) + 1 /\ roster[1] = root
            /\ \A i \in 2..Len(roster) : roster[i] = memberList[o][i - 1]
<1> DEFINE list == memberList[o]
           listed == {list[i] : i \in 1..Len(list)}
<1>1. CASE root \in listed \cup {Zero}
  BY <1>1 DEF readOrgMembers
<1>2. CASE root \notin listed \cup {Zero}
  <2>1. roster = <<root>> \o list
    BY <1>2 DEF readOrgMembers
  <2>2. /\ Len(roster) = Len(list) + 1 /\ roster[1] = root
        /\ \A i \in 2..Len(roster) : roster[i] = list[i - 1]
    BY <2>1
  <2>3. \A i \in 1..Len(list) : list[i] # root
    BY <1>2
  <2> QED
    BY <1>2, <2>2, <2>3
<1> QED
  BY <1>1, <1>2

(* Nobody is on it twice.                                                  *)
LEMMA RosterHasNoDuplicates ==
  ASSUME AccessInv, NEW o \in OrgId, NEW roster, roster = readOrgMembers(o),
         NEW i \in 1..Len(roster), NEW j \in 1..Len(roster), roster[i] = roster[j]
  PROVE  i = j
<1> DEFINE list == memberList[o]
<1>1. list \in Seq(Address) /\ Len(list) \in Nat
  BY DEF AccessInv, AccessTypeOK
<1>2. ASSUME NEW k \in 1..Len(list), NEW l \in 1..Len(list), list[k] = list[l]
      PROVE  k = l
  <2>1. memberIndex[o][list[k]] = k - 1 /\ memberIndex[o][list[l]] = l - 1
    BY DEF AccessInv, MemberListExact
  <2> QED
    BY <1>2, <2>1
<1>3. CASE roster = list
  BY <1>2, <1>3
<1>4. CASE /\ \A k \in 1..Len(list) : list[k] # orgRootAdmin(o)
           /\ Len(roster) = Len(list) + 1 /\ roster[1] = orgRootAdmin(o)
           /\ \A k \in 2..Len(roster) : roster[k] = list[k - 1]
  <2>1. CASE i = 1 \/ j = 1
    BY <1>1, <1>4, <2>1
  <2>2. CASE i # 1 /\ j # 1
    <3>1. /\ i - 1 \in 1..Len(list) /\ j - 1 \in 1..Len(list)
          /\ list[i - 1] = list[j - 1]
      BY <1>1, <1>4, <2>2
    <3>2. i - 1 = j - 1
      BY <1>2, <3>1
    <3> QED
      BY <3>2
  <2> QED
    BY <2>1, <2>2
<1> QED
  BY <1>1, <1>3, <1>4, RosterShape

(* Everybody with a role is on it: whoever has one holds the seat or a     *)
(* membership that is listed at its index.                                 *)
LEMMA RosterHasEveryRole ==
  ASSUME AccessInv, NEW o \in OrgId, NEW w \in Wallet, effectiveRole(o, w) # NONE,
         NEW roster, roster = readOrgMembers(o)
  PROVE  \E i \in 1..Len(roster) : roster[i] = w
<1> DEFINE list == memberList[o]
<1>1. /\ list \in Seq(Address) /\ Len(list) \in Nat
      /\ memberIndex[o] \in [Address -> Nat]
  BY DEF AccessInv, AccessTypeOK
<1>0. w \in Address /\ w # Zero
  BY WalletAssumption DEF WalletAssumption, Address
<1>2. orgRootAdmin(o) = w \/ \E i \in 1..Len(list) : list[i] = w
  <2>1. CASE orgRootAdmin(o) # w
    <3>1. memberships[o][w].role # NONE
      BY <2>1 DEF effectiveRole
    <3>2. memberIndex[o][w] < Len(list) /\ list[memberIndex[o][w] + 1] = w
      BY <1>1, <1>0, <3>1 DEF AccessInv, MemberListExact
    <3>3. memberIndex[o][w] + 1 \in 1..Len(list)
      BY <1>1, <1>0, <3>2
    <3> QED
      BY <3>2, <3>3
  <2> QED
    BY <2>1
<1>3. CASE roster = list /\ (orgRootAdmin(o) = Zero \/ \E i \in 1..Len(list) : list[i] = orgRootAdmin(o))
  BY <1>1, <1>0, <1>2, <1>3
<1>4. CASE /\ Len(roster) = Len(list) + 1 /\ roster[1] = orgRootAdmin(o)
           /\ \A i \in 2..Len(roster) : roster[i] = list[i - 1]
  <2>1. CASE orgRootAdmin(o) = w
    BY <1>1, <1>0, <1>4, <2>1
  <2>2. CASE orgRootAdmin(o) # w
    <3>1. PICK i \in 1..Len(list) : list[i] = w
      BY <1>2, <2>2
    <3>2. i + 1 \in 2..Len(roster) /\ (i + 1) - 1 = i
      BY <1>1, <1>0, <1>4
    <3> QED
      BY <1>1, <1>0, <1>4, <3>1, <3>2
  <2> QED
    BY <2>1, <2>2
<1> QED
  BY <1>1, <1>0, <1>3, <1>4, RosterShape

(* A role that is lost or not the stored one has its badge in the row.     *)
LEMMA RosterExplains ==
  ASSUME AccessInv, NEW o \in OrgId, NEW roster, roster = readOrgMembers(o),
         NEW i \in 1..Len(roster), NEW row, row = OrgMember(o, roster[i]),
         row.role = NONE \/ row.storedRole \notin {NONE, row.role}
  PROVE  row.expired \/ row.identity # "verified" \/ row.isRootAdmin
<1> DEFINE list == memberList[o]
           w    == roster[i]
<1>1. list \in Seq(Address) /\ Len(list) \in Nat
  BY DEF AccessInv, AccessTypeOK
<1>2. SUFFICES ASSUME ~lapsed(memberships[o][w]), isActive(w), orgRootAdmin(o) # w
               PROVE  FALSE
  BY DEF OrgMember, VerificationBadge, expired, lapsed
<1>3. effectiveRole(o, w) = memberships[o][w].role
  BY <1>2 DEF effectiveRole
<1>4. memberships[o][w].role = NONE
  BY <1>3 DEF OrgMember
<1>5. \E k \in 1..Len(list) : list[k] = w
  <2>1. CASE roster = list
    BY <2>1
  <2>2. CASE /\ Len(roster) = Len(list) + 1 /\ roster[1] = orgRootAdmin(o)
             /\ \A k \in 2..Len(roster) : roster[k] = list[k - 1]
    <3>1. i \in 2..Len(roster) /\ i - 1 \in 1..Len(list)
      BY <1>1, <1>2, <2>2
    <3> QED
      BY <2>2, <3>1
  <2> QED
    BY <1>1, <2>1, <2>2, RosterShape
<1> QED
  BY <1>4, <1>5 DEF AccessInv, MemberListExact

(* Whatever was added, changed, removed and handed over, and whoever was   *)
(* revoked: the roster (lib/chain/index.ts, readOrgMembers) shows everybody*)
(* who has a role, once, and explains every role that is not the stored    *)
(* one.                                                                    *)
THEOREM RosterStaysExact == AccessSpec => []RosterExact
<1>1. AccessInv => RosterExact
  <2> SUFFICES ASSUME AccessInv, NEW o \in 1..organizationCount
               PROVE  LET roster == readOrgMembers(o) IN
                      /\ \A i, j \in 1..Len(roster) : roster[i] = roster[j] => i = j
                      /\ \A w \in Wallet : effectiveRole(o, w) # NONE => \E i \in 1..Len(roster) : roster[i] = w
                      /\ \A i \in 1..Len(roster) :
                           LET row == OrgMember(o, roster[i]) IN
                           row.role = NONE \/ row.storedRole \notin {NONE, row.role} =>
                             row.expired \/ row.identity # "verified" \/ row.isRootAdmin
    BY DEF RosterExact
  <2>1. o \in OrgId
    BY OrgBound DEF OrgBound, AccessInv, AccessTypeOK, RegistryTypeOK, OrgId
  <2>2. ASSUME NEW roster, roster = readOrgMembers(o)
        PROVE  /\ \A i, j \in 1..Len(roster) : roster[i] = roster[j] => i = j
               /\ \A w \in Wallet : effectiveRole(o, w) # NONE => \E i \in 1..Len(roster) : roster[i] = w
               /\ \A i \in 1..Len(roster) :
                    LET row == OrgMember(o, roster[i]) IN
                    row.role = NONE \/ row.storedRole \notin {NONE, row.role} =>
                      row.expired \/ row.identity # "verified" \/ row.isRootAdmin
    <3>1. \A i, j \in 1..Len(roster) : roster[i] = roster[j] => i = j
      BY <2>1, <2>2, RosterHasNoDuplicates
    <3>2. \A w \in Wallet : effectiveRole(o, w) # NONE => \E i \in 1..Len(roster) : roster[i] = w
      BY <2>1, <2>2, RosterHasEveryRole
    <3>3. ASSUME NEW i \in 1..Len(roster), NEW row, row = OrgMember(o, roster[i]),
                 row.role = NONE \/ row.storedRole \notin {NONE, row.role}
          PROVE  row.expired \/ row.identity # "verified" \/ row.isRootAdmin
      BY <2>1, <2>2, <3>3, RosterExplains
    <3> QED
      BY <3>1, <3>2, <3>3, Zenon
  <2> QED
    BY <2>2, Zenon
<1> QED
  BY <1>1, AccessInvariant, PTL

-----------------------------------------------------------------------------
(* The evaluation of live access.                                          *)

(* The evaluation reads the chain and writes nothing to it.                *)
LEMMA EvaluationKeepsAccess == LiveSpec => AccessSpec
<1>1. [LiveNext]_<<chainVars, liveVars>> => [AccessNext]_chainVars
  BY DEF LiveNext, evaluateLiveAccess, read, readFails, answer, chainMoves
<1>2. QED
  BY <1>1, PTL DEF LiveSpec, AccessSpec

-----------------------------------------------------------------------------
(* The decision.                                                           *)

(* Some reason comes first, if any applies.                                *)
LEMMA FirstHit ==
  ASSUME NEW hits \in SUBSET (1..8), hits # {}
  PROVE  \E i \in hits : \A j \in hits : i <= j
<1>1. SUFFICES ASSUME \A i \in hits : \E j \in hits : ~(i <= j) PROVE FALSE
  OBVIOUS
<1>2. 1 \notin hits
  BY <1>1
<1>3. 2 \notin hits
  BY <1>1, <1>2
<1>4. 3 \notin hits
  BY <1>1, <1>2, <1>3
<1>5. 4 \notin hits
  BY <1>1, <1>2, <1>3, <1>4
<1>6. 5 \notin hits
  BY <1>1, <1>2, <1>3, <1>4, <1>5
<1>7. 6 \notin hits
  BY <1>1, <1>2, <1>3, <1>4, <1>5, <1>6
<1>8. 7 \notin hits
  BY <1>1, <1>2, <1>3, <1>4, <1>5, <1>6, <1>7
<1>9. 8 \notin hits
  BY <1>1, <1>2, <1>3, <1>4, <1>5, <1>6, <1>7, <1>8
<1>10. PICK e \in hits : TRUE
  OBVIOUS
<1>11. e \in 1..8
  BY <1>10
<1>12. QED
  BY <1>2, <1>3, <1>4, <1>5, <1>6, <1>7, <1>8, <1>9, <1>10, <1>11

(* Allowed means that no reason applies, and only that.                    *)
LEMMA AllowedHasNoReason ==
  ASSUME NEW reads
  PROVE  /\ decideAccess(reads) = "allowed" <=> \A i \in 1..8 : ~applies(DenyOrder[i], reads)
         /\ decideAccess(reads) \in Decisions \ {"none"}
<1> DEFINE hits == {i \in 1..Len(DenyOrder) : applies(DenyOrder[i], reads)}
           least == CHOOSE i \in hits : \A j \in hits : i <= j
<1>1. Len(DenyOrder) = 8
  BY DEF DenyOrder
<1>2. decideAccess(reads) = IF hits = {} THEN "allowed" ELSE DenyOrder[least]
  BY DEF decideAccess
<1>3. hits = {} <=> \A i \in 1..8 : ~applies(DenyOrder[i], reads)
  <2>1. hits = {i \in 1..8 : applies(DenyOrder[i], reads)}
    BY <1>1
  <2>2. {i \in 1..8 : applies(DenyOrder[i], reads)} = {} <=> \A i \in 1..8 : ~applies(DenyOrder[i], reads)
    BY Zenon
  <2>3. QED
    BY <2>1, <2>2, Zenon
<1>4. ASSUME hits # {} PROVE DenyOrder[least] \in Decisions \ {"none", "allowed"}
  <2>1. least \in 1..8
    <3>1. \E i \in hits : \A j \in hits : i <= j
      <4>1. hits \in SUBSET (1..8)
        BY <1>1, Zenon
      <4> HIDE DEF hits
      <4>2. QED
        BY <1>4, <4>1, FirstHit
    <3>2. least \in hits
      <4> HIDE DEF hits
      <4>1. QED
        BY <3>1
    <3>3. QED
      BY <1>1, <3>2, Zenon
  <2> HIDE DEF least
  <2>2. QED
    BY <2>1 DEF DenyOrder, Decisions
<1> HIDE DEF hits, least
<1>5. QED
  BY <1>2, <1>3, <1>4 DEF Decisions

-----------------------------------------------------------------------------

(* What a read returns while the chain would allow a wallet whose          *)
(* membership outlasts what the clocks may differ by.                      *)
favorable(reader) ==
  CASE reader = "organization" -> {"active"}
    [] reader = "identity"     -> {"active"}
    [] reader = "role"         -> Roles
    [] reader = "membership"   -> {"valid"}
    [] OTHER                   -> {"yes"}

Instant == [access : BOOLEAN, outlasts : BOOLEAN]

admits(i) == i.access /\ i.outlasts

(* The evaluation so far: seen holds the present instant while it reads,   *)
(* every answer of canAccessApp is that of an instant in it, and so is     *)
(* every unfavorable one.                                                  *)
EvaluationInv ==
  /\ phase \in {"idle", "reading", "answered", "unavailable"}
  /\ DOMAIN got \subseteq Readers
  /\ decision \in Decisions /\ (decision # "none" <=> phase = "answered")
  /\ seen \subseteq Instant
  /\ moves \in 0..MaxMoves
  /\ phase = "idle" => DOMAIN got = {}
  /\ phase = "reading" => instant \in seen
  /\ "allowed" \in DOMAIN got =>
       got["allowed"] \in {"yes", "no"} /\ (got["allowed"] = "yes" => \E i \in seen : i.access)
  /\ (\A i \in seen : admits(i)) =>
       \A reader \in DOMAIN got : got[reader] \in favorable(reader)
  /\ phase = "answered" => DOMAIN got = Readers /\ decision = decideAccess(got)

LEMMA InstantTyped == AccessTypeOK => instant \in Instant
<1> SUFFICES ASSUME AccessTypeOK PROVE instant \in Instant
  OBVIOUS
<1>1. effectiveRole(Org, Subject) \in Roles \cup {NONE}
  BY RolesAreRanked, SubjectAssumption, WalletAssumption DEF Address, SubjectAssumption
<1>2. canAccessApp(Org, Subject, App) \in BOOLEAN
  BY <1>1, SubjectAssumption DEF canAccessApp, AccessTypeOK, SubjectAssumption
<1>3. QED
  BY <1>2 DEF instant, Instant

(* A read in an instant that admits the wallet is favorable, whatever the  *)
(* server's clock shows.                                                   *)
LEMMA AdmittedReadsWell ==
  ASSUME StandingInv, admits(instant),
         NEW reader \in Readers, NEW value \in results(reader)
  PROVE  value \in favorable(reader)
<1> USE SubjectAssumption DEF SubjectAssumption
<1>1. /\ applicationRegistered[Org][App] /\ isOrganizationActive(Org)
      /\ effectiveRole(Org, Subject) # NONE /\ canAccessApp(Org, Subject, App)
  BY DEF admits, instant, canAccessApp
<1>2. effectiveRole(Org, Subject) \in Roles
  BY <1>1, RolesAreRanked, WalletAssumption DEF StandingInv, AccessInv, Address
<1>3. isActive(Subject)
  BY <1>1 DEF effectiveRole
<1>4. orgRootAdmin(Org) # Zero
  BY <1>1, WalletAssumption
     DEF StandingInv, OrganizationsSeated, isOrganizationActive, orgRootAdmin, WalletAssumption
<1>5. CASE reader = "organization"
  BY <1>1, <1>4, <1>5 DEF results, readOrganization, favorable, isOrganizationActive
<1>6. CASE reader = "identity"
  BY <1>3, <1>6 DEF results, readIdentity, favorable, isActive
<1>7. CASE reader = "role"
  BY <1>2, <1>7 DEF results, favorable
<1>8. CASE reader = "membership"
  <2>1. PICK time \in serverTimes : value = readMembership(time)
    BY <1>8 DEF results
  <2>2. now + MaxLag \in Nat /\ time \in 0..(now + MaxLag)
    BY <2>1, LagAssumption DEF serverTimes, StandingInv, AccessInv, AccessTypeOK, LagAssumption
  <2>3. PICK m : m = memberships[Org][Subject]
    OBVIOUS
  <2>4. m.expiresAt \in Nat
    BY <2>3, WalletAssumption DEF StandingInv, AccessInv, AccessTypeOK, Membership, Address
  <2>5. m.expiresAt = 0 \/ m.expiresAt > now + MaxLag
    BY <2>3 DEF admits, instant
  <2>6. ~(m.expiresAt # 0 /\ m.expiresAt <= time)
    BY <2>2, <2>4, <2>5
  <2>7. QED
    BY <1>8, <2>1, <2>3, <2>6 DEF readMembership, favorable
<1>9. CASE reader \in {"registered", "allowed"}
  BY <1>1, <1>9 DEF results, readApp, favorable
<1>10. QED
  BY <1>5, <1>6, <1>7, <1>8, <1>9 DEF Readers

LEMMA EvaluationInductive ==
  ASSUME StandingInv, instant \in Instant, instant' \in Instant, EvaluationInv, [LiveNext]_<<chainVars, liveVars>>
  PROVE  EvaluationInv'
<1> USE DEF EvaluationInv
<1>0. UNCHANGED chainVars => instant' = instant
  BY DEF chainVars, registryVars, accessVars, memberVars, appVars, instant, canAccessApp,
         effectiveRole, isOrganizationActive, organizationExists, orgRootAdmin, isActive, lapsed
<1>1. CASE evaluateLiveAccess
  BY <1>0, <1>1 DEF evaluateLiveAccess, Decisions
<1>2. ASSUME NEW reader \in Readers, NEW value \in results(reader),
             phase = "reading", reader \notin DOMAIN got,
             got' = [k \in DOMAIN got \cup {reader} |-> IF k = reader THEN value ELSE got[k]],
             UNCHANGED <<chainVars, phase, decision, seen, moves>>
      PROVE  EvaluationInv'
  <2>1. reader = "allowed" => value \in {"yes", "no"} /\ (value = "yes" => instant.access)
    BY DEF results, readApp, instant
  <2>2. (\A i \in seen : admits(i)) => value \in favorable(reader)
    BY <1>2, AdmittedReadsWell
  <2>3. DOMAIN got' = DOMAIN got \cup {reader} /\ got'[reader] = value
        /\ \A k \in DOMAIN got : got'[k] = got[k]
    BY <1>2
  <2>4. (\A i \in seen' : admits(i)) =>
          \A k \in DOMAIN got' : got'[k] \in favorable(k)
    BY <1>2, <2>2, <2>3
  <2>5. "allowed" \in DOMAIN got' =>
          got'["allowed"] \in {"yes", "no"} /\ (got'["allowed"] = "yes" => \E i \in seen' : i.access)
    BY <1>2, <2>1, <2>3
  <2>6. QED
    BY <1>2, <1>0, <2>3, <2>4, <2>5 DEF favorable, admits
<1>3. CASE readFails
  BY <1>3 DEF readFails
<1>4. CASE answer
  BY <1>4, AllowedHasNoReason DEF answer
<1>5. CASE chainMoves
  <2>1. seen \subseteq seen' /\ (phase = "reading" => instant' \in seen')
        /\ seen' \subseteq Instant
    BY <1>5 DEF chainMoves
  <2>2. moves' \in 0..MaxMoves
    BY <1>5, LagAssumption DEF chainMoves, LagAssumption
  <2>3. UNCHANGED <<phase, got, decision>>
    BY <1>5 DEF chainMoves
  <2>4. QED
    BY <2>1, <2>2, <2>3 DEF chainMoves, favorable, admits
<1>6. CASE UNCHANGED <<chainVars, liveVars>>
  BY <1>6, <1>0 DEF liveVars, favorable, admits
<1>7. QED
  BY <1>1, <1>2, <1>3, <1>4, <1>5, <1>6 DEF LiveNext, read

LEMMA EvaluationInvariant == LiveSpec => [](EvaluationInv /\ StandingInv)
<1>1. LiveSpec => EvaluationInv
  BY LagAssumption DEF LiveSpec, EvaluationInv, notStarted, Decisions, LagAssumption
<1>2. StandingInv => instant \in Instant
  BY InstantTyped DEF StandingInv, AccessInv
<1>3. LiveSpec => []StandingInv
  BY EvaluationKeepsAccess, StandingInvariant, PTL
<1>4. /\ StandingInv /\ EvaluationInv /\ [LiveNext]_<<chainVars, liveVars>>
      /\ instant \in Instant /\ (instant \in Instant)'
      => EvaluationInv'
  BY EvaluationInductive DEF Instant
<1>5. QED
  BY <1>1, <1>2, <1>3, <1>4, PTL DEF LiveSpec

-----------------------------------------------------------------------------

(* Type correctness of the evaluation and of the chain under it.           *)
THEOREM LiveTypeCorrect == LiveSpec => []LiveTypeOK
<1>1. EvaluationInv /\ StandingInv => LiveTypeOK
  BY DEF EvaluationInv, StandingInv, AccessInv, LiveTypeOK, Instant
<1>2. QED
  BY <1>1, EvaluationInvariant, PTL

(* No sign-in is allowed out of pieces (lib/live-access.ts): whatever is   *)
(* written between the reads, the chain itself would have allowed the      *)
(* wallet at an instant of the evaluation, however far the server's clock  *)
(* runs ahead.                                                             *)
THEOREM AllowedOnlyWhenAllowed == LiveSpec => []AllowedWasAllowed
<1>1. EvaluationInv => AllowedWasAllowed
  <2> SUFFICES ASSUME EvaluationInv, decision = "allowed" PROVE \E i \in seen : i.access
    BY DEF AllowedWasAllowed
  <2>1. phase = "answered" /\ DOMAIN got = Readers /\ decideAccess(got) = "allowed"
    BY DEF EvaluationInv
  <2>2. ~applies(DenyOrder[8], got)
    BY <2>1, AllowedHasNoReason
  <2>3. got["allowed"] # "no"
    BY <2>2 DEF applies, DenyOrder
  <2>4. QED
    BY <2>1, <2>3 DEF EvaluationInv, Readers
<1>2. QED
  BY <1>1, EvaluationInvariant, PTL

(* A member whom the chain would have allowed throughout is not turned     *)
(* away by reads of different instants, nor by the server's clock          *)
(* (lib/chain/index.ts) unless the membership ends within what the clocks  *)
(* differ by, whatever that is.                                            *)
THEOREM MembersLetIn == LiveSpec => []MemberLetIn
<1>1. EvaluationInv => MemberLetIn
  <2> SUFFICES ASSUME EvaluationInv, phase = "answered",
                      \A i \in seen : i.access /\ i.outlasts
               PROVE  decision = "allowed"
    BY DEF MemberLetIn
  <2>1. \A reader \in Readers : got[reader] \in favorable(reader)
    BY DEF EvaluationInv, admits
  <2>2. /\ got["organization"] = "active" /\ got["identity"] = "active" /\ got["role"] \in Roles
        /\ got["membership"] = "valid" /\ got["registered"] = "yes" /\ got["allowed"] = "yes"
    BY <2>1 DEF favorable, Readers
  <2>3. \A i \in 1..8 : ~applies(DenyOrder[i], got)
    <3>1. /\ ~applies("ORGANIZATION_NOT_FOUND", got) /\ ~applies("IDENTITY_NOT_REGISTERED", got)
          /\ ~applies("IDENTITY_REVOKED", got) /\ ~applies("ORGANIZATION_SUSPENDED", got)
          /\ ~applies("ROLE_EXPIRED", got) /\ ~applies("APPLICATION_NOT_REGISTERED", got)
          /\ ~applies("APP_ACCESS_NOT_GRANTED", got)
      BY <2>2 DEF applies
    <3>2. ~applies("NOT_A_MEMBER", got)
      BY <2>2 DEF applies, Roles, NONE
    <3>3. QED
      BY <3>1, <3>2 DEF DenyOrder
  <2>4. QED
    BY <2>3, AllowedHasNoReason DEF EvaluationInv
<1>2. QED
  BY <1>1, EvaluationInvariant, PTL

-----------------------------------------------------------------------------
(* The certificates.                                                       *)

(* AssetNFT reads the access manager and never writes it, and a callback   *)
(* runs ordinary transactions: whatever is proved of AccessSpec holds      *)
(* under Spec too.                                                         *)
THEOREM AssetsKeepAccess == Spec => AccessSpec
<1>1. AssetInit => AccessInit
  BY DEF AssetInit
<1>2. [Next]_vars => [AccessNext]_chainVars
  <2> SUFFICES ASSUME [Next]_vars PROVE [AccessNext]_chainVars
    OBVIOUS
  <2>1. ASSUME NEW s \in Wallet, AssetTx(s) PROVE UNCHANGED chainVars
    BY <2>1 DEF AssetTx, mintAsset, reassignAsset, revokeAsset, restoreAsset, updateAssetRecord,
                setPaused, moveNftOwnership
  <2>2. CASE \E s \in Wallet : Tx(s)
    BY <2>1, <2>2 DEF Tx, AccessNext
  <2>3. CASE finishMint
    BY <2>3 DEF finishMint
  <2>4. CASE Tick
    BY <2>4 DEF AccessNext
  <2>5. CASE UNCHANGED vars
    BY <2>5 DEF vars
  <2>6. QED
    BY <2>2, <2>3, <2>4, <2>5 DEF Next
<1>3. QED
  BY <1>1, <1>2, PTL DEF Spec, AccessSpec

-----------------------------------------------------------------------------
(* The invariant of the certificates.                                      *)

Call == [token : TokenId, uri : Hash, to : ContractWallet]

AssetTables ==
  /\ assets \in [TokenId -> Asset]
  /\ nextTokenId \in 1..(MaxTokens + 1)
  /\ orgAssets \in [OrgId -> Seq(TokenId)]
  /\ ownerOf \in [TokenId -> Address]
  /\ tokenURI \in [TokenId -> Bytes32]
  /\ paused \in BOOLEAN
  /\ nftOwner \in Address
  /\ minting \in Seq(Call)

(* What one certificate is to ERC-721 and to the organization. A minted    *)
(* one belongs to an organization that exists, so the seat it falls back   *)
(* to is somebody's.                                                       *)
InCustody(t, holder, asset) ==
  /\ holder = asset.assignedTo
  /\ t < nextTokenId => holder # Zero /\ organizationExists(asset.orgId)
  /\ t >= nextTokenId => holder = Zero /\ asset.orgId = 0

Custody == \A t \in TokenId : InCustody(t, ownerOf[t], assets[t])

(* Every position of an organization's list is that of a certificate of    *)
(* the organization, no two positions are of the same, and every           *)
(* certificate has one.                                                    *)
Listed ==
  /\ \A o \in OrgId : \A i \in 1..Len(orgAssets[o]) :
       /\ orgAssets[o][i] < nextTokenId /\ assets[orgAssets[o][i]].orgId = o
       /\ \A j \in 1..Len(orgAssets[o]) : orgAssets[o][i] = orgAssets[o][j] => i = j
  /\ \A t \in minted :
       \E i \in 1..Len(orgAssets[assets[t].orgId]) : orgAssets[assets[t].orgId][i] = t

CustodyInv == AssetTables /\ Custody /\ Listed

LEMMA CustodyInitInv == AssetInit => CustodyInv
<1> SUFFICES ASSUME AssetInit PROVE CustodyInv
  OBVIOUS
<1>1. AssetTables
  <2>1. BlankAsset \in Asset
    BY OrgBound DEF Asset, BlankAsset, Address, OrgId, Bytes32
  <2>2. nextTokenId \in 1..(MaxTokens + 1)
    BY AssetBounds DEF AssetInit
  <2>3. nftOwner \in Address
    BY WalletAssumption DEF AssetInit, Address
  <2>4. orgAssets \in [OrgId -> Seq(TokenId)] /\ minting \in Seq(Call)
    BY DEF AssetInit
  <2>5. QED
    BY <2>1, <2>2, <2>3, <2>4 DEF AssetInit, AssetTables, Address, Bytes32
<1>2. Custody
  BY DEF AssetInit, Custody, InCustody, BlankAsset, TokenId
<1>3. Listed
  BY DEF AssetInit, Listed, minted, TokenId
<1>4. QED
  BY <1>1, <1>2, <1>3 DEF CustodyInv

-----------------------------------------------------------------------------
(* One certificate changes hands, or only its record: nothing else of it,  *)
(* and nothing of the others or of the lists.                              *)
LEMMA OneCertificate ==
  ASSUME CustodyInv, NEW t \in TokenId, t \in minted, NEW holder \in Address, holder # Zero,
         NEW a \in Asset, a.orgId = assets[t].orgId, a.assignedTo = holder,
         assets' = [assets EXCEPT ![t] = a], ownerOf' = [ownerOf EXCEPT ![t] = holder],
         UNCHANGED <<chainVars, nextTokenId, orgAssets, paused, nftOwner, minting>>,
         tokenURI' \in [TokenId -> Bytes32]
  PROVE  CustodyInv'
<1>1. /\ assets'[t] = a /\ \A x \in TokenId \ {t} : assets'[x] = assets[x]
      /\ ownerOf'[t] = holder /\ \A x \in TokenId \ {t} : ownerOf'[x] = ownerOf[x]
      /\ \A x \in TokenId : assets'[x].orgId = assets[x].orgId
  BY DEF CustodyInv, AssetTables
<1>2. AssetTables'
  BY <1>1 DEF CustodyInv, AssetTables
<1>3. \A o : organizationExists(o)' = organizationExists(o)
  BY DEF organizationExists, chainVars, registryVars
<1>4. Custody'
  <2> SUFFICES ASSUME NEW x \in TokenId PROVE InCustody(x, ownerOf[x], assets[x])'
    BY DEF Custody
  <2>1. InCustody(x, ownerOf[x], assets[x])
    BY DEF CustodyInv, Custody
  <2>2. QED
    BY <1>1, <1>3, <2>1 DEF InCustody, minted
<1>5. \A o \in OrgId : \A i \in 1..Len(orgAssets[o]) : orgAssets[o][i] \in TokenId
  BY DEF CustodyInv, AssetTables
<1>6. Listed'
  BY <1>1, <1>5 DEF CustodyInv, Listed, minted
<1>7. QED
  BY <1>2, <1>4, <1>6 DEF CustodyInv

LEMMA HandInv ==
  ASSUME CustodyInv, NEW t \in TokenId, assetExists(t), NEW to \in Address, to # Zero,
         NEW active \in BOOLEAN, hand(t, to, active),
         UNCHANGED <<chainVars, nextTokenId, orgAssets, tokenURI, paused, nftOwner, minting>>
  PROVE  /\ CustodyInv'
         /\ t \in minted /\ ownerOf'[t] = to /\ assets'[t].active = active
         /\ \A x \in TokenId \ {t} : ownerOf'[x] = ownerOf[x]
<1>1. t \in minted
  BY DEF CustodyInv, AssetTables, Custody, InCustody, assetExists, minted, TokenId
<1>2. PICK n : n = IF ownerOf[t] = to THEN assets[t].transferCount ELSE assets[t].transferCount + 1
  OBVIOUS
<1>3. PICK a : a = [assets[t] EXCEPT !.assignedTo = to, !.active = active, !.transferCount = n]
  OBVIOUS
<1>4. a \in Asset /\ a.orgId = assets[t].orgId /\ a.assignedTo = to /\ a.active = active
  <2>1. assets[t] \in Asset
    BY DEF CustodyInv, AssetTables
  <2>2. n \in Nat
    BY <1>2, <2>1 DEF Asset
  <2>3. QED
    BY <1>3, <2>1, <2>2 DEF Asset
<1>5. assets' = [assets EXCEPT ![t] = a] /\ ownerOf' = [ownerOf EXCEPT ![t] = to]
  <2>1. assets' = [assets EXCEPT ![t] = [assets[t] EXCEPT !.assignedTo = to, !.active = active, !.transferCount = n]]
    BY <1>2 DEF hand, CustodyInv, AssetTables, Asset
  <2>2. QED
    BY <1>3, <2>1 DEF hand
<1>6. tokenURI' \in [TokenId -> Bytes32]
  BY DEF CustodyInv, AssetTables
<1>7. CustodyInv'
  BY <1>1, <1>4, <1>5, <1>6, OneCertificate
<1>8. QED
  BY <1>1, <1>4, <1>5, <1>7 DEF CustodyInv, AssetTables

LEMMA UpdateRecordInv ==
  ASSUME CustodyInv, NEW s \in Wallet, NEW t \in TokenId, NEW r \in Bytes32,
         updateAssetRecord(s, t, r)
  PROVE  CustodyInv'
<1>1. t \in minted /\ InCustody(t, ownerOf[t], assets[t])
  BY DEF updateAssetRecord, CustodyInv, AssetTables, Custody, InCustody, assetExists, minted, TokenId
<1>2. ownerOf[t] \in Address /\ ownerOf[t] # Zero
  BY <1>1 DEF CustodyInv, AssetTables, InCustody, minted
<1>3. PICK a : a = [assets[t] EXCEPT !.assetHash = r]
  OBVIOUS
<1>4. a \in Asset /\ a.orgId = assets[t].orgId /\ a.assignedTo = ownerOf[t]
  BY <1>1, <1>3 DEF CustodyInv, AssetTables, Asset, InCustody
<1>5. assets' = [assets EXCEPT ![t] = a] /\ ownerOf' = [ownerOf EXCEPT ![t] = ownerOf[t]]
  BY <1>3 DEF updateAssetRecord, CustodyInv, AssetTables
<1>6. tokenURI' \in [TokenId -> Bytes32]
  BY DEF updateAssetRecord, CustodyInv, AssetTables
<1>7. UNCHANGED <<chainVars, nextTokenId, orgAssets, paused, nftOwner, minting>>
  BY DEF updateAssetRecord
<1>8. QED
  BY <1>1, <1>2, <1>4, <1>5, <1>6, <1>7, OneCertificate

(* The new certificate is the last of its list, whether or not the         *)
(* recipient is called back before its URI is set.                         *)
LEMMA MintInv ==
  ASSUME CustodyInv, NEW s \in Wallet, NEW o \in OrgId, NEW to \in Address, NEW r \in Bytes32,
         mintAsset(s, o, to, r)
  PROVE  CustodyInv'
<1>1. PICK t \in TokenId : t = nextTokenId
  BY AssetBounds DEF mintAsset, CustodyInv, AssetTables, TokenId
<1>2. organizationExists(o) /\ o # 0 /\ to # Zero /\ r \in Hash
  BY DEF mintAsset, hasPermission, isOrganizationActive, organizationExists, Bytes32
<1>3. PICK a : a = [orgId |-> o, assetHash |-> r, assignedTo |-> to, active |-> TRUE, transferCount |-> 0]
  OBVIOUS
<1>4. a \in Asset /\ a.orgId = o /\ a.assignedTo = to
  BY <1>3 DEF Asset
<1>5. PICK list : list = Append(orgAssets[o], t)
  OBVIOUS
<1>6. /\ list \in Seq(TokenId) /\ Len(list) = Len(orgAssets[o]) + 1 /\ list[Len(list)] = t
      /\ \A i \in 1..Len(orgAssets[o]) : list[i] = orgAssets[o][i]
      /\ Len(orgAssets[o]) \in Nat
  BY <1>5 DEF CustodyInv, AssetTables
<1>7. /\ assets' = [assets EXCEPT ![t] = a] /\ ownerOf' = [ownerOf EXCEPT ![t] = to]
      /\ orgAssets' = [orgAssets EXCEPT ![o] = list] /\ nextTokenId' = t + 1
      /\ UNCHANGED <<paused, nftOwner>> /\ UNCHANGED chainVars
  BY <1>1, <1>3, <1>5 DEF mintAsset
<1>8. /\ assets'[t] = a /\ \A x \in TokenId \ {t} : assets'[x] = assets[x]
      /\ ownerOf'[t] = to /\ \A x \in TokenId \ {t} : ownerOf'[x] = ownerOf[x]
      /\ orgAssets'[o] = list /\ \A q \in OrgId \ {o} : orgAssets'[q] = orgAssets[q]
  BY <1>7 DEF CustodyInv, AssetTables
<1>9. tokenURI' \in [TokenId -> Bytes32] /\ minting' \in Seq(Call)
  <2>1. CASE to \in ContractWallet
    <3>1. [token |-> t, uri |-> r, to |-> to] \in Call
      BY <1>2, <2>1 DEF Call
    <3>2. minting' = Append(minting, [token |-> t, uri |-> r, to |-> to]) /\ tokenURI' = tokenURI
      BY <1>1, <2>1 DEF mintAsset
    <3>3. QED
      BY <3>1, <3>2 DEF CustodyInv, AssetTables
  <2>2. CASE to \notin ContractWallet
    <3>1. tokenURI' = [tokenURI EXCEPT ![t] = r] /\ minting' = minting
      BY <1>1, <2>2 DEF mintAsset
    <3>2. QED
      BY <3>1 DEF CustodyInv, AssetTables
  <2>3. QED
    BY <2>1, <2>2
<1>10. AssetTables'
  BY <1>4, <1>6, <1>7, <1>9, AssetBounds DEF CustodyInv, AssetTables, TokenId
<1>11. \A q : organizationExists(q)' = organizationExists(q)
  BY <1>7 DEF organizationExists, chainVars, registryVars
<1>12. Custody'
  <2> SUFFICES ASSUME NEW x \in TokenId PROVE InCustody(x, ownerOf[x], assets[x])'
    BY DEF Custody
  <2>1. InCustody(x, ownerOf[x], assets[x])
    BY DEF CustodyInv, Custody
  <2>2. CASE x = t
    BY <1>1, <1>2, <1>4, <1>7, <1>8, <1>11, <2>2 DEF InCustody, TokenId
  <2>3. CASE x # t
    BY <1>1, <1>7, <1>8, <1>11, <2>1, <2>3 DEF InCustody, TokenId
  <2>4. QED
    BY <2>2, <2>3
<1>13. \A q \in OrgId : \A i \in 1..Len(orgAssets[q]) :
          /\ orgAssets[q][i] \in TokenId /\ orgAssets[q][i] < t
          /\ assets'[orgAssets[q][i]].orgId = q
          /\ \A j \in 1..Len(orgAssets[q]) : orgAssets[q][i] = orgAssets[q][j] => i = j
  <2> SUFFICES ASSUME NEW q \in OrgId, NEW i \in 1..Len(orgAssets[q])
               PROVE  /\ orgAssets[q][i] \in TokenId /\ orgAssets[q][i] < t
                      /\ assets'[orgAssets[q][i]].orgId = q
                      /\ \A j \in 1..Len(orgAssets[q]) : orgAssets[q][i] = orgAssets[q][j] => i = j
    OBVIOUS
  <2>1. orgAssets[q] \in Seq(TokenId)
    BY DEF CustodyInv, AssetTables
  <2>2. orgAssets[q][i] \in TokenId
    BY <2>1
  <2>3. /\ orgAssets[q][i] < t /\ assets[orgAssets[q][i]].orgId = q
        /\ \A j \in 1..Len(orgAssets[q]) : orgAssets[q][i] = orgAssets[q][j] => i = j
    BY <1>1 DEF CustodyInv, Listed
  <2>4. orgAssets[q][i] # t
    BY <2>2, <2>3 DEF TokenId
  <2>5. QED
    BY <1>8, <2>2, <2>3, <2>4
<1>14. ASSUME NEW q \in OrgId, NEW i \in 1..Len(orgAssets'[q])
       PROVE  /\ orgAssets'[q][i] < t + 1 /\ assets'[orgAssets'[q][i]].orgId = q
              /\ \A j \in 1..Len(orgAssets'[q]) : orgAssets'[q][i] = orgAssets'[q][j] => i = j
  <2>1. CASE q # o
    BY <1>8, <1>13, <1>14, <2>1 DEF TokenId
  <2>2. CASE q = o
    <3>1. \A j \in 1..Len(list) : j = Len(list) \/ j \in 1..Len(orgAssets[o])
      BY <1>6
    <3>2. \A j \in 1..Len(list) : IF j = Len(list) THEN list[j] = t ELSE list[j] < t
      BY <1>6, <1>13, <3>1
    <3>3. CASE i = Len(list)
      BY <1>1, <1>4, <1>6, <1>8, <2>2, <3>2, <3>3 DEF TokenId
    <3>4. CASE i # Len(list)
      <4>1. i \in 1..Len(orgAssets[o]) /\ list[i] = orgAssets[o][i] /\ list[i] \in TokenId
        BY <1>6, <1>8, <1>13, <2>2, <3>1, <3>4
      <4>2. list[i] < t /\ assets'[list[i]].orgId = o /\ list[i] # t
        BY <1>13, <4>1 DEF TokenId
      <4>3. ASSUME NEW j \in 1..Len(list), list[i] = list[j] PROVE i = j
        <5>1. j \in 1..Len(orgAssets[o]) /\ list[j] = orgAssets[o][j]
          BY <1>6, <3>1, <4>2, <4>3
        <5>2. QED
          BY <1>13, <4>1, <4>3, <5>1
      <4>4. list[i] < t + 1
        BY <4>1, <4>2 DEF TokenId
      <4>5. QED
        BY <1>8, <2>2, <4>2, <4>3, <4>4
    <3>5. QED
      BY <3>3, <3>4
  <2>3. QED
    BY <2>1, <2>2
<1>15. ASSUME NEW x \in TokenId, x < t + 1
       PROVE  \E i \in 1..Len(orgAssets'[assets'[x].orgId]) : orgAssets'[assets'[x].orgId][i] = x
  <2>1. CASE x = t
    BY <1>4, <1>6, <1>8, <2>1
  <2>2. CASE x # t
    <3>1. x \in minted /\ assets'[x] = assets[x] /\ assets[x].orgId \in OrgId
      <4>1. x < nextTokenId
        BY <1>1, <1>15, <2>2 DEF TokenId
      <4>2. assets[x] \in Asset
        BY DEF CustodyInv, AssetTables
      <4>3. QED
        BY <1>8, <2>2, <4>1, <4>2 DEF minted, Asset
    <3>2. PICK i \in 1..Len(orgAssets[assets[x].orgId]) : orgAssets[assets[x].orgId][i] = x
      BY <3>1 DEF CustodyInv, Listed
    <3>3. QED
      BY <1>6, <1>8, <3>1, <3>2
  <2>3. QED
    BY <2>1, <2>2
<1>16. Listed'
  BY <1>7, <1>14, <1>15 DEF Listed, minted
<1>17. QED
  BY <1>10, <1>12, <1>16 DEF CustodyInv

(* The rest of an unfinished mint writes the URI of a certificate that has *)
(* been in custody since before the callback.                              *)
LEMMA FinishMintInv ==
  ASSUME CustodyInv, finishMint
  PROVE  CustodyInv' /\ ownerOf' = ownerOf
<1>1. minting \in Seq(Call) /\ minting # <<>>
  BY DEF finishMint, CustodyInv, AssetTables
<1>2. PICK n \in Nat : n = Len(minting) /\ n >= 1
  BY <1>1
<1>3. minting[n] \in Call
  BY <1>1, <1>2
<1>4. SubSeq(minting, 1, n - 1) \in Seq(Call)
  BY <1>1, <1>2
<1>5. minting' \in Seq(Call)
  BY <1>2, <1>4 DEF finishMint
<1>6. PICK t \in TokenId, uri \in Hash : t = minting[n].token /\ uri = minting[n].uri
  BY <1>3 DEF Call
<1>7. tokenURI' = [tokenURI EXCEPT ![t] = uri]
  BY <1>2, <1>6 DEF finishMint
<1>8. tokenURI' \in [TokenId -> Bytes32]
  BY <1>7 DEF CustodyInv, AssetTables, Bytes32
<1>9. UNCHANGED <<chainVars, assets, nextTokenId, orgAssets, ownerOf, paused, nftOwner>>
  BY DEF finishMint
<1>10. AssetTables'
  BY <1>5, <1>8, <1>9 DEF CustodyInv, AssetTables
<1>11. Custody' /\ Listed'
  BY <1>9 DEF CustodyInv, Custody, InCustody, Listed, minted, organizationExists, chainVars, registryVars
<1>12. QED
  BY <1>9, <1>10, <1>11 DEF CustodyInv

(* The wallet a revoked certificate falls back to.                         *)
LEMMA SeatHolder ==
  ASSUME StandingInv, CustodyInv, NEW t \in TokenId, assetExists(t)
  PROVE  orgRootAdmin(assets[t].orgId) \in Address /\ orgRootAdmin(assets[t].orgId) # Zero
<1>1. PICK o \in OrgId : o = assets[t].orgId
  BY DEF CustodyInv, AssetTables, Asset
<1>2. InCustody(t, ownerOf[t], assets[t]) /\ nextTokenId \in Nat /\ t \in Nat
  BY DEF CustodyInv, Custody, AssetTables, TokenId
<1>3. organizationExists(o)
  BY <1>1, <1>2 DEF InCustody, assetExists
<1>4. organizations[o].rootAdmin \in Wallet
  BY <1>3 DEF StandingInv, OrganizationsSeated
<1>5. QED
  BY <1>1, <1>4, WalletAssumption DEF orgRootAdmin, Address

(* The three calls that move a certificate: whose call it must have been,  *)
(* and where the certificate lands.                                        *)
Moved(s, t) ==
  /\ t \in minted
  /\ mayMove(s, t)
  /\ lawfulHolder(t)
  /\ \A x \in TokenId \ {t} : ownerOf'[x] = ownerOf[x]

LEMMA MoveInv ==
  ASSUME StandingInv, CustodyInv, NEW s \in Wallet, NEW t \in TokenId,
         revokeAsset(s, t) \/ \E to \in Address : reassignAsset(s, t, to) \/ restoreAsset(s, t, to)
  PROVE  CustodyInv' /\ Moved(s, t)
<1>1. CASE revokeAsset(s, t)
  <2>1. PICK root \in Address : root = orgRootAdmin(assets[t].orgId) /\ root # Zero
    BY <1>1, SeatHolder DEF revokeAsset
  <2>2. /\ assetExists(t) /\ hand(t, root, FALSE) /\ mayMove(s, t)
        /\ UNCHANGED <<chainVars, nextTokenId, orgAssets, tokenURI, paused, nftOwner, minting>>
    BY <1>1, <2>1 DEF revokeAsset, mayMove
  <2>3. /\ CustodyInv' /\ t \in minted /\ ownerOf'[t] = root /\ assets'[t].active = FALSE
        /\ \A x \in TokenId \ {t} : ownerOf'[x] = ownerOf[x]
    BY <2>1, <2>2, HandInv
  <2>4. QED
    BY <2>1, <2>2, <2>3 DEF Moved, lawfulHolder
<1>2. CASE \E to \in Address : reassignAsset(s, t, to) \/ restoreAsset(s, t, to)
  <2>1. PICK to \in Address : reassignAsset(s, t, to) \/ restoreAsset(s, t, to)
    BY <1>2
  <2>2. /\ assetExists(t) /\ to # Zero /\ hand(t, to, TRUE) /\ mayMove(s, t)
        /\ isOrgMember(assets[t].orgId, to)
        /\ UNCHANGED <<chainVars, nextTokenId, orgAssets, tokenURI, paused, nftOwner, minting>>
    BY <2>1 DEF reassignAsset, restoreAsset, mayMove
  <2>3. /\ CustodyInv' /\ t \in minted /\ ownerOf'[t] = to /\ assets'[t].active = TRUE
        /\ \A x \in TokenId \ {t} : ownerOf'[x] = ownerOf[x]
    BY <2>2, HandInv
  <2>4. QED
    BY <2>2, <2>3 DEF Moved, lawfulHolder
<1>3. QED
  BY <1>1, <1>2

(* Nothing of the certificates changes when the organizations move on,     *)
(* and none of them ceases to exist.                                       *)
LEMMA AroundInv ==
  ASSUME CustodyInv, UNCHANGED <<assets, nextTokenId, orgAssets, ownerOf, tokenURI, minting>>,
         paused' \in BOOLEAN, nftOwner' \in Address,
         \A o \in OrgId : organizationExists(o) => organizationExists(o)'
  PROVE  CustodyInv'
<1>1. AssetTables'
  BY DEF CustodyInv, AssetTables
<1>2. Custody'
  <2> SUFFICES ASSUME NEW t \in TokenId PROVE InCustody(t, ownerOf[t], assets[t])'
    BY DEF Custody
  <2>1. InCustody(t, ownerOf[t], assets[t]) /\ assets[t].orgId \in OrgId
    BY DEF CustodyInv, Custody, AssetTables, Asset
  <2>2. QED
    BY <2>1 DEF InCustody
<1>3. Listed'
  BY DEF CustodyInv, Listed, minted
<1>4. QED
  BY <1>1, <1>2, <1>3 DEF CustodyInv

LEMMA OrganizationsStay ==
  ASSUME StandingInv, NEW s \in Wallet, AccessTx(s), NEW o \in OrgId, organizationExists(o)
  PROVE  organizationExists(o)'
<1>1. organizationCount \in Nat /\ o \in Nat
  BY DEF StandingInv, AccessInv, AccessTypeOK, RegistryTypeOK, OrgId
<1>2. CASE UNCHANGED registryVars
  BY <1>2 DEF registryVars, organizationExists
<1>3. CASE RegistryTx(s)
  <2>1. organizationCount' = organizationCount \/ organizationCount' = organizationCount + 1
    BY <1>3 DEF RegistryTx, setRegistrar, registerIdentity, registerIdentityFor, register,
                updateIdentityHash, revokeIdentity, reactivateIdentity, createOrganization,
                updateOrganizationMetadata, setOrganizationActive, transferOrgRootAdmin, moveOwnership
  <2>2. QED
    BY <1>1, <2>1 DEF organizationExists
<1>4. CASE MembersTx(s) \/ PolicyTx(s)
  <2>1. UNCHANGED registryVars
    <3>1. CASE MembersTx(s)
      BY <3>1 DEF MembersTx, addMember, assignRole, setRoleExpiry, removeMember
    <3>2. CASE PolicyTx(s)
      BY <3>2 DEF PolicyTx, setPermission, registerApplication, setAppAccess
    <3>3. QED
      BY <1>4, <3>1, <3>2
  <2>2. QED
    BY <1>2, <2>1
<1>5. QED
  BY <1>3, <1>4 DEF AccessTx

-----------------------------------------------------------------------------
(* Every step.                                                             *)

(* A transaction keeps the invariant, and moves no minted certificate that *)
(* its sender may not move.                                                *)
LEMMA TxInv ==
  ASSUME StandingInv, CustodyInv, NEW s \in Wallet, Tx(s)
  PROVE  /\ CustodyInv'
         /\ \A t \in minted : ownerOf'[t] # ownerOf[t] => mayMove(s, t) /\ lawfulHolder(t)
<1> DEFINE Good == /\ CustodyInv'
                   /\ \A t \in minted : ownerOf'[t] # ownerOf[t] => mayMove(s, t) /\ lawfulHolder(t)
<1>1. ASSUME NEW o \in OrgId, NEW to \in Address, NEW r \in Bytes32, mintAsset(s, o, to, r)
      PROVE  Good
  <2>1. \A t \in minted : ownerOf'[t] = ownerOf[t]
    BY <1>1 DEF mintAsset, minted, TokenId, CustodyInv, AssetTables
  <2>2. QED
    BY <1>1, <2>1, MintInv
<1>2. ASSUME NEW t \in TokenId,
             revokeAsset(s, t) \/ \E to \in Address : reassignAsset(s, t, to) \/ restoreAsset(s, t, to)
      PROVE  Good
  <2>1. CustodyInv' /\ Moved(s, t)
    BY <1>2, MoveInv
  <2>2. \A x \in minted : ownerOf'[x] # ownerOf[x] => x = t
    BY <2>1 DEF Moved, minted
  <2>3. QED
    BY <2>1, <2>2 DEF Moved
<1>3. ASSUME NEW t \in TokenId, NEW r \in Bytes32, updateAssetRecord(s, t, r) PROVE Good
  BY <1>3, UpdateRecordInv DEF updateAssetRecord
<1>4. ASSUME UNCHANGED chainVars, UNCHANGED <<assets, nextTokenId, orgAssets, ownerOf, tokenURI, minting>>,
             paused' \in BOOLEAN, nftOwner' \in Address
      PROVE  Good
  <2>1. \A o \in OrgId : organizationExists(o) => organizationExists(o)'
    BY <1>4 DEF organizationExists, chainVars, registryVars
  <2>2. QED
    BY <1>4, <2>1, AroundInv
<1>5. ASSUME NEW value \in BOOLEAN, setPaused(s, value) PROVE Good
  BY <1>4, <1>5 DEF setPaused, CustodyInv, AssetTables
<1>6. ASSUME NEW a \in NftOwnerArgs, moveNftOwnership(s, a) PROVE Good
  BY <1>4, <1>6, NftOwnerArgsBound DEF moveNftOwnership, CustodyInv, AssetTables
<1>7. CASE AccessTx(s) /\ UNCHANGED assetVars
  <2>1. \A o \in OrgId : organizationExists(o) => organizationExists(o)'
    BY <1>7, OrganizationsStay
  <2>2. UNCHANGED <<assets, nextTokenId, orgAssets, ownerOf, tokenURI, minting>>
    BY <1>7 DEF assetVars
  <2>3. paused' \in BOOLEAN /\ nftOwner' \in Address
    BY <1>7 DEF assetVars, CustodyInv, AssetTables
  <2>4. QED
    BY <2>1, <2>2, <2>3, AroundInv
<1>8. CASE AssetTx(s)
  <2>1. CASE \E t \in TokenId : \/ revokeAsset(s, t)
                                \/ \E to \in Address : reassignAsset(s, t, to) \/ restoreAsset(s, t, to)
    BY <1>2, <2>1
  <2>2. CASE \E o \in OrgId, to \in Address, r \in Bytes32 : mintAsset(s, o, to, r)
    BY <1>1, <2>2
  <2>3. CASE \E t \in TokenId, r \in Bytes32 : updateAssetRecord(s, t, r)
    BY <1>3, <2>3
  <2>4. CASE \/ \E value \in BOOLEAN : setPaused(s, value)
             \/ \E a \in NftOwnerArgs : moveNftOwnership(s, a)
    BY <1>5, <1>6, <2>4
  <2>5. QED
    BY <1>8, <2>1, <2>2, <2>3, <2>4 DEF AssetTx
<1>9. QED
  BY <1>7, <1>8 DEF Tx

LEMMA CustodyNextInv == StandingInv /\ CustodyInv /\ [Next]_vars => CustodyInv'
<1> SUFFICES ASSUME StandingInv, CustodyInv, [Next]_vars PROVE CustodyInv'
  OBVIOUS
<1>1. ASSUME UNCHANGED registryVars, UNCHANGED assetVars PROVE CustodyInv'
  <2>1. \A o \in OrgId : organizationExists(o) => organizationExists(o)'
    BY <1>1 DEF organizationExists, registryVars
  <2>2. UNCHANGED <<assets, nextTokenId, orgAssets, ownerOf, tokenURI, minting>>
    BY <1>1 DEF assetVars
  <2>3. paused' \in BOOLEAN /\ nftOwner' \in Address
    BY <1>1 DEF assetVars, CustodyInv, AssetTables
  <2>4. QED
    BY <2>1, <2>2, <2>3, AroundInv
<1>2. CASE \E s \in Wallet : Tx(s)
  BY <1>2, TxInv
<1>3. CASE finishMint
  BY <1>3, FinishMintInv
<1>4. CASE Tick /\ UNCHANGED assetVars
  BY <1>1, <1>4 DEF Tick
<1>5. CASE UNCHANGED vars
  BY <1>1, <1>5 DEF vars, chainVars
<1>6. QED
  BY <1>2, <1>3, <1>4, <1>5 DEF Next

LEMMA StandingAlways == Spec => []StandingInv
  BY AssetsKeepAccess, StandingInvariant, PTL

LEMMA CustodyAlways == Spec => []CustodyInv
  BY StandingAlways, CustodyInitInv, CustodyNextInv, PTL DEF Spec

(* Type correctness of the contracts together.                             *)
THEOREM AssetTypeCorrect == Spec => []AssetTypeOK
<1>1. StandingInv /\ CustodyInv => AssetTypeOK
  BY DEF StandingInv, AccessInv, CustodyInv, AssetTables, AssetTypeOK, Call
<1>2. QED
  BY <1>1, StandingAlways, CustodyAlways, PTL

(* ERC-721's owner and assignedTo agree, and an organization's list has    *)
(* each of its certificates exactly once: mintAsset writes them before the *)
(* recipient runs, and hand moves both.                                    *)
THEOREM CustodyStaysAgreed == Spec => []CustodyAgrees
<1>1. CustodyInv => CustodyAgrees
  <2> SUFFICES ASSUME CustodyInv PROVE CustodyAgrees
    OBVIOUS
  <2>1. ASSUME NEW t \in TokenId
        PROVE  /\ ownerOf[t] = assets[t].assignedTo
               /\ t \in minted <=> ownerOf[t] # Zero
               /\ t \in minted <=> assetExists(t)
    <3>1. InCustody(t, ownerOf[t], assets[t]) /\ nextTokenId \in Nat /\ t \in Nat
      BY DEF CustodyInv, Custody, AssetTables, TokenId
    <3>2. QED
      BY <3>1 DEF InCustody, minted, assetExists, organizationExists
  <2>2. ASSUME NEW o \in OrgId, NEW t \in TokenId
        PROVE  Cardinality({i \in 1..Len(orgAssets[o]) : orgAssets[o][i] = t})
                 = IF t \in minted /\ assets[t].orgId = o THEN 1 ELSE 0
    <3> DEFINE places == {i \in 1..Len(orgAssets[o]) : orgAssets[o][i] = t}
    <3>1. CASE t \in minted /\ assets[t].orgId = o
      <4>1. PICK i \in 1..Len(orgAssets[o]) : orgAssets[o][i] = t
        BY <3>1 DEF CustodyInv, Listed
      <4>2. places = {i}
        BY <4>1 DEF CustodyInv, Listed
      <4>3. QED
        BY <3>1, <4>2, FS_Singleton
    <3>2. CASE ~(t \in minted /\ assets[t].orgId = o)
      <4>1. places = {}
        BY <3>2 DEF CustodyInv, Listed, minted
      <4>2. QED
        BY <3>2, <4>1, FS_EmptySet
    <3>3. QED
      BY <3>1, <3>2
  <2>3. QED
    BY <2>1, <2>2 DEF CustodyAgrees
<1>2. QED
  BY <1>1, CustodyAlways, PTL

(* Certificates move only in transactions of those who may transfer the    *)
(* assets of their organization, and land with a member or with the seat:  *)
(* in every step, those inside a recipient's callback included.            *)
THEOREM OnlyOrganizationsMoveCustody == Spec => CustodyMovedByOrganization
<1>1. StandingInv /\ CustodyInv /\ [Next]_vars =>
        [\A t \in minted :
           ownerOf'[t] # ownerOf[t] =>
             /\ lawfulHolder(t)
             /\ \A s \in Wallet : ~mayMove(s, t) => ~Tx(s)]_vars
  <2> SUFFICES ASSUME StandingInv, CustodyInv, Next,
                      NEW t \in minted, ownerOf'[t] # ownerOf[t]
               PROVE  lawfulHolder(t) /\ \A s \in Wallet : ~mayMove(s, t) => ~Tx(s)
    OBVIOUS
  <2>1. PICK s \in Wallet : Tx(s)
    <3>1. ~finishMint
      BY FinishMintInv
    <3>2. ~UNCHANGED assetVars
      BY DEF assetVars
    <3>3. QED
      BY <3>1, <3>2 DEF Next
  <2>2. lawfulHolder(t)
    BY <2>1, TxInv
  <2>3. ASSUME NEW s2 \in Wallet, ~mayMove(s2, t) PROVE ~Tx(s2)
    BY <2>3, TxInv
  <2>4. QED
    BY <2>2, <2>3
<1>2. QED
  BY <1>1, StandingAlways, CustodyAlways, PTL DEF Spec, CustodyMovedByOrganization

-----------------------------------------------------------------------------
(* The mirrored records: bound ones were anchored by whoever bound them,   *)
(* the demo organization is created once, and a flow nobody disturbs ends  *)
(* with the row equal to the anchor.                                       *)

FlowRecord ==
  [pc : {"idle", "save", "read", "sign", "prepare", "create", "find", "bind"},
   wallet : Wallet, hash : Bytes32, call : {"none", "register", "update"},
   org : OrgId, alone : BOOLEAN]

SeedRecord ==
  [pc : {"idle", "person", "register", "count", "scan", "create", "await", "name", "offchain"},
   i : Nat, count : OrgId, org : OrgId]

-----------------------------------------------------------------------------
(* The invariant of the records.                                           *)

(* The scripts count from 1, and a person who is registered is one of the  *)
(* list.                                                                   *)
Typed ==
  /\ RecordsTypeOK
  /\ seed.i # 0
  /\ seedAt("register") => seed.i <= Len(People)

(* Everything an organization has been is in its history.                  *)
Witnessed ==
  /\ anchors \in [OrgId -> SUBSET (Address \X Bytes32)]
  /\ \A o \in OrgId : organizationExists(o) => anchorsNow(o) \subseteq anchors[o]

(* Between the comparison and the write, what was compared stays part of   *)
(* the history.                                                            *)
Earned ==
  /\ \A f \in Flow : at(f, "bind") => <<flow[f].wallet, flow[f].hash>> \in anchors[flow[f].org]
  /\ OrgRecordEarned

(* An organization that was anything but the demo is not it any more.      *)
Demo       == <<Deployer, SeedHash>>
Spoiled(o) == \E a \in anchors[o] : a # Demo

(* The script sends an organization after it found every earlier one of    *)
(* its own changed and in a block; nobody but the script creates more of   *)
(* those meanwhile.                                                        *)
PassedSpoiled ==
  seedAt("scan") => /\ seed.count <= organizationCount
                    /\ seeded \subseteq 1..seed.count
                    /\ \A o \in 1..seed.count : o < seed.i => Spoiled(o)

AllSpoiled == \A o \in seeded : Spoiled(o)
OneIntact  == \A o, p \in seeded : o = p \/ Spoiled(o) \/ Spoiled(p)
Unhasty    == /\ PassedSpoiled
              /\ seedAt("create") \/ unmined > 0 => AllSpoiled
              /\ seedAt("scan") \/ seedAt("create") => unmined = 0
              /\ unmined <= 1
              /\ OneIntact

SeededInv == seeded \subseteq 1..organizationCount /\ (~hasty => Unhasty)

(* A flow that is alone finds the world as it left it.                     *)
Undisturbed(f) ==
  /\ \A g \in Flow \ {f} : at(g, "idle")
  /\ at(f, "read") \/ at(f, "sign") => profiles[flow[f].wallet] = flow[f].hash
  /\ at(f, "sign") => flow[f].call = nextStep(f)
  /\ at(f, "bind") => organizations[flow[f].org].metadataHash = flow[f].hash

AloneInv == \A f \in Flow : flow[f].alone => Undisturbed(f)

RecordsInv ==
  Typed /\ OrganizationsSeated /\ Witnessed /\ Earned /\ SeededInv /\ AloneInv

LEMMA RecordsInitInv == RecordsInit => RecordsInv
<1> SUFFICES ASSUME RecordsInit PROVE RecordsInv
  OBVIOUS
<1> USE WalletAssumption, OrgBound
<1>1. RegistryTypeOK /\ OrganizationsSeated
  BY RegistryInitTypeOK, RegistryInitSeated DEF RecordsInit
<1>2. Idle \in FlowRecord /\ Idle.pc = "idle" /\ Idle.alone = FALSE
  BY DEF Idle, FlowRecord, OrgId, Bytes32
<1>3. NoSeed \in SeedRecord /\ NoSeed.pc = "idle" /\ NoSeed.i = 1
  BY DEF NoSeed, SeedRecord, OrgId
<1>4. /\ profiles \in [Wallet -> Bytes32]
      /\ orgRows \in [OrgId -> [hash : Bytes32, by : Address]]
  BY DEF RecordsInit, Unbound, Address, Bytes32
<1>5. flow \in [Flow -> FlowRecord] /\ seed \in SeedRecord
  BY <1>2, <1>3 DEF RecordsInit
<1>6. Typed
  BY <1>1, <1>3, <1>4, <1>5 DEF Typed, RecordsTypeOK, FlowRecord, SeedRecord, RecordsInit, seedAt
<1>7. Witnessed
  BY DEF Witnessed, RecordsInit, RegistryInit, organizationExists, OrgId
<1>8. Earned
  BY <1>2 DEF Earned, RecordsInit, at, OrgRecordEarned
<1>9. SeededInv
  BY <1>3
     DEF SeededInv, Unhasty, PassedSpoiled, AllSpoiled, OneIntact, RecordsInit, seedAt
<1>10. AloneInv
  BY <1>2 DEF AloneInv, RecordsInit
<1> QED
  BY <1>1, <1>6, <1>7, <1>8, <1>9, <1>10 DEF RecordsInv

-----------------------------------------------------------------------------
(* What a step does to the chain and its history: nothing, or a            *)
(* transaction of somebody, after which the history has been brought up to *)
(* date unless the transaction was about an identity.                      *)

ChainEffect ==
  \/ UNCHANGED <<registryVars, anchors>>
  \/ /\ \E s \in Wallet : RegistryTx(s)
     /\ witness \/ UNCHANGED <<organizations, organizationCount, anchors>>

LEMMA FlowTyped ==
  ASSUME RecordsTypeOK, NEW f \in Flow
  PROVE  /\ flow[f] \in FlowRecord
         /\ flow[f].wallet \in Wallet /\ flow[f].hash \in Bytes32 /\ flow[f].org \in OrgId
         /\ flow[f].alone \in BOOLEAN
<1>1. flow[f] \in FlowRecord
  BY DEF RecordsTypeOK, FlowRecord
<1> QED
  BY <1>1 DEF FlowRecord

LEMMA ChainStep ==
  ASSUME Typed, [RecordsNext]_allVars
  PROVE  ChainEffect
<1> USE DEF histVars
<1>1. ASSUME NEW f \in Flow, FlowStep(f) PROVE ChainEffect
  <2>1. flow[f].wallet \in Wallet /\ flow[f].hash \in Bytes32
    BY FlowTyped DEF Typed
  <2>2. ASSUME NEW r, start(f, r) PROVE ChainEffect
    BY <2>2 DEF start, ChainEffect
  <2>3. CASE saveProfile(f) \/ answerProfile(f)
    BY <2>3 DEF saveProfile, answerProfile, ChainEffect
  <2>4. CASE signAnchor(f)
    <3>1. CASE UNCHANGED registryVars
      BY <2>4, <3>1 DEF signAnchor, ChainEffect
    <3>2. CASE updateIdentityHash(flow[f].wallet, flow[f].hash)
      BY <2>1, <2>4, <3>2 DEF signAnchor, ChainEffect, RegistryTx, updateIdentityHash
    <3>3. CASE registerIdentity(flow[f].wallet, flow[f].hash)
      BY <2>1, <2>4, <3>3 DEF signAnchor, ChainEffect, RegistryTx, registerIdentity, register
    <3> QED
      BY <2>4, <3>1, <3>2, <3>3 DEF signAnchor
  <2>5. CASE prepareOrganization(f) \/ findOrganization(f)
    BY <2>5 DEF prepareOrganization, findOrganization, ChainEffect
  <2>6. CASE signCreate(f)
    BY <2>1, <2>6 DEF signCreate, ChainEffect, RegistryTx
  <2>7. CASE bindOrganization(f) \/ flowFails(f)
    BY <2>7 DEF bindOrganization, flowFails, ChainEffect
  <2> QED
    BY <1>1, <2>2, <2>3, <2>4, <2>5, <2>6, <2>7 DEF FlowStep
<1>2. CASE SeedStep
  <2>1. CASE \/ seedStart \/ seedPerson \/ seedCount \/ seedScan \/ seedCreate \/ dropCreate
             \/ seedName \/ seedStops
    BY <2>1
       DEF seedStart, seedPerson, seedCount, seedScan, seedCreate, dropCreate, seedName, seedStops,
           reading, ChainEffect
  <2>2. CASE seedRegister
    <3>1. seed.i \in 1..Len(People)
      BY <2>2 DEF Typed, RecordsTypeOK, seedRegister, seedAt
    <3>2. People[seed.i] \in Address /\ PersonHash \in Bytes32 /\ Deployer \in Wallet
      BY <3>1, RecordsAssumption, WalletAssumption DEF Address, Bytes32
    <3>3. RegistryTx(Deployer)
      BY <2>2, <3>2 DEF seedRegister, RegistryTx
    <3> QED
      BY <2>2, <3>2, <3>3 DEF seedRegister, registerIdentityFor, register, ChainEffect
  <2>3. CASE mineCreate
    <3>1. SeedHash \in Bytes32 /\ Deployer \in Wallet
      BY RecordsAssumption, WalletAssumption DEF Bytes32
    <3> QED
      BY <2>3, <3>1 DEF mineCreate, RegistryTx, ChainEffect
  <2>4. CASE seedProfile
    BY <2>4 DEF seedProfile, ChainEffect
  <2> QED
    BY <1>2, <2>1, <2>2, <2>3, <2>4 DEF SeedStep
<1>3. CASE outside
  BY <1>3 DEF outside, RegistryNext, ChainEffect
<1>4. CASE UNCHANGED allVars
  BY <1>4 DEF allVars, ChainEffect
<1> QED
  BY <1>1, <1>2, <1>3, <1>4 DEF RecordsNext

(* Organizations are only ever added.                                      *)
LEMMA TxCounts ==
  ASSUME RegistryTypeOK, NEW s \in Wallet, RegistryTx(s)
  PROVE  organizationCount <= organizationCount'
<1>1. organizationCount \in Nat
  BY OrgBound DEF RegistryTypeOK, OrgId
<1>2. organizationCount' \in {organizationCount, organizationCount + 1}
  BY DEF RegistryTx, setRegistrar, registerIdentity, registerIdentityFor, register,
         updateIdentityHash, revokeIdentity, reactivateIdentity, createOrganization,
         updateOrganizationMetadata, setOrganizationActive, transferOrgRootAdmin, moveOwnership
<1> QED
  BY <1>1, <1>2

(* The registry keeps its invariants, and the history grows and stays      *)
(* complete.                                                               *)
LEMMA ChainInv ==
  ASSUME RecordsInv, ChainEffect
  PROVE  /\ RegistryTypeOK' /\ OrganizationsSeated'
         /\ organizationCount <= organizationCount'
         /\ \A o \in OrgId : anchors[o] \subseteq anchors'[o]
         /\ Witnessed'
<1>0. RegistryTypeOK /\ OrganizationsSeated /\ Witnessed
  BY DEF RecordsInv, Typed, RecordsTypeOK
<1>1. CASE UNCHANGED <<registryVars, anchors>>
  <2>1. UNCHANGED <<identities, isRegistrar, organizations, organizationCount, owner, anchors>>
    BY <1>1 DEF registryVars
  <2>2. RegistryTypeOK' /\ OrganizationsSeated' /\ organizationCount <= organizationCount'
    BY <1>0, <2>1, OrgBound DEF RegistryTypeOK, OrganizationsSeated, organizationExists, OrgId
  <2>3. Witnessed'
    BY <1>0, <2>1 DEF Witnessed, organizationExists, anchorsNow
  <2> QED
    BY <2>1, <2>2, <2>3
<1>2. ASSUME NEW s \in Wallet, RegistryTx(s),
             witness \/ UNCHANGED <<organizations, organizationCount, anchors>>
      PROVE  /\ RegistryTypeOK' /\ OrganizationsSeated'
             /\ organizationCount <= organizationCount'
             /\ \A o \in OrgId : anchors[o] \subseteq anchors'[o]
             /\ Witnessed'
  <2>1. RegistryTypeOK' /\ OrganizationsSeated' /\ organizationCount <= organizationCount'
    BY <1>0, <1>2, RegistryTxTypeOK, RegistryTxSeated, TxCounts
  <2>2. CASE UNCHANGED <<organizations, organizationCount, anchors>>
    BY <1>0, <2>1, <2>2 DEF Witnessed, organizationExists, anchorsNow
  <2>3. CASE witness
    <3>1. ASSUME NEW o \in OrgId
          PROVE  /\ anchorsNow(o)' \subseteq Address \X Bytes32
                 /\ anchors[o] \subseteq Address \X Bytes32
      BY <1>0, <2>1 DEF anchorsNow, RegistryTypeOK, Organization, Witnessed
    <3>2. \A o \in OrgId : anchors'[o] = IF organizationExists(o)'
                                         THEN anchors[o] \cup anchorsNow(o)' ELSE anchors[o]
      BY <2>3 DEF witness
    <3>3. anchors' \in [OrgId -> SUBSET (Address \X Bytes32)]
      BY <2>3, <3>1 DEF witness
    <3>4. \A o \in OrgId : organizationExists(o)' => anchorsNow(o)' \subseteq anchors'[o]
      BY <3>2
    <3> QED
      BY <2>1, <3>2, <3>3, <3>4 DEF Witnessed
  <2> QED
    BY <1>2, <2>1, <2>2, <2>3
<1> QED
  BY <1>1, <1>2 DEF ChainEffect

-----------------------------------------------------------------------------
(* What a step does to the flows: one of them at most moves on, and the    *)
(* others stay where they are, alone only if they were and nothing they    *)
(* had read has moved.                                                     *)

Stays(f) ==
  /\ flow'[f].pc = flow[f].pc /\ flow'[f].wallet = flow[f].wallet /\ flow'[f].hash = flow[f].hash
  /\ flow'[f].call = flow[f].call /\ flow'[f].org = flow[f].org
  /\ flow'[f].alone => flow[f].alone /\ ~touched(f)

LEMMA StaysBehind ==
  ASSUME RecordsTypeOK, NEW g \in Flow,
         flow'[g] = [flow[g] EXCEPT !.alone = @ /\ ~touched(g)]
  PROVE  flow'[g] \in FlowRecord /\ Stays(g)
<1>1. PICK b \in BOOLEAN : b = (flow[g].alone /\ ~touched(g))
  OBVIOUS
<1>2. flow[g] \in FlowRecord /\ flow'[g] = [flow[g] EXCEPT !.alone = b]
  BY <1>1, FlowTyped
<1>3. /\ flow'[g] \in FlowRecord /\ flow'[g].alone = b
      /\ flow'[g].pc = flow[g].pc /\ flow'[g].wallet = flow[g].wallet
      /\ flow'[g].hash = flow[g].hash /\ flow'[g].call = flow[g].call
      /\ flow'[g].org = flow[g].org
  BY <1>2 DEF FlowRecord
<1> QED
  BY <1>1, <1>3 DEF Stays

LEMMA StepMoves ==
  ASSUME RecordsTypeOK, NEW f \in Flow, NEW r \in FlowRecord, step(f, r)
  PROVE  /\ flow' \in [Flow -> FlowRecord]
         /\ flow'[f] = r
         /\ \A g \in Flow \ {f} : Stays(g)
<1>1. /\ flow' = [g \in Flow |-> flow'[g]] /\ flow'[f] = r
      /\ \A g \in Flow \ {f} : flow'[g] = [flow[g] EXCEPT !.alone = @ /\ ~touched(g)]
  BY DEF step
<1>2. \A g \in Flow \ {f} : flow'[g] \in FlowRecord /\ Stays(g)
  BY <1>1, StaysBehind
<1> QED
  BY <1>1, <1>2

LEMMA OthersStay ==
  ASSUME RecordsTypeOK, others
  PROVE  flow' \in [Flow -> FlowRecord] /\ \A g \in Flow : Stays(g)
<1>1. /\ flow' = [g \in Flow |-> flow'[g]]
      /\ \A g \in Flow : flow'[g] = [flow[g] EXCEPT !.alone = @ /\ ~touched(g)]
  BY DEF others
<1>2. \A g \in Flow : flow'[g] \in FlowRecord /\ Stays(g)
  BY <1>1, StaysBehind
<1> QED
  BY <1>1, <1>2

LEMMA Starts ==
  ASSUME RecordsTypeOK, NEW f \in Flow, NEW r \in FlowRecord, start(f, r)
  PROVE  /\ flow' \in [Flow -> FlowRecord]
         /\ flow'[f].pc = r.pc
         /\ flow'[f].alone => \A g \in Flow \ {f} : at(g, "idle")
         /\ \A g \in Flow \ {f} : Stays(g) /\ ~flow'[g].alone
<1>1. /\ flow' = [g \in Flow |-> flow'[g]]
      /\ flow'[f] = [r EXCEPT !.alone = \A h \in Flow \ {f} : at(h, "idle")]
      /\ \A g \in Flow \ {f} : flow'[g] = [flow[g] EXCEPT !.alone = FALSE]
  BY DEF start
<1>2. PICK b \in BOOLEAN : b = \A h \in Flow \ {f} : at(h, "idle")
  OBVIOUS
<1>3. flow'[f] = [r EXCEPT !.alone = b]
  BY <1>1, <1>2
<1>4. flow'[f] \in FlowRecord /\ flow'[f].pc = r.pc /\ flow'[f].alone = b
  BY <1>3 DEF FlowRecord
<1>5. ASSUME NEW g \in Flow \ {f}
      PROVE  flow'[g] \in FlowRecord /\ Stays(g) /\ ~flow'[g].alone
  <2>1. flow[g] \in FlowRecord /\ flow'[g] = [flow[g] EXCEPT !.alone = FALSE]
    BY <1>1, FlowTyped
  <2>2. /\ flow'[g] \in FlowRecord /\ ~flow'[g].alone
        /\ flow'[g].pc = flow[g].pc /\ flow'[g].wallet = flow[g].wallet
        /\ flow'[g].hash = flow[g].hash /\ flow'[g].call = flow[g].call
        /\ flow'[g].org = flow[g].org
    BY <2>1 DEF FlowRecord
  <2> QED
    BY <2>2 DEF Stays
<1> QED
  BY <1>1, <1>2, <1>4, <1>5

(* The records a flow moves on with.                                       *)
LEMMA Goes ==
  ASSUME RecordsTypeOK, NEW f \in Flow,
         NEW pc \in {"idle", "save", "read", "sign", "prepare", "create", "find", "bind"}
  PROVE  /\ goto(f, pc) \in FlowRecord
         /\ goto(f, pc).pc = pc
         /\ goto(f, pc).wallet = flow[f].wallet /\ goto(f, pc).hash = flow[f].hash
         /\ goto(f, pc).call = flow[f].call /\ goto(f, pc).org = flow[f].org
         /\ goto(f, pc).alone = flow[f].alone
  BY FlowTyped DEF goto, FlowRecord

LEMMA IdleTyped == Idle \in FlowRecord /\ Idle.pc = "idle" /\ ~Idle.alone
  BY WalletAssumption, OrgBound DEF Idle, FlowRecord, OrgId, Bytes32

LEMMA FlowsMove ==
  ASSUME RecordsTypeOK, organizationCount' \in OrgId, NEW f \in Flow, FlowStep(f)
  PROVE  flow' \in [Flow -> FlowRecord] /\ \A g \in Flow \ {f} : Stays(g)
<1>1. ASSUME NEW r \in FlowRecord, step(f, r) \/ start(f, r)
      PROVE  flow' \in [Flow -> FlowRecord] /\ \A g \in Flow \ {f} : Stays(g)
  BY <1>1, StepMoves, Starts
<1>2. ASSUME NEW w \in Wallet, NEW h \in Hash, NEW pc \in {"save", "prepare"}
      PROVE  [Idle EXCEPT !.pc = pc, !.wallet = w, !.hash = h] \in FlowRecord
  BY IdleTyped DEF FlowRecord, Bytes32
<1>3. ASSUME NEW w \in Wallet, NEW h \in Hash, NEW o \in OrgId
      PROVE  [Idle EXCEPT !.pc = "find", !.wallet = w, !.hash = h, !.org = o] \in FlowRecord
  BY IdleTyped DEF FlowRecord, Bytes32
<1>4. [goto(f, "sign") EXCEPT !.call = nextStep(f)] \in FlowRecord
  BY Goes DEF FlowRecord, nextStep
<1>5. [goto(f, "find") EXCEPT !.org = organizationCount'] \in FlowRecord
  BY Goes DEF FlowRecord
<1>6. CASE \/ \E w \in Wallet, h \in Hash, pc \in {"save", "prepare"} :
                start(f, [Idle EXCEPT !.pc = pc, !.wallet = w, !.hash = h])
           \/ \E w \in Wallet, h \in Hash, o \in OrgId \ {0} :
                start(f, [Idle EXCEPT !.pc = "find", !.wallet = w, !.hash = h, !.org = o])
  BY <1>1, <1>2, <1>3, <1>6
<1>7. CASE saveProfile(f) \/ answerProfile(f) \/ signAnchor(f)
  BY <1>1, <1>4, <1>7, Goes, IdleTyped DEF saveProfile, answerProfile, signAnchor
<1>8. CASE prepareOrganization(f) \/ signCreate(f)
  BY <1>1, <1>5, <1>8, Goes, IdleTyped DEF prepareOrganization, signCreate
<1>9. CASE findOrganization(f) \/ bindOrganization(f) \/ flowFails(f)
  BY <1>1, <1>9, Goes, IdleTyped DEF findOrganization, bindOrganization, flowFails
<1> QED
  BY <1>6, <1>7, <1>8, <1>9 DEF FlowStep

(* What SeedStep leaves of the flows: a profile the script writes leaves   *)
(* nobody alone whose profile it is.                                       *)
LEMMA SeedLeavesFlows ==
  ASSUME Typed, SeedStep
  PROVE  flow' \in [Flow -> FlowRecord] /\ \A g \in Flow : Stays(g)
<1>0. RecordsTypeOK /\ flow \in [Flow -> FlowRecord]
  BY DEF Typed, RecordsTypeOK, FlowRecord
<1>1. CASE UNCHANGED <<registryVars, flow>>
  BY <1>0, <1>1 DEF Stays, touched, registryVars
<1>2. CASE others
  BY <1>0, <1>2, OthersStay
<1>3. CASE seedProfile
  <2>1. /\ flow' = [g \in Flow |-> flow'[g]]
        /\ \A g \in Flow : flow'[g] =
             [flow[g] EXCEPT !.alone = @ /\ flow[g].wallet # People[seed.i]]
    BY <1>3 DEF seedProfile
  <2>2. ASSUME NEW g \in Flow PROVE flow'[g] \in FlowRecord /\ Stays(g)
    <3>1. PICK b \in BOOLEAN : b = (flow[g].alone /\ flow[g].wallet # People[seed.i])
      OBVIOUS
    <3>2. flow[g] \in FlowRecord /\ flow'[g] = [flow[g] EXCEPT !.alone = b]
      BY <1>0, <2>1, <3>1
    <3>3. /\ flow'[g] \in FlowRecord /\ flow'[g].alone = b
          /\ flow'[g].pc = flow[g].pc /\ flow'[g].wallet = flow[g].wallet
          /\ flow'[g].hash = flow[g].hash /\ flow'[g].call = flow[g].call
          /\ flow'[g].org = flow[g].org
      BY <3>2 DEF FlowRecord
    <3>4. ~touched(g)
      BY <1>3 DEF seedProfile, touched, registryVars
    <3> QED
      BY <3>1, <3>3, <3>4 DEF Stays
  <2> QED
    BY <2>1, <2>2
<1> QED
  BY <1>1, <1>2, <1>3 DEF SeedStep, seedStart, seedPerson, seedRegister, seedCount, seedScan,
     seedCreate, mineCreate, dropCreate, seedName, seedStops, reading

LEMMA TypedInv ==
  ASSUME RecordsInv, [RecordsNext]_allVars
  PROVE  Typed'
<1>0. Typed /\ RecordsTypeOK /\ seed \in SeedRecord /\ flow \in [Flow -> FlowRecord]
  BY DEF RecordsInv, Typed, RecordsTypeOK, SeedRecord, FlowRecord
<1>1. RegistryTypeOK' /\ organizationCount' \in OrgId
  BY <1>0, ChainStep, ChainInv DEF RegistryTypeOK
<1>2. /\ profiles \in [Wallet -> Bytes32]
      /\ orgRows \in [OrgId -> [hash : Bytes32, by : Address]]
      /\ organizationCount \in OrgId
  BY <1>0 DEF RecordsTypeOK, RegistryTypeOK
<1>3. flow' \in [Flow -> FlowRecord]
  <2>1. CASE \E f \in Flow : FlowStep(f)
    BY <1>0, <1>1, <2>1, FlowsMove
  <2>2. CASE SeedStep
    BY <1>0, <2>2, SeedLeavesFlows
  <2>3. CASE outside
    BY <1>0, <2>3, OthersStay DEF outside
  <2>4. CASE UNCHANGED allVars
    BY <1>0, <2>4 DEF allVars
  <2> QED
    BY <2>1, <2>2, <2>3, <2>4 DEF RecordsNext
<1>4. profiles' \in [Wallet -> Bytes32] /\ orgRows' \in [OrgId -> [hash : Bytes32, by : Address]]
  <2>1. CASE UNCHANGED recordVars
    BY <1>2, <2>1 DEF recordVars
  <2>2. ASSUME NEW f \in Flow, saveProfile(f)
      PROVE  profiles' \in [Wallet -> Bytes32] /\ orgRows' \in [OrgId -> [hash : Bytes32, by : Address]]
    BY <1>0, <1>2, <2>2, FlowTyped DEF saveProfile
  <2>3. ASSUME NEW f \in Flow, bindOrganization(f)
      PROVE  profiles' \in [Wallet -> Bytes32] /\ orgRows' \in [OrgId -> [hash : Bytes32, by : Address]]
    <3>1. [hash |-> flow[f].hash, by |-> flow[f].wallet] \in [hash : Bytes32, by : Address]
      BY <1>0, FlowTyped DEF Address
    <3> QED
      BY <1>2, <2>3, <3>1 DEF bindOrganization
  <2>4. CASE seedProfile
    BY <1>2, <2>4, RecordsAssumption DEF seedProfile, Bytes32
  <2> QED
    BY <2>1, <2>2, <2>3, <2>4
       DEF RecordsNext, FlowStep, SeedStep, outside, allVars, recordVars, start, answerProfile,
           signAnchor, prepareOrganization, signCreate, findOrganization, flowFails, seedStart,
           seedPerson, seedRegister, seedCount, seedScan, seedCreate, mineCreate, dropCreate,
           seedName, seedStops, seedGoto
<1>5. /\ seed' \in SeedRecord /\ seed'.i # 0
      /\ seed'.pc = "register" => seed'.i <= Len(People)
  <2>0. /\ seed \in SeedRecord /\ seed.count \in OrgId /\ seed.org \in OrgId
        /\ seed.i \in Nat \ {0} /\ Len(People) \in Nat
        /\ seedAt("register") => seed.i <= Len(People)
    <3>1. seed \in SeedRecord /\ seed.i # 0 /\ (seedAt("register") => seed.i <= Len(People))
      BY <1>0 DEF Typed
    <3> QED
      BY <3>1, RecordsAssumption DEF SeedRecord
  <2> USE DEF SeedRecord, seedGoto, seedAt
  <2>1. CASE seedStart \/ seedStops
    BY <2>1, OrgBound DEF seedStart, seedStops, NoSeed, OrgId
  <2>2. CASE seedPerson
    BY <1>0, <2>0, <2>2 DEF seedPerson
  <2>3. CASE seedRegister
    <3>1. seed' = [pc |-> "person", i |-> seed.i + 1, count |-> seed.count, org |-> seed.org]
      BY <2>0, <2>3 DEF seedRegister
    <3> QED
      BY <2>0, <3>1
  <2>4. CASE seedCount
    <3>1. seed' = [pc |-> "scan", i |-> 1, count |-> organizationCount, org |-> seed.org]
      BY <2>4, <2>0 DEF seedCount
    <3> QED
      BY <1>2, <2>0, <3>1
  <2>5. CASE seedScan
    <3>1. CASE seed.i > seed.count \/ anchorsNow(seed.i) # {<<Deployer, SeedHash>>}
      BY <2>0, <2>5, <3>1 DEF seedScan
    <3>2. CASE ~(seed.i > seed.count) /\ anchorsNow(seed.i) = {<<Deployer, SeedHash>>}
      <4>1. seed.i \in OrgId
        BY <2>0, <3>2, OrgBound DEF OrgId
      <4>2. seed' = [pc |-> "offchain", i |-> 1, count |-> seed.count, org |-> seed.i]
        BY <2>0, <2>5, <3>2 DEF seedScan
      <4> QED
        BY <2>0, <4>1, <4>2
    <3> QED
      BY <3>1, <3>2
  <2>6. CASE seedCreate \/ mineCreate \/ dropCreate
    <3>1. CASE seed' = [seed EXCEPT !.pc = "await"] \/ seed' = [seed EXCEPT !.pc = "name"]
      BY <2>0, <3>1
    <3>2. CASE seed' \in {seed, NoSeed}
      BY <2>0, <3>2, OrgBound DEF NoSeed, OrgId
    <3> QED
      BY <2>6, <3>1, <3>2 DEF seedCreate, mineCreate, dropCreate
  <2>7. CASE seedName
    <3>1. seed' = [pc |-> "offchain", i |-> 1, count |-> seed.count, org |-> organizationCount]
      BY <2>7, <2>0 DEF seedName
    <3> QED
      BY <1>2, <2>0, <3>1
  <2>8. CASE seedProfile
    BY <1>0, <2>0, <2>8 DEF seedProfile
  <2>9. CASE UNCHANGED seed
    BY <1>0, <2>0, <2>9
  <2> QED
    BY <2>1, <2>2, <2>3, <2>4, <2>5, <2>6, <2>7, <2>8, <2>9
       DEF RecordsNext, FlowStep, SeedStep, outside, allVars, start, saveProfile, answerProfile,
           signAnchor, prepareOrganization, signCreate, findOrganization, bindOrganization, flowFails
<1>6. unmined' \in Nat
  <2>1. unmined \in Nat
    BY <1>0 DEF RecordsTypeOK
  <2>2. CASE seedCreate
    BY <2>1, <2>2 DEF seedCreate
  <2>3. CASE mineCreate \/ dropCreate
    BY <2>1, <2>3 DEF mineCreate, dropCreate
  <2> QED
    BY <2>1, <2>2, <2>3
       DEF RecordsNext, FlowStep, SeedStep, outside, allVars, start, saveProfile, answerProfile,
           signAnchor, prepareOrganization, signCreate, findOrganization, bindOrganization, flowFails,
           seedStart, seedPerson, seedRegister, seedCount, seedScan, seedName, seedProfile, seedStops,
           seedGoto
<1> QED
  BY <1>1, <1>3, <1>4, <1>5, <1>6 DEF Typed, RecordsTypeOK, SeedRecord, FlowRecord, seedAt

-----------------------------------------------------------------------------
(* Where the flow that moves is led, as far as the invariant cares.        *)
LEMMA FlowTurns ==
  ASSUME RecordsTypeOK, organizationCount' \in OrgId, NEW f \in Flow, FlowStep(f)
  PROVE  /\ flow'[f].alone => flow[f].alone \/ \A g \in Flow \ {f} : at(g, "idle")
         /\ \/ flow'[f].pc \in {"idle", "save", "prepare", "create", "find"}
            \/ saveProfile(f) /\ flow'[f] = goto(f, "read")
            \/ answerProfile(f) /\ flow'[f] = [goto(f, "sign") EXCEPT !.call = nextStep(f)]
            \/ findOrganization(f) /\ flow'[f] = goto(f, "bind")
               /\ <<flow[f].wallet, flow[f].hash>> \in anchorsNow(flow[f].org)
<1> DEFINE Alone == flow'[f].alone => flow[f].alone \/ \A g \in Flow \ {f} : at(g, "idle")
           Early == flow'[f].pc \in {"idle", "save", "prepare", "create", "find"}
<1>1. ASSUME step(f, Idle) PROVE Alone /\ Early
  BY <1>1, StepMoves, IdleTyped
<1>2. ASSUME NEW pc \in {"create", "read", "bind"}, step(f, goto(f, pc))
      PROVE  Alone /\ flow'[f] = goto(f, pc) /\ (pc = "create" => Early)
  <2>1. goto(f, pc) \in FlowRecord /\ goto(f, pc).pc = pc /\ goto(f, pc).alone = flow[f].alone
    BY Goes
  <2> QED
    BY <1>2, <2>1, StepMoves
<1>3. ASSUME NEW w \in Wallet, NEW h \in Hash, NEW o \in OrgId, NEW pc \in {"save", "prepare"},
             \/ start(f, [Idle EXCEPT !.pc = pc, !.wallet = w, !.hash = h])
             \/ start(f, [Idle EXCEPT !.pc = "find", !.wallet = w, !.hash = h, !.org = o])
      PROVE  Alone /\ Early
  <2>1. /\ [Idle EXCEPT !.pc = pc, !.wallet = w, !.hash = h] \in FlowRecord
        /\ [Idle EXCEPT !.pc = pc, !.wallet = w, !.hash = h].pc = pc
        /\ [Idle EXCEPT !.pc = "find", !.wallet = w, !.hash = h, !.org = o] \in FlowRecord
        /\ [Idle EXCEPT !.pc = "find", !.wallet = w, !.hash = h, !.org = o].pc = "find"
    BY IdleTyped DEF FlowRecord, Bytes32
  <2> QED
    BY <1>3, <2>1, Starts
<1>4. CASE \/ \E w \in Wallet, h \in Hash, pc \in {"save", "prepare"} :
                start(f, [Idle EXCEPT !.pc = pc, !.wallet = w, !.hash = h])
           \/ \E w \in Wallet, h \in Hash, o \in OrgId \ {0} :
                start(f, [Idle EXCEPT !.pc = "find", !.wallet = w, !.hash = h, !.org = o])
  BY <1>3, <1>4, OrgBound DEF OrgId
<1>5. CASE saveProfile(f)
  BY <1>2, <1>5 DEF saveProfile
<1>6. CASE answerProfile(f)
  <2> DEFINE r == [goto(f, "sign") EXCEPT !.call = nextStep(f)]
  <2>1. r \in FlowRecord /\ r.alone = flow[f].alone
    BY Goes DEF FlowRecord, nextStep
  <2> QED
    BY <1>6, <2>1, StepMoves DEF answerProfile
<1>7. CASE signAnchor(f) \/ bindOrganization(f) \/ flowFails(f)
  BY <1>1, <1>7 DEF signAnchor, bindOrganization, flowFails
<1>8. CASE prepareOrganization(f)
  BY <1>1, <1>2, <1>8 DEF prepareOrganization
<1>9. CASE signCreate(f)
  <2> DEFINE r == [goto(f, "find") EXCEPT !.org = organizationCount']
  <2>1. r \in FlowRecord /\ r.alone = flow[f].alone /\ r.pc = "find"
    BY Goes DEF FlowRecord
  <2> QED
    BY <1>9, <2>1, StepMoves DEF signCreate
<1>10. CASE findOrganization(f)
  <2>1. CASE step(f, Idle)
    BY <1>1, <2>1
  <2>2. CASE /\ step(f, goto(f, "bind"))
             /\ organizations[flow[f].org].rootAdmin = flow[f].wallet
             /\ organizations[flow[f].org].metadataHash = flow[f].hash
    BY <1>2, <1>10, <2>2 DEF anchorsNow
  <2> QED
    BY <1>10, <2>1, <2>2 DEF findOrganization
<1> QED
  BY <1>4, <1>5, <1>6, <1>7, <1>8, <1>9, <1>10 DEF FlowStep

(* Nobody moves a flow but itself.                                         *)
LEMMA EverybodyElseStays ==
  ASSUME Typed, [RecordsNext]_allVars, \A f \in Flow : ~FlowStep(f), NEW g \in Flow
  PROVE  Stays(g)
<1>0. RecordsTypeOK
  BY DEF Typed
<1>1. CASE SeedStep
  BY <1>1, SeedLeavesFlows
<1>2. CASE outside
  BY <1>0, <1>2, OthersStay DEF outside
<1>3. CASE UNCHANGED allVars
  BY <1>3 DEF allVars, registryVars, Stays, touched
<1> QED
  BY <1>1, <1>2, <1>3 DEF RecordsNext

LEMMA EarnedInv ==
  ASSUME RecordsInv, [RecordsNext]_allVars
  PROVE  Earned'
<1>0. Typed /\ RecordsTypeOK /\ Witnessed /\ Earned /\ OrganizationsSeated /\ RegistryTypeOK
  BY DEF RecordsInv, Typed, RecordsTypeOK
<1>1. organizationCount' \in OrgId /\ \A o \in OrgId : anchors[o] \subseteq anchors'[o]
  BY <1>0, ChainStep, ChainInv DEF RegistryTypeOK
<1>2. ASSUME NEW g \in Flow, Stays(g), flow'[g].pc = "bind"
      PROVE  <<flow'[g].wallet, flow'[g].hash>> \in anchors'[flow'[g].org]
  <2>1. /\ flow[g].org \in OrgId /\ flow'[g].org = flow[g].org
        /\ flow'[g].wallet = flow[g].wallet /\ flow'[g].hash = flow[g].hash
        /\ at(g, "bind")
    BY <1>0, <1>2, FlowTyped DEF Stays, at
  <2> QED
    BY <1>0, <1>1, <2>1 DEF Earned
<1>3. ASSUME NEW f \in Flow, FlowStep(f), flow'[f].pc = "bind"
      PROVE  <<flow'[f].wallet, flow'[f].hash>> \in anchors'[flow'[f].org]
  <2>1. /\ flow'[f] = goto(f, "bind")
        /\ <<flow[f].wallet, flow[f].hash>> \in anchorsNow(flow[f].org)
    <3>1. goto(f, "read").pc = "read" /\ [goto(f, "sign") EXCEPT !.call = nextStep(f)].pc = "sign"
      BY <1>0, Goes DEF FlowRecord
    <3> QED
      BY <1>0, <1>1, <1>3, <3>1, FlowTurns
  <2>2. /\ flow'[f].wallet = flow[f].wallet /\ flow'[f].hash = flow[f].hash
        /\ flow'[f].org = flow[f].org
    BY <1>0, <2>1, Goes
  <2>3. flow[f].org \in OrgId /\ flow[f].wallet \in Wallet
    BY <1>0, FlowTyped
  <2>4. organizationExists(flow[f].org)
    <3>1. organizations[flow[f].org].rootAdmin = flow[f].wallet
      BY <2>1 DEF anchorsNow
    <3>2. organizations[flow[f].org] # BlankOrganization
      BY <2>3, <3>1, WalletAssumption DEF BlankOrganization
    <3> QED
      BY <1>0, <2>3, <3>2 DEF OrganizationsSeated
  <2> QED
    BY <1>0, <1>1, <2>1, <2>2, <2>3, <2>4 DEF Witnessed
<1>4. \A f \in Flow : at(f, "bind")' => <<flow'[f].wallet, flow'[f].hash>> \in anchors'[flow'[f].org]
  <2>1. CASE \E f \in Flow : FlowStep(f)
    <3>1. PICK f \in Flow : FlowStep(f)
      BY <2>1
    <3>2. \A g \in Flow \ {f} : Stays(g)
      BY <1>0, <1>1, <3>1, FlowsMove
    <3> QED
      BY <1>2, <1>3, <3>1, <3>2 DEF at
  <2>2. CASE \A f \in Flow : ~FlowStep(f)
    BY <1>0, <1>2, <2>2, EverybodyElseStays DEF at
  <2> QED
    BY <2>1, <2>2
<1>5. OrgRecordEarned'
  <2>1. CASE UNCHANGED orgRows
    BY <1>0, <1>1, <2>1 DEF Earned, OrgRecordEarned
  <2>2. ASSUME NEW f \in Flow, bindOrganization(f)
        PROVE  OrgRecordEarned'
    <3>1. /\ flow[f].org \in OrgId
          /\ <<flow[f].wallet, flow[f].hash>> \in anchors[flow[f].org]
          /\ orgRows \in [OrgId -> [hash : Bytes32, by : Address]]
      BY <1>0, <2>2, FlowTyped DEF bindOrganization, Earned, RecordsTypeOK
    <3>2. /\ orgRows'[flow[f].org] = [hash |-> flow[f].hash, by |-> flow[f].wallet]
          /\ \A o \in OrgId \ {flow[f].org} : orgRows'[o] = orgRows[o]
      BY <2>2, <3>1 DEF bindOrganization
    <3> QED
      BY <1>0, <1>1, <3>1, <3>2 DEF Earned, OrgRecordEarned
  <2> QED
    BY <2>1, <2>2
       DEF RecordsNext, FlowStep, SeedStep, outside, allVars, recordVars, start, saveProfile,
           answerProfile, signAnchor, prepareOrganization, signCreate, findOrganization, flowFails,
           seedStart, seedPerson, seedRegister, seedCount, seedScan, seedCreate, mineCreate,
           dropCreate, seedName, seedProfile, seedStops, seedGoto
<1> QED
  BY <1>4, <1>5 DEF Earned

LEMMA SeededKept ==
  ASSUME RecordsInv, [RecordsNext]_allVars
  PROVE  SeededInv'
<1>0. /\ Typed /\ RecordsTypeOK /\ Witnessed /\ SeededInv /\ RegistryTypeOK
      /\ organizationCount \in OrgId /\ organizationCount \in Nat
      /\ seed \in SeedRecord /\ seed.i \in Nat \ {0} /\ seed.count \in Nat
      /\ unmined \in Nat
  BY OrgBound DEF RecordsInv, Typed, RecordsTypeOK, RegistryTypeOK, SeedRecord, OrgId
<1>1. /\ organizationCount <= organizationCount' /\ organizationCount' \in OrgId
      /\ organizationCount' \in Nat
      /\ \A o \in OrgId : anchors[o] \subseteq anchors'[o]
  BY <1>0, ChainStep, ChainInv, OrgBound DEF RegistryTypeOK, OrgId
<1>2. 1..organizationCount \subseteq OrgId /\ seeded \subseteq 1..organizationCount
  BY <1>0, OrgBound DEF OrgId, SeededInv
<1>3. \A o \in 1..organizationCount : Spoiled(o) => Spoiled(o)'
  BY <1>1, <1>2 DEF Spoiled
<1>4. /\ OneIntact /\ UNCHANGED seeded => OneIntact'
      /\ AllSpoiled /\ UNCHANGED seeded => AllSpoiled'
      /\ UNCHANGED seeded => seeded' \subseteq 1..organizationCount'
  <2>1. UNCHANGED seeded => seeded' \subseteq 1..organizationCount'
    BY <1>0, <1>1, <1>2
  <2>2. AllSpoiled /\ UNCHANGED seeded => AllSpoiled'
    BY <1>2, <1>3 DEF AllSpoiled
  <2>3. OneIntact /\ UNCHANGED seeded => OneIntact'
    BY <1>2, <1>3 DEF OneIntact
  <2> QED
    BY <2>1, <2>2, <2>3
<1>5. ASSUME UNCHANGED seeded, ~hasty' => ~hasty,
             ~hasty' => /\ seed'.pc # "scan" \/ PassedSpoiled'
                        /\ seed'.pc = "create" \/ unmined' > 0 => AllSpoiled
                        /\ seed'.pc \in {"scan", "create"} => unmined' = 0
                        /\ unmined' <= 1
      PROVE  SeededInv'
  <2>1. seeded' \subseteq 1..organizationCount'
    BY <1>4, <1>5
  <2>2. ASSUME ~hasty' PROVE Unhasty'
    <3>1. OneIntact'
      BY <1>0, <1>4, <1>5, <2>2 DEF SeededInv, Unhasty
    <3>2. PassedSpoiled'
      BY <1>5, <2>2 DEF PassedSpoiled, seedAt
    <3>3. (seedAt("create") \/ unmined > 0)' => AllSpoiled'
      BY <1>4, <1>5, <2>2 DEF seedAt
    <3> QED
      BY <1>5, <2>2, <3>1, <3>2, <3>3 DEF Unhasty, seedAt
  <2> QED
    BY <2>1, <2>2 DEF SeededInv
<1>6. ASSUME UNCHANGED <<seeded, hasty, seed, unmined>> PROVE SeededInv'
  <2>1. PassedSpoiled => PassedSpoiled'
    BY <1>0, <1>1, <1>2, <1>3, <1>6 DEF PassedSpoiled, seedAt
  <2> QED
    BY <1>0, <1>5, <1>6, <2>1 DEF SeededInv, Unhasty, seedAt
<1>7. ASSUME UNCHANGED <<seeded, hasty, unmined>>, seed'.pc \notin {"scan", "create"}
      PROVE  SeededInv'
  BY <1>0, <1>5, <1>7 DEF SeededInv, Unhasty
<1>8. CASE seedCount
  <2>1. /\ UNCHANGED <<seeded, unmined>> /\ seed'.pc = "scan"
        /\ seed'.count = organizationCount /\ seed'.i = 1
        /\ ~hasty' => ~hasty /\ ~(unmined > 0)
    BY <1>0, <1>8 DEF seedCount, SeedRecord
  <2>2. PassedSpoiled'
    BY <1>0, <1>1, <1>2, <2>1 DEF PassedSpoiled, seedAt
  <2> QED
    BY <1>0, <1>5, <2>1, <2>2
<1>9. CASE seedScan
  <2>1. UNCHANGED <<seeded, hasty, unmined>> /\ seedAt("scan")
    BY <1>9 DEF seedScan, seedGoto
  <2>0. ~hasty => PassedSpoiled /\ unmined = 0
    BY <1>0, <2>1 DEF SeededInv, Unhasty
  <2>2. CASE seed.i > seed.count
    <3>1. seed'.pc = "create"
      BY <1>0, <1>9, <2>2 DEF seedScan, seedGoto, SeedRecord
    <3>2. ~hasty => AllSpoiled
      BY <1>0, <2>0, <2>1, <2>2 DEF PassedSpoiled, AllSpoiled
    <3> QED
      BY <1>5, <2>0, <2>1, <3>1, <3>2
  <2>3. CASE seed.i <= seed.count /\ anchorsNow(seed.i) = {Demo}
    <3>1. seed'.pc = "offchain"
      BY <1>0, <1>9, <2>3 DEF seedScan, seedGoto, SeedRecord, Demo
    <3> QED
      BY <1>7, <2>1, <3>1
  <2>4. CASE seed.i <= seed.count /\ anchorsNow(seed.i) # {Demo}
    <3>1. seed'.pc = "scan" /\ seed'.i = seed.i + 1 /\ seed'.count = seed.count
      BY <1>0, <1>9, <2>1, <2>4 DEF seedScan, seedGoto, seedAt, SeedRecord, Demo
    <3>2. ASSUME ~hasty PROVE PassedSpoiled'
      <4>1. PassedSpoiled
        BY <2>0, <3>2
      <4>2. seed.i \in OrgId /\ organizationExists(seed.i)
        BY <1>0, <2>1, <2>4, <4>1, OrgBound DEF PassedSpoiled, organizationExists, OrgId
      <4>3. anchorsNow(seed.i) \subseteq anchors[seed.i]
        BY <1>0, <4>2 DEF Witnessed
      <4>4. Spoiled(seed.i)
        BY <2>4, <4>3 DEF Spoiled, anchorsNow
      <4>5. ASSUME NEW o \in 1..seed.count, o < seed.i + 1 PROVE Spoiled(o)
        <5>1. o < seed.i \/ o = seed.i
          BY <1>0, <4>5
        <5> QED
          BY <1>0, <2>1, <4>1, <4>4, <5>1 DEF PassedSpoiled
      <4> QED
        BY <1>0, <1>1, <1>3, <2>1, <3>1, <4>1, <4>5 DEF PassedSpoiled, seedAt
    <3> QED
      BY <1>0, <1>5, <2>0, <2>1, <3>1, <3>2
  <2> QED
    BY <1>0, <2>2, <2>3, <2>4
<1>10. CASE seedCreate
  <2>1. /\ UNCHANGED <<seeded, hasty>> /\ seed'.pc = "await" /\ unmined' = unmined + 1
        /\ ~hasty => AllSpoiled /\ unmined = 0
    BY <1>0, <1>10 DEF seedCreate, seedAt, SeededInv, Unhasty, SeedRecord
  <2> QED
    BY <1>0, <1>5, <2>1
<1>11. CASE mineCreate
  <2>1. /\ seeded' = seeded \cup {organizationCount'} /\ UNCHANGED hasty
        /\ unmined > 0 /\ unmined' = unmined - 1
        /\ seed'.pc \in {"name", seed.pc}
        /\ organizationCount' = organizationCount + 1
    BY <1>0, <1>11 DEF mineCreate, SeedRecord, createOrganization
  <2>2. seeded' \subseteq 1..organizationCount'
    BY <1>0, <1>2, <2>1
  <2>3. ASSUME ~hasty PROVE Unhasty'
    <3>1. AllSpoiled /\ unmined' = 0 /\ seed.pc \notin {"scan", "create"}
      BY <1>0, <2>1, <2>3 DEF SeededInv, Unhasty, seedAt
    <3>2. \A o \in seeded : Spoiled(o)'
      BY <1>2, <1>3, <3>1 DEF AllSpoiled
    <3>3. OneIntact'
      BY <2>1, <3>2 DEF OneIntact
    <3> QED
      BY <2>1, <3>1, <3>3 DEF Unhasty, PassedSpoiled, seedAt
  <2> QED
    BY <2>1, <2>2, <2>3 DEF SeededInv
<1>12. CASE dropCreate
  <2>1. /\ UNCHANGED <<seeded, hasty>> /\ unmined > 0 /\ unmined' = unmined - 1
        /\ seed'.pc \in {"idle", seed.pc}
    BY <1>12 DEF dropCreate, NoSeed
  <2>2. ~hasty => AllSpoiled /\ unmined' = 0 /\ seed.pc \notin {"scan", "create"}
    BY <1>0, <2>1 DEF SeededInv, Unhasty, seedAt
  <2> QED
    BY <1>5, <2>1, <2>2
<1>13. CASE SeedStep
  <2>1. CASE seedStart \/ seedStops
    BY <1>7, <2>1 DEF seedStart, seedStops, seedGoto, NoSeed
  <2>2. CASE seedPerson
    <3>1. seed'.pc \in {"person", "register", "count"} /\ UNCHANGED <<seeded, hasty, unmined>>
      BY <1>0, <2>2 DEF seedPerson, seedGoto, seedAt, SeedRecord
    <3> QED
      BY <1>7, <3>1
  <2>3. CASE seedRegister \/ seedName
    <3>1. seed'.pc \in {"person", "offchain"} /\ UNCHANGED <<seeded, hasty, unmined>>
      BY <1>0, <2>3 DEF seedRegister, seedName, seedGoto, SeedRecord
    <3> QED
      BY <1>7, <3>1
  <2>4. CASE seedProfile
    <3>1. seed'.pc = "offchain" /\ UNCHANGED <<seeded, hasty, unmined>>
      BY <1>0, <2>4 DEF seedProfile, seedAt, SeedRecord, histVars
    <3> QED
      BY <1>7, <3>1
  <2> QED
    BY <1>8, <1>9, <1>10, <1>11, <1>12, <1>13, <2>1, <2>2, <2>3, <2>4 DEF SeedStep
<1>14. CASE \/ \E f \in Flow : FlowStep(f)
            \/ outside \/ UNCHANGED allVars
  BY <1>6, <1>14
     DEF FlowStep, outside, allVars, histVars, start, saveProfile, answerProfile, signAnchor,
         prepareOrganization, signCreate, findOrganization, bindOrganization, flowFails
<1> QED
  BY <1>13, <1>14 DEF RecordsNext

(* A flow that stays, alone, has lost nothing.                             *)
LEMMA StaysUndisturbed ==
  ASSUME AloneInv, NEW g \in Flow, Stays(g), flow'[g].alone,
         profiles'[flow[g].wallet] = profiles[flow[g].wallet],
         \A h \in Flow \ {g} : Stays(h)
  PROVE  Undisturbed(g)'
<1>1. /\ Undisturbed(g)
      /\ identities'[flow[g].wallet] = identities[flow[g].wallet]
      /\ organizations' = organizations
  BY DEF AloneInv, Stays, touched
<1>2. /\ flow'[g].pc = flow[g].pc /\ flow'[g].wallet = flow[g].wallet
      /\ flow'[g].hash = flow[g].hash /\ flow'[g].call = flow[g].call
      /\ flow'[g].org = flow[g].org
      /\ \A h \in Flow \ {g} : flow'[h].pc = flow[h].pc
  BY DEF Stays
<1>3. nextStep(g)' = nextStep(g)
  BY <1>1, <1>2 DEF nextStep
<1> QED
  BY <1>1, <1>2, <1>3 DEF Undisturbed, at

LEMMA AloneKept ==
  ASSUME RecordsInv, [RecordsNext]_allVars
  PROVE  AloneInv'
<1>0. Typed /\ RecordsTypeOK /\ AloneInv /\ RegistryTypeOK
  BY DEF RecordsInv, Typed, RecordsTypeOK
<1>1. organizationCount' \in OrgId
  BY <1>0, ChainStep, ChainInv DEF RegistryTypeOK
<1>2. CASE \A f \in Flow : ~FlowStep(f)
  <2> SUFFICES ASSUME NEW g \in Flow, flow'[g].alone PROVE Undisturbed(g)'
    BY DEF AloneInv
  <2>1. \A h \in Flow : Stays(h)
    BY <1>0, <1>2, EverybodyElseStays
  <2>2. profiles'[flow[g].wallet] = profiles[flow[g].wallet]
    <3>1. CASE UNCHANGED profiles
      BY <3>1
    <3>2. CASE seedProfile
      <4>1. /\ flow'[g] = [flow[g] EXCEPT !.alone = @ /\ flow[g].wallet # People[seed.i]]
            /\ profiles' = [profiles EXCEPT ![People[seed.i]] = PersonHash]
        BY <3>2 DEF seedProfile
      <4>2. PICK b \in BOOLEAN : b = (flow[g].alone /\ flow[g].wallet # People[seed.i])
        OBVIOUS
      <4>3. flow[g] \in FlowRecord /\ flow'[g] = [flow[g] EXCEPT !.alone = b]
        BY <1>0, <4>1, <4>2, FlowTyped
      <4>4. flow'[g].alone = b
        BY <4>3 DEF FlowRecord
      <4>5. flow[g].wallet # People[seed.i] /\ flow[g].wallet \in Wallet
        BY <1>0, <4>2, <4>4, FlowTyped
      <4>6. profiles \in [Wallet -> Bytes32]
        BY <1>0 DEF RecordsTypeOK
      <4> QED
        BY <4>1, <4>5, <4>6
    <3> QED
      BY <1>2, <3>1, <3>2
         DEF RecordsNext, SeedStep, outside, allVars, recordVars, seedStart, seedPerson,
             seedRegister, seedCount, seedScan, seedCreate, mineCreate, dropCreate, seedName,
             seedStops, seedGoto
  <2> QED
    BY <1>0, <2>1, <2>2, StaysUndisturbed
<1>3. ASSUME NEW f \in Flow, FlowStep(f), NEW g \in Flow \ {f}, flow'[g].alone
      PROVE  Undisturbed(g)'
  <2>1. Stays(g)
    BY <1>0, <1>1, <1>3, FlowsMove
  <2>2. at(f, "idle")
    BY <1>0, <1>3, <2>1 DEF Stays, AloneInv, Undisturbed
  <2>3. PICK r \in FlowRecord : start(f, r)
    <3>1. ASSUME NEW w \in Wallet, NEW h \in Hash, NEW o \in OrgId, NEW pc \in {"save", "prepare"}
          PROVE  /\ [Idle EXCEPT !.pc = pc, !.wallet = w, !.hash = h] \in FlowRecord
                 /\ [Idle EXCEPT !.pc = "find", !.wallet = w, !.hash = h, !.org = o] \in FlowRecord
      BY IdleTyped DEF FlowRecord, Bytes32
    <3>2. \/ \E w \in Wallet, h \in Hash, pc \in {"save", "prepare"} :
               start(f, [Idle EXCEPT !.pc = pc, !.wallet = w, !.hash = h])
          \/ \E w \in Wallet, h \in Hash, o \in OrgId \ {0} :
               start(f, [Idle EXCEPT !.pc = "find", !.wallet = w, !.hash = h, !.org = o])
      BY <1>3, <2>2
         DEF FlowStep, at, saveProfile, answerProfile, signAnchor, prepareOrganization, signCreate,
             findOrganization, bindOrganization, flowFails
    <3>3. 0 \in OrgId
      BY OrgBound DEF OrgId
    <3> QED
      BY <3>1, <3>2, <3>3
  <2>4. ~flow'[g].alone
    BY <1>0, <2>3, Starts
  <2> QED
    BY <1>3, <2>4
<1>4. ASSUME NEW f \in Flow, FlowStep(f), flow'[f].alone
      PROVE  Undisturbed(f)'
  <2>1. \A g \in Flow \ {f} : flow'[g].pc = "idle"
    <3>1. \A g \in Flow \ {f} : at(g, "idle")
      BY <1>0, <1>1, <1>4, FlowTurns DEF AloneInv, Undisturbed
    <3> QED
      BY <1>0, <1>1, <1>4, <3>1, FlowsMove DEF Stays, at
  <2>2. CASE flow'[f].pc \in {"idle", "save", "prepare", "create", "find"}
    BY <2>1, <2>2 DEF Undisturbed, at
  <2>3. CASE saveProfile(f) /\ flow'[f] = goto(f, "read")
    <3>1. /\ flow'[f].pc = "read" /\ flow'[f].wallet = flow[f].wallet
          /\ flow'[f].hash = flow[f].hash /\ flow[f].wallet \in Wallet
      BY <1>0, <2>3, Goes, FlowTyped
    <3>2. profiles'[flow[f].wallet] = flow[f].hash
      BY <1>0, <2>3, <3>1 DEF saveProfile, RecordsTypeOK
    <3> QED
      BY <2>1, <3>1, <3>2 DEF Undisturbed, at
  <2>4. CASE answerProfile(f) /\ flow'[f] = [goto(f, "sign") EXCEPT !.call = nextStep(f)]
    <3>1. /\ flow'[f].pc = "sign" /\ flow'[f].wallet = flow[f].wallet
          /\ flow'[f].hash = flow[f].hash /\ flow'[f].call = nextStep(f)
          /\ flow'[f].alone = flow[f].alone
      BY <1>0, <2>4, Goes DEF FlowRecord
    <3>2. profiles' = profiles /\ identities' = identities /\ at(f, "read")
      BY <2>4 DEF answerProfile, recordVars, registryVars
    <3>3. profiles[flow[f].wallet] = flow[f].hash
      BY <1>0, <1>4, <3>1, <3>2 DEF AloneInv, Undisturbed
    <3>4. nextStep(f)' = nextStep(f)
      BY <3>1, <3>2 DEF nextStep
    <3> QED
      BY <2>1, <3>1, <3>2, <3>3, <3>4 DEF Undisturbed, at
  <2>5. CASE /\ findOrganization(f) /\ flow'[f] = goto(f, "bind")
             /\ <<flow[f].wallet, flow[f].hash>> \in anchorsNow(flow[f].org)
    <3>1. /\ flow'[f].pc = "bind" /\ flow'[f].org = flow[f].org /\ flow'[f].hash = flow[f].hash
      BY <1>0, <2>5, Goes
    <3>2. organizations' = organizations
      BY <2>5 DEF findOrganization, registryVars
    <3> QED
      BY <2>1, <2>5, <3>1, <3>2 DEF Undisturbed, at, anchorsNow
  <2> QED
    BY <1>0, <1>1, <1>4, <2>2, <2>3, <2>4, <2>5, FlowTurns
<1>5. CASE \E f \in Flow : FlowStep(f)
  BY <1>3, <1>4, <1>5 DEF AloneInv
<1> QED
  BY <1>2, <1>5

-----------------------------------------------------------------------------

LEMMA RecordsInvAlways == RecordsSpec => []RecordsInv
<1>1. RecordsInv /\ [RecordsNext]_allVars => RecordsInv'
  <2> SUFFICES ASSUME RecordsInv, [RecordsNext]_allVars PROVE RecordsInv'
    OBVIOUS
  <2>1. ChainEffect
    BY ChainStep DEF RecordsInv
  <2>2. OrganizationsSeated' /\ Witnessed'
    BY <2>1, ChainInv
  <2> QED
    BY <2>2, TypedInv, EarnedInv, SeededKept, AloneKept DEF RecordsInv
<1> QED
  BY <1>1, RecordsInitInv, PTL DEF RecordsSpec

(* Type correctness: rows, flows, scripts and registry.                    *)
THEOREM RecordsTypeCorrect == RecordsSpec => []RecordsTypeOK
<1>1. RecordsInv => RecordsTypeOK
  BY DEF RecordsInv, Typed
<1> QED
  BY <1>1, RecordsInvAlways, PTL

(* POST /api/organizations/confirm binds a record only for who held the    *)
(* seat while the organization anchored that record, whatever happens      *)
(* between its comparison and its write.                                   *)
THEOREM OrgRecordsAreEarned == RecordsSpec => []OrgRecordEarned
<1>1. RecordsInv => OrgRecordEarned
  BY DEF RecordsInv, Earned
<1> QED
  BY <1>1, RecordsInvAlways, PTL

(* seed-demo, stopped anywhere and run again beside everybody's            *)
(* transactions, never creates its organization twice, provided that no    *)
(* run counts the organizations while an earlier one's is unmined.         *)
THEOREM DemoIsSeededOnce == RecordsSpec => []SeededOnce
<1>1. RecordsInv => SeededOnce
  <2> SUFFICES ASSUME RecordsInv, ~hasty PROVE SeededOnce
    BY DEF SeededOnce
  <2> DEFINE S == {o \in seeded : anchors[o] = {<<Deployer, SeedHash>>}}
  <2>1. \A o, p \in S : o = p
    BY DEF RecordsInv, SeededInv, Unhasty, OneIntact, Spoiled, Demo
  <2>2. CASE S = {}
    BY <2>2, FS_EmptySet DEF SeededOnce
  <2>3. CASE S # {}
    <3>1. PICK o \in S : TRUE
      BY <2>3
    <3>2. S = {o}
      BY <2>1, <3>1
    <3>3. Cardinality(S) = 1
      BY <3>2, FS_Singleton
    <3> QED
      BY <3>3 DEF SeededOnce
  <2> QED
    BY <2>2, <2>3
<1> QED
  BY <1>1, RecordsInvAlways, PTL

(* A profile or an organization saved, signed and bound by a flow nobody   *)
(* disturbs ends with the row equal to the anchor, from whatever earlier   *)
(* flows, scripts and failures left.                                       *)
THEOREM UndisturbedFlowsMirror == RecordsSpec => UndisturbedMirrors
<1> DEFINE Signed(f) ==
      LET w == flow[f].wallet IN
      signAnchor(f) /\ flow[f].alone /\ (identities[w].exists => identities[w].active)
        => profiles'[w] = identities'[w].identityHash
           Bound(f) ==
      bindOrganization(f) /\ flow[f].alone
        => orgRows'[flow[f].org].hash = organizations'[flow[f].org].metadataHash
<1>1. ASSUME RecordsInv, NEW f \in Flow PROVE Signed(f)
  <2> SUFFICES ASSUME signAnchor(f), flow[f].alone,
                      identities[flow[f].wallet].exists => identities[flow[f].wallet].active
               PROVE  profiles'[flow[f].wallet] = identities'[flow[f].wallet].identityHash
    OBVIOUS
  <2>0. RecordsTypeOK /\ flow[f].wallet \in Wallet /\ flow[f].wallet \in Address
        /\ flow[f].hash \in Bytes32 /\ identities \in [Address -> Identity]
    BY <1>1, FlowTyped DEF RecordsInv, Typed, RecordsTypeOK, RegistryTypeOK, Address
  <2>1. /\ profiles'[flow[f].wallet] = flow[f].hash
        /\ flow[f].call = nextStep(f)
    BY <1>1 DEF RecordsInv, AloneInv, Undisturbed, signAnchor, recordVars
  <2>2. CASE flow[f].call = "none"
    <3>1. identities[flow[f].wallet].exists /\ identities[flow[f].wallet].identityHash = flow[f].hash
      BY <2>1, <2>2 DEF nextStep
    <3>2. UNCHANGED registryVars
      BY <2>2, <3>1 DEF signAnchor, reverts
    <3> QED
      BY <2>1, <3>1, <3>2 DEF registryVars
  <2>3. CASE flow[f].call = "update"
    <3>1. isActive(flow[f].wallet)
      BY <2>1, <2>3 DEF nextStep, isActive
    <3>2. updateIdentityHash(flow[f].wallet, flow[f].hash)
      BY <2>3, <3>1 DEF signAnchor, reverts
    <3> QED
      BY <2>0, <2>1, <3>2 DEF updateIdentityHash, Identity
  <2>4. CASE flow[f].call = "register"
    <3>1. ~identities[flow[f].wallet].exists
      BY <2>1, <2>4 DEF nextStep
    <3>2. registerIdentity(flow[f].wallet, flow[f].hash)
      BY <2>4, <3>1 DEF signAnchor, reverts
    <3> QED
      BY <2>0, <2>1, <3>2 DEF registerIdentity, register
  <2> QED
    BY <2>1, <2>2, <2>3, <2>4 DEF nextStep
<1>2. ASSUME RecordsInv, NEW f \in Flow PROVE Bound(f)
  <2>1. /\ flow[f].org \in OrgId
        /\ orgRows \in [OrgId -> [hash : Bytes32, by : Address]]
    BY <1>2, FlowTyped DEF RecordsInv, Typed, RecordsTypeOK
  <2> QED
    BY <1>2, <2>1
       DEF RecordsInv, AloneInv, Undisturbed, bindOrganization, registryVars
<1>3. RecordsInv => [\A f \in Flow :
       LET w == flow[f].wallet IN
       /\ signAnchor(f) /\ flow[f].alone /\ (identities[w].exists => identities[w].active)
            => profiles'[w] = identities'[w].identityHash
       /\ bindOrganization(f) /\ flow[f].alone
            => orgRows'[flow[f].org].hash = organizations'[flow[f].org].metadataHash
    ]_allVars
  BY <1>1, <1>2
<1> QED
  BY <1>3, RecordsInvAlways, PTL DEF UndisturbedMirrors
=============================================================================
