------------------------------- MODULE LiveAccess -------------------------------
(***************************************************************************)
(* One live access evaluation (lib/live-access.ts, lib/access-decision.ts) *)
(* against a chain that moves while it reads. evaluateAccess starts its    *)
(* reads together; each is an eth_call of its own against the latest       *)
(* block, so transactions and block times fall between any two of them.    *)
(*                                                                         *)
(* The evaluation is that of the sign-in endpoints: an application is      *)
(* always named. The permission flags of the claims are read last and do   *)
(* not enter the decision, so they are only the time between the last      *)
(* deciding read and the answer.                                           *)
(***************************************************************************)
EXTENDS OrgAccessManager

CONSTANTS
  Subject, \* the wallet that is evaluated
  Org,     \* the organization it is evaluated for
  App,     \* the application that was named
  MaxLag,  \* how far Date.now() and the latest block's time may be apart
  MaxMoves \* bound: transactions and block times around the evaluation

ASSUME SubjectAssumption == Subject \in Wallet /\ Org \in OrgId /\ App \in Application
ASSUME LagAssumption     == MaxLag \in Nat /\ MaxMoves \in Nat

VARIABLES
  phase,    \* "idle", "reading", "answered" or "unavailable"
  got,      \* what the finished reads returned
  decision, \* "allowed" or the reason of the denial
  seen,     \* history: the chain's own answers since the evaluation began
  moves     \* counts towards MaxMoves

liveVars == <<phase, got, decision, seen, moves>>

Readers == {"organization", "identity", "role", "membership", "registered", "allowed"}

DenyOrder == <<"ORGANIZATION_NOT_FOUND", "IDENTITY_NOT_REGISTERED", "IDENTITY_REVOKED",
               "ORGANIZATION_SUSPENDED", "ROLE_EXPIRED", "NOT_A_MEMBER",
               "APPLICATION_NOT_REGISTERED", "APP_ACCESS_NOT_GRANTED">>

Decisions == {"none", "allowed"} \cup {DenyOrder[i] : i \in 1..Len(DenyOrder)}

-----------------------------------------------------------------------------
(* The readers: what each call returns in the current block.               *)

readOrganization ==
  CASE orgRootAdmin(Org) = Zero  -> "missing"
    [] organizations[Org].active -> "active"
    [] OTHER                     -> "suspended"

readIdentity ==
  CASE ~identities[Subject].exists -> "unregistered"
    [] isActive(Subject)           -> "active"
    [] OTHER                       -> "revoked"

readMembership_permanent(serverTime) == \* mutant: 0 is taken for a deadline
  IF memberships[Org][Subject].expiresAt <= serverTime THEN "expired" ELSE "valid"

(* The one read that is compared with the server's clock.                  *)
readMembership(serverTime) ==
  LET m == memberships[Org][Subject] IN
  IF m.expiresAt # 0 /\ m.expiresAt <= serverTime THEN "expired" ELSE "valid"

readApp(reader) ==
  IF reader = "registered" THEN applicationRegistered[Org][App]
                           ELSE canAccessApp(Org, Subject, App)

serverTimes == {time \in 0..(now + MaxLag) : now <= time + MaxLag}

results(reader) ==
  CASE reader = "organization" -> {readOrganization}
    [] reader = "identity"     -> {readIdentity}
    [] reader = "role"         -> {effectiveRole(Org, Subject)}
    [] reader = "membership"   -> {readMembership(time) : time \in serverTimes}
    [] OTHER                   -> {IF readApp(reader) THEN "yes" ELSE "no"}

-----------------------------------------------------------------------------
(* The decision: the first reason, in their order, that applies.           *)

applies(reason, read) ==
  CASE reason = "ORGANIZATION_NOT_FOUND"     -> read["organization"] = "missing"
    [] reason = "IDENTITY_NOT_REGISTERED"    -> read["identity"] = "unregistered"
    [] reason = "IDENTITY_REVOKED"           -> read["identity"] = "revoked"
    [] reason = "ORGANIZATION_SUSPENDED"     -> read["organization"] = "suspended"
    [] reason = "ROLE_EXPIRED"               -> read["membership"] = "expired"
    [] reason = "NOT_A_MEMBER"               -> read["role"] = NONE
    [] reason = "APPLICATION_NOT_REGISTERED" -> read["registered"] = "no"
    [] reason = "APP_ACCESS_NOT_GRANTED"     -> read["allowed"] = "no"

decideAccess_registered(read) == \* mutant: registration is taken for access
  LET hits == {i \in 1..(Len(DenyOrder) - 1) : applies(DenyOrder[i], read)} IN
  IF hits = {} THEN "allowed"
  ELSE DenyOrder[CHOOSE i \in hits : \A j \in hits : i <= j]

decideAccess(read) ==
  LET hits == {i \in 1..Len(DenyOrder) : applies(DenyOrder[i], read)} IN
  IF hits = {} THEN "allowed"
  ELSE DenyOrder[CHOOSE i \in hits : \A j \in hits : i <= j]

-----------------------------------------------------------------------------
(* The evaluation.                                                         *)

(* What is true of the subject in one block: outlasts, that a membership   *)
(* the subject has ends later than what the clocks may differ by.          *)
instant ==
  LET m == memberships[Org][Subject] IN
  [access   |-> canAccessApp(Org, Subject, App),
   outlasts |-> m.expiresAt = 0 \/ m.expiresAt > now + MaxLag]

LiveTypeOK ==
  /\ AccessTypeOK
  /\ phase \in {"idle", "reading", "answered", "unavailable"}
  /\ DOMAIN got \subseteq Readers
  /\ decision \in Decisions
  /\ decision # "none" <=> phase = "answered"
  /\ seen \subseteq [access : BOOLEAN, outlasts : BOOLEAN]
  /\ moves \in 0..MaxMoves

evaluateLiveAccess ==
  /\ phase = "idle"
  /\ phase' = "reading"
  /\ seen' = {instant}
  /\ UNCHANGED <<chainVars, got, decision, moves>>

read(reader) ==
  /\ phase = "reading"
  /\ reader \notin DOMAIN got
  /\ \E value \in results(reader) :
       got' = [k \in DOMAIN got \cup {reader} |-> IF k = reader THEN value ELSE got[k]]
  /\ UNCHANGED <<chainVars, phase, decision, seen, moves>>

(* Any read that throws, the permission flags included, ends it.           *)
readFails ==
  /\ phase = "reading"
  /\ phase' = "unavailable"
  /\ UNCHANGED <<chainVars, got, decision, seen, moves>>

answer ==
  /\ phase = "reading"
  /\ DOMAIN got = Readers
  /\ phase' = "answered"
  /\ decision' = decideAccess(got)
  /\ UNCHANGED <<chainVars, got, seen, moves>>

chainMoves ==
  /\ phase \in {"idle", "reading"}
  /\ moves < MaxMoves
  /\ moves' = moves + 1
  /\ AccessNext
  /\ seen' = IF phase = "reading" THEN seen \cup {instant'} ELSE seen
  /\ UNCHANGED <<phase, got, decision>>

LiveNext ==
  \/ evaluateLiveAccess
  \/ \E reader \in Readers : read(reader)
  \/ readFails
  \/ answer
  \/ chainMoves

notStarted == phase = "idle" /\ got = <<>> /\ decision = "none" /\ seen = {} /\ moves = 0

LiveSpec == AccessInit /\ notStarted /\ [][LiveNext]_<<chainVars, liveVars>>

-----------------------------------------------------------------------------
(* Safety.                                                                 *)

(* A sign-in is never allowed out of pieces. However transactions fall     *)
(* between the reads, an evaluation that allows the wallet overlaps an     *)
(* instant at which the chain itself, asked once, would have allowed it.   *)
AllowedWasAllowed == decision = "allowed" => \E i \in seen : i.access

(* And nobody is turned away out of pieces. A member whom the chain would  *)
(* have allowed throughout the evaluation is allowed, although only one    *)
(* read goes by the server's clock, unless the membership ends before the  *)
(* two clocks are sure to agree. The root admin too: the contract does not *)
(* look at their own membership, decideAccess does (ROLE_EXPIRED).         *)
MemberLetIn ==
  phase = "answered" /\ (\A i \in seen : i.access /\ i.outlasts) => decision = "allowed"
=============================================================================
