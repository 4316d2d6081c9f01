--------------------------------- MODULE Records ---------------------------------
(***************************************************************************)
(* The off-chain records whose hashes the IdentityRegistry anchors: the    *)
(* tables profiles and organizations, the routes that write them, the two  *)
(* onboarding forms that save, sign and bind, and the seed scripts, which  *)
(* write both sides for the demo organization.                             *)
(*                                                                         *)
(* A hash stands for the record it is the hash of, and a row is the hash   *)
(* it carries; seed-offchain also names organization 1 and leaves its      *)
(* hash, which is left out. A flow is one press of "Save and anchor" or    *)
(* "Create": calls to the routes with a signature between them. Everybody  *)
(* else transacts with the registry meanwhile, and any call of a flow or   *)
(* script may fail.                                                        *)
(***************************************************************************)
EXTENDS IdentityRegistry, Sequences

CONSTANTS
  Flow,       \* presses of a button of the onboarding screens
  People,     \* the demo wallets seed-demo registers, in order
  PersonHash, \* the record the seed scripts give each of them
  SeedHash,   \* the record of the demo organization
  MaxTurns    \* bound: flows and scripts started and transactions of anybody else

ASSUME RecordsAssumption ==
  /\ People \in Seq(Wallet)
  /\ {PersonHash, SeedHash} \subseteq Hash
  /\ MaxTurns \in Nat

VARIABLES
  profiles, \* profiles.identity_hash of each wallet, NoHash where there is no row
  orgRows,  \* organizations.metadata_hash, and who bound it (history)
  flow,     \* the flows and how far they are
  seed,     \* the seed script that runs
  unmined,  \* how often it sent the demo organization and no block has it yet
  anchors,  \* history: the seat holders and anchors each organization has had
  seeded,   \* history: the organizations the seed script created
  hasty,    \* history: it counted the organizations while one of its own was unmined
  turns     \* how much of MaxTurns is used up

recordVars == <<profiles, orgRows>>
histVars   == <<anchors, seeded, hasty>>
allVars    == <<registryVars, recordVars, flow, seed, unmined, histVars, turns>>

Unbound == [hash |-> NoHash, by |-> Zero]
Idle    == [pc |-> "idle", wallet |-> Deployer, hash |-> NoHash, call |-> "none", org |-> 0,
            alone |-> FALSE]
NoSeed  == [pc |-> "idle", i |-> 1, count |-> 0, org |-> 0]

RecordsTypeOK ==
  /\ RegistryTypeOK
  /\ profiles \in [Wallet -> Bytes32]
  /\ orgRows \in [OrgId -> [hash : Bytes32, by : Address]]
  /\ flow \in [Flow -> [pc : {"idle", "save", "read", "sign", "prepare", "create", "find", "bind"},
                        wallet : Wallet, hash : Bytes32, call : {"none", "register", "update"},
                        org : OrgId, alone : BOOLEAN]]
  /\ seed \in [pc : {"idle", "person", "register", "count", "scan", "create", "await", "name",
                     "offchain"},
               i : Nat, count : OrgId, org : OrgId]
  /\ unmined \in Nat

RecordsInit ==
  /\ RegistryInit
  /\ profiles = [w \in Wallet |-> NoHash]
  /\ orgRows = [o \in OrgId |-> Unbound]
  /\ flow = [f \in Flow |-> Idle]
  /\ seed = NoSeed
  /\ unmined = 0
  /\ anchors = [o \in OrgId |-> {}]
  /\ seeded = {}
  /\ hasty = FALSE
  /\ turns = 0

-----------------------------------------------------------------------------
(* History. A flow is alone while nobody else starts one, no script writes *)
(* profiles and what it reads of the chain stays as it is.                 *)

anchorsNow(o) == {<<organizations[o].rootAdmin, organizations[o].metadataHash>>}

witness == anchors' = [o \in OrgId |-> IF organizationExists(o)'
                                       THEN anchors[o] \cup anchorsNow(o)' ELSE anchors[o]]

touched(g) == identities'[flow[g].wallet] # identities[flow[g].wallet]
              \/ organizations' # organizations

(* f takes the step that leaves it as "now".                               *)
step(f, now) == flow' = [g \in Flow |-> IF g = f THEN now
                                        ELSE [flow[g] EXCEPT !.alone = @ /\ ~touched(g)]]

others == flow' = [g \in Flow |-> [flow[g] EXCEPT !.alone = @ /\ ~touched(g)]]

at(f, pc) == flow[f].pc = pc
turn == turns < MaxTurns /\ turns' = turns + 1

goto(f, pc) == [flow[f] EXCEPT !.pc = pc]

start(f, now) ==
  /\ at(f, "idle")
  /\ turn
  /\ flow' = [g \in Flow |-> IF g = f
                             THEN [now EXCEPT !.alone = \A h \in Flow \ {f} : at(h, "idle")]
                             ELSE [flow[g] EXCEPT !.alone = FALSE]]
  /\ UNCHANGED <<registryVars, recordVars, seed, unmined, histVars>>

-----------------------------------------------------------------------------
(* A profile: PUT /api/profile saves the row and then asks the chain which *)
(* call would anchor it; the form has that call signed.                    *)

saveProfile(f) ==
  /\ at(f, "save")
  /\ profiles' = [profiles EXCEPT ![flow[f].wallet] = flow[f].hash]
  /\ step(f, goto(f, "read"))
  /\ UNCHANGED <<registryVars, orgRows, seed, unmined, histVars, turns>>

nextStep_registered(f) == \* mutant: a registered wallet counts as anchored
  IF identities[flow[f].wallet].exists THEN "none" ELSE "register"

nextStep(f) ==
  LET w == flow[f].wallet IN
  IF identities[w].exists /\ identities[w].identityHash = flow[f].hash THEN "none"
  ELSE IF identities[w].exists THEN "update" ELSE "register"

answerProfile(f) ==
  /\ at(f, "read")
  /\ step(f, [goto(f, "sign") EXCEPT !.call = nextStep(f)])
  /\ UNCHANGED <<registryVars, recordVars, seed, unmined, histVars, turns>>

(* The form signs updateIdentityHash when told so and registerIdentity     *)
(* otherwise, also when it was told that there is nothing to sign.         *)
reverts(f) == IF flow[f].call = "update" THEN ~isActive(flow[f].wallet)
              ELSE identities[flow[f].wallet].exists

signAnchor(f) ==
  /\ at(f, "sign")
  /\ IF reverts(f) THEN UNCHANGED registryVars
     ELSE IF flow[f].call = "update" THEN updateIdentityHash(flow[f].wallet, flow[f].hash)
     ELSE registerIdentity(flow[f].wallet, flow[f].hash)
  /\ step(f, Idle)
  /\ UNCHANGED <<recordVars, seed, unmined, histVars, turns>>

-----------------------------------------------------------------------------
(* An organization: POST /api/organizations returns the hash and writes    *)
(* nothing, the wallet creates the organization, and                       *)
(* POST /api/organizations/confirm binds the record to the id from the     *)
(* receipt. A client may also ask to confirm any id by itself.             *)

prepareOrganization(f) ==
  /\ at(f, "prepare")
  /\ step(f, IF isActive(flow[f].wallet) THEN goto(f, "create") ELSE Idle)
  /\ UNCHANGED <<registryVars, recordVars, seed, unmined, histVars, turns>>

signCreate(f) ==
  /\ at(f, "create")
  /\ createOrganization(flow[f].wallet, flow[f].hash)
  /\ step(f, [goto(f, "find") EXCEPT !.org = organizationCount'])
  /\ witness
  /\ UNCHANGED <<recordVars, seed, unmined, seeded, hasty, turns>>

findOrganization_anyHash(f) == \* mutant: the record is not compared with the anchor
  LET org == organizations[flow[f].org] IN
  /\ at(f, "find")
  /\ step(f, IF isActive(flow[f].wallet) /\ org.rootAdmin = flow[f].wallet
             THEN goto(f, "bind") ELSE Idle)
  /\ UNCHANGED <<registryVars, recordVars, seed, unmined, histVars, turns>>

findOrganization(f) ==
  LET org == organizations[flow[f].org] IN
  /\ at(f, "find")
  /\ step(f, IF /\ isActive(flow[f].wallet)
                /\ org.rootAdmin = flow[f].wallet
                /\ org.metadataHash = flow[f].hash
             THEN goto(f, "bind") ELSE Idle)
  /\ UNCHANGED <<registryVars, recordVars, seed, unmined, histVars, turns>>

bindOrganization(f) ==
  /\ at(f, "bind")
  /\ orgRows' = [orgRows EXCEPT ![flow[f].org] = [hash |-> flow[f].hash, by |-> flow[f].wallet]]
  /\ step(f, Idle)
  /\ UNCHANGED <<registryVars, profiles, seed, unmined, histVars, turns>>

(* A call fails, the wallet refuses, or the page is closed.                *)
flowFails(f) ==
  /\ ~at(f, "idle")
  /\ step(f, Idle)
  /\ UNCHANGED <<registryVars, recordVars, seed, unmined, histVars, turns>>

FlowStep(f) ==
  \/ \E w \in Wallet, h \in Hash, pc \in {"save", "prepare"} :
       start(f, [Idle EXCEPT !.pc = pc, !.wallet = w, !.hash = h])
  \/ \E w \in Wallet, h \in Hash, o \in OrgId \ {0} :
       start(f, [Idle EXCEPT !.pc = "find", !.wallet = w, !.hash = h, !.org = o])
  \/ saveProfile(f) \/ answerProfile(f) \/ signAnchor(f)
  \/ prepareOrganization(f) \/ signCreate(f) \/ findOrganization(f) \/ bindOrganization(f)
  \/ flowFails(f)

-----------------------------------------------------------------------------
(* The seed scripts, run by the deployer. seed-demo registers the people   *)
(* who are not registered, looks for its organization among all there are  *)
(* and creates it when it is not found; seed-offchain then writes the      *)
(* profiles. What seed-demo does after that concerns the other contracts.  *)
(* What was sent outlives the run that sent it. The transactions of one    *)
(* account are mined in the order sent, so a run that waits waits for the  *)
(* last of them.                                                           *)

seedAt(pc)     == seed.pc = pc
seedGoto(next) == seed' = next /\ UNCHANGED <<recordVars, unmined, seeded, hasty, turns>>
reading        == UNCHANGED <<registryVars, flow, anchors>>

seedStart ==
  /\ seedAt("idle")
  /\ turn
  /\ seed' = [NoSeed EXCEPT !.pc = "person"]
  /\ reading /\ UNCHANGED <<recordVars, unmined, seeded, hasty>>

seedPerson ==
  /\ seedAt("person")
  /\ seedGoto(IF seed.i > Len(People) THEN [seed EXCEPT !.pc = "count"]
              ELSE IF identities[People[seed.i]].exists THEN [seed EXCEPT !.i = @ + 1]
              ELSE [seed EXCEPT !.pc = "register"])
  /\ reading

seedRegister ==
  /\ seedAt("register")
  /\ registerIdentityFor(Deployer, People[seed.i], PersonHash)
  /\ seedGoto([seed EXCEPT !.pc = "person", !.i = @ + 1])
  /\ others /\ UNCHANGED anchors

seedCount ==
  /\ seedAt("count")
  /\ seed' = [seed EXCEPT !.pc = "scan", !.i = 1, !.count = organizationCount]
  /\ hasty' = (hasty \/ unmined > 0)
  /\ reading /\ UNCHANGED <<recordVars, unmined, seeded, turns>>

seedScan_lastMissed == \* mutant: the loop ends before the last organization
  /\ seedAt("scan")
  /\ seedGoto(IF seed.i >= seed.count THEN [seed EXCEPT !.pc = "create"]
              ELSE IF anchorsNow(seed.i) = {<<Deployer, SeedHash>>}
              THEN [seed EXCEPT !.pc = "offchain", !.org = seed.i, !.i = 1]
              ELSE [seed EXCEPT !.i = @ + 1])
  /\ reading

seedScan ==
  /\ seedAt("scan")
  /\ seedGoto(IF seed.i > seed.count THEN [seed EXCEPT !.pc = "create"]
              ELSE IF anchorsNow(seed.i) = {<<Deployer, SeedHash>>}
              THEN [seed EXCEPT !.pc = "offchain", !.org = seed.i, !.i = 1]
              ELSE [seed EXCEPT !.i = @ + 1])
  /\ reading

seedCreate ==
  /\ seedAt("create")
  /\ seed' = [seed EXCEPT !.pc = "await"]
  /\ unmined' = unmined + 1
  /\ reading /\ UNCHANGED <<recordVars, seeded, hasty, turns>>

waitsForIt == seedAt("await") /\ unmined = 1

mineCreate ==
  /\ unmined > 0
  /\ createOrganization(Deployer, SeedHash)
  /\ unmined' = unmined - 1
  /\ seed' = IF waitsForIt THEN [seed EXCEPT !.pc = "name"] ELSE seed
  /\ seeded' = seeded \cup {organizationCount'}
  /\ others /\ witness
  /\ UNCHANGED <<recordVars, hasty, turns>>

(* It reverts, or never gets into a block.                                 *)
dropCreate ==
  /\ unmined > 0
  /\ unmined' = unmined - 1
  /\ seed' = IF waitsForIt THEN NoSeed ELSE seed
  /\ reading /\ UNCHANGED <<recordVars, seeded, hasty, turns>>

(* The id is read as the number of organizations there are by now.         *)
seedName ==
  /\ seedAt("name")
  /\ seedGoto([seed EXCEPT !.pc = "offchain", !.org = organizationCount, !.i = 1])
  /\ reading

seedProfile ==
  /\ seedAt("offchain") /\ seed.i <= Len(People)
  /\ profiles' = [profiles EXCEPT ![People[seed.i]] = PersonHash]
  /\ seed' = [seed EXCEPT !.i = @ + 1]
  /\ flow' = [f \in Flow |-> [flow[f] EXCEPT !.alone = @ /\ flow[f].wallet # People[seed.i]]]
  /\ UNCHANGED <<registryVars, orgRows, unmined, histVars, turns>>

(* A script ends, is interrupted, or a transaction of it reverts.          *)
seedStops ==
  /\ ~seedAt("idle")
  /\ seedGoto(NoSeed)
  /\ reading

SeedStep ==
  \/ seedStart \/ seedPerson \/ seedRegister \/ seedCount \/ seedScan \/ seedCreate
  \/ mineCreate \/ dropCreate \/ seedName \/ seedProfile \/ seedStops

-----------------------------------------------------------------------------

outside ==
  /\ turn
  /\ RegistryNext
  /\ others /\ witness
  /\ UNCHANGED <<recordVars, seed, unmined, seeded, hasty>>

RecordsNext == (\E f \in Flow : FlowStep(f)) \/ SeedStep \/ outside

RecordsSpec == RecordsInit /\ [][RecordsNext]_allVars

-----------------------------------------------------------------------------
(* Properties.                                                             *)

(* "Nobody can attach a record to somebody else's organisation": a bound   *)
(* record is one the organization anchored, and whoever bound it held the  *)
(* seat while it did, however requests and transactions interleave.        *)
OrgRecordEarned ==
  \A o \in OrgId : orgRows[o] # Unbound => <<orgRows[o].by, orgRows[o].hash>> \in anchors[o]

(* A mirror is as good as its last writer was alone: whatever earlier      *)
(* flows, scripts and transactions left, a flow that nobody disturbs ends  *)
(* with the row equal to the anchor, in particular the call it is told to  *)
(* sign does not revert while the identity is not revoked.                 *)
UndisturbedMirrors ==
  [][\A f \in Flow :
       LET w == flow[f].wallet IN
       /\ signAnchor(f) /\ flow[f].alone /\ (identities[w].exists => identities[w].active)
            => profiles'[w] = identities'[w].identityHash
       /\ bindOrganization(f) /\ flow[f].alone
            => orgRows'[flow[f].org].hash = organizations'[flow[f].org].metadataHash
    ]_allVars

(* "The script is resumable": stopped anywhere and run again, it does not  *)
(* create the demo organization a second time while the first is what it   *)
(* was, unless a rerun counts the organizations before a block has the one *)
(* that the run stopped waiting for.                                       *)
SeededOnce ==
  ~hasty => Cardinality({o \in seeded : anchors[o] = {<<Deployer, SeedHash>>}}) <= 1

(* "organization #id, root admin": the id the script goes on with is an    *)
(* organization of the deployer.                                           *)
SeedNamesItsOwn == seed.org # 0 => <<Deployer, SeedHash>> \in anchors[seed.org]

(* "The dashboard integrity check should read 'record intact' for every    *)
(* seeded asset and identity."                                             *)
SeededIntact ==
  [][seedAt("offchain") /\ seed.i > Len(People) /\ seedAt("idle")' =>
       \A i \in DOMAIN People : profiles[People[i]] = identities[People[i]].identityHash]_allVars
=============================================================================
