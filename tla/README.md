# owneX: a verification development

owneX lets an organization keep identities, roles and asset certificates on a
chain and lets partner applications sign employees in with their wallet. This
directory holds TLA+ specifications of that system, the TLC configurations that
check them, and theorems about them that TLAPS proves. Paths are relative to the
repository, which the project calls `src/`.

## 1. Inventory

| Component | Source | State it keeps | Operations |
|---|---|---|---|
| Identity registry | `contracts/IdentityRegistry.sol` | identities (hash, exists, active), registrars, organizations (root admin, active), owner | register, update hash, revoke, reactivate, registrars, create / suspend / hand over an organization |
| Access manager | `contracts/OrgAccessManager.sol` | memberships with expiry, enumeration list and index, permission overrides, applications and their role access | add / assign / expire / remove members, set permission, register application, set access |
| Asset certificates | `contracts/AssetNFT.sol` | token, holder, organization, hash, URI, active, transfer count, pause flag | mint (with the recipient's callback), reassign, revoke, restore, update record, pause |
| Profile and organization records | `app/api/profile`, `app/api/organizations`, onboarding, `seed-demo.ts`, `seed-offchain.mjs` | the rows whose hashes the registry anchors | save and anchor, prepare and bind, seed |
| Wallet sign-in | `lib/siwe.ts`, `lib/session.ts`, `app/api/auth/*` | one-time nonces in the database, session cookie | issue a nonce, verify a signature, log out, purge |
| Application registry | `app/api/applications/*`, `lib/applications.ts`, `provision-app.mjs` | application row (client id, secret hash, status), callback allowlist | register, re-register, change, revoke, rotate the secret, provision |
| Callback allowlist | `lib/callback-allowlist.ts`, the registration form's and the script's copies of it | none | canonical form, transport rule, check, redirect |
| Sign in with owneX | `app/authorize`, `lib/authorize-store.ts`, `lib/live-access.ts`, `lib/access-decision.ts`, `app/api/authorize/*`, `app/api/roles/verify` | one-time authorization codes | consent page, approve, exchange, revalidate |
| Employee portal | `apps/employee-portal` | session cookie with state and wallet | login, callback, pages |
| Asset drafts | `app/api/assets/*`, `lib/asset-binding.ts`, `repair-asset-bindings.mjs` | database rows that claim a token | draft, confirm, release, repair |
| Audit indexer | `lib/indexer.ts`, `app/api/audit/*` | cached events, last block per contract | sync, reset detection, purge, paging |
| Console: hooks | `wallet-provider.tsx`, `use-resource.ts`, `use-transaction.ts` | the wallet's connection, a session snapshot, a screen's list, a form's write | connect, sign in, load, prepare, sign, record, grant |
| Console: screens | `components/console/*`, `components/onboarding/*`, `lib/tx-errors.ts`, the routes they read | none of their own | gate, panels, rows, matrix, cards, pipelines, dialogs, explanations of reverts |

(`app/`, `lib/` and `components/` are those of `apps/platform` unless another
application is named.)

The components meet in four places. The contracts call each other inside one
transaction: `AssetNFT` asks `OrgAccessManager`, which asks `IdentityRegistry`.
The platform reads the chain through separate calls that are not one snapshot.
The platform's handlers share a database through separate statements that are
not one transaction. And the browser holds copies of all this, asks again when
it thinks something changed, and sends transactions on its own.

What each has to get right, and where that is hard:

| Component | Correct when | Hard because |
|---|---|---|
| Identity registry | every organization keeps a seat holder, a seat moves only by gift, a revoked record is frozen | registrars, owner, holder and subject all have powers over the same record, in any order |
| Access manager | list, index and table agree; the seat can govern; nobody elevates themselves; a lapsed or revoked wallet changes nothing | rights come from four tables and a clock, and every right can change another |
| Asset certificates | one holder per certificate, moved by the organization only, recoverable | custody is kept twice, and a mint calls the recipient in its middle |
| Records | a bound record was anchored by whoever bound it; an undisturbed flow leaves row and anchor equal | save, sign and bind are three calls, any of which may be the last |
| Wallet sign-in | a challenge is served once, a session has a signature behind it | read and update are two statements; answers get lost; a purge runs beside them |
| Application registry | revocations hold, callbacks are those that were asked for, a secret that was shown works | two to four statements per request, without a transaction; requests and scripts overlap |
| Callback allowlist | what is registered is accepted, what is accepted is registered, in every spelling | four places state the rule |
| Sign in with owneX | a code is served once; claims, answers and redirects were earned at an instant of the request | handlers over a registry that changes and a chain that moves between their steps |
| Employee portal | a state is used once, a session is of a wallet that agreed to a login of this browser, a page is served on a live answer | the session is a cookie that each response overwrites |
| Asset drafts | a binding was confirmed by the chain and stays while it is; stale claims block nothing | check and bind are separate statements over chain and database |
| Audit indexer | the cache holds every event of this chain and none of another | syncs interleave, chains are replaced, start blocks are given by callers |
| Console: hooks | what is shown as loaded is current, what loads is being asked for, done means landed | answers overtake each other; the wallet changes chain and account; dialogs close early |
| Console: screens | what is shown is what the contract answers, what is offered it accepts, what it refuses is explained | the rules are written again in the interface |

`PROJECT.json` lists every component with its status and every hazard with its
line and the properties about it.

## 2. Plan

All modules of the plan are written and proved about; the last row is what is
left to model. Modules that are proved about together share one proof module.

| # | Modules | Builds on | Abstract specification |
|---|---|---|---|
| 1 | `IdentityRegistry`, `OrgAccessManager`, `AssetNFT` | each EXTENDS the one before, as the contracts call each other | |
| 2 | `OneTimeGrant`, `Siwe` | | `Siwe` implements `OneTimeGrant` |
| 3 | `LiveAccess` | `OrgAccessManager`, the whole chain | |
| 4 | `ApplicationRegistry` | | |
| 5 | `CallbackAllowlist`, `Authorization` | what 3 and 4 establish, as its environment | `Authorization` implements `OneTimeGrant` |
| 6 | `Portal` | what 5 establishes | |
| 7 | `AuditIndexer`, `AssetBinding` | the chain's events and anchors | |
| 8 | `Records` | `IdentityRegistry` | |
| 9 | `Console` | the server as a list that is read, the chain as a set of writes | |
| 10 | `Refusals`, `Screens`, `VaultScreens` | `OrgAccessManager`, `AssetNFT` | |
| 11 | `OrgAccessManagerProofs` (with the registry), `ContractClientsProofs` (`AssetNFT`, `LiveAccess`, `Screens`, `Records`) | 1, 3, 8, 10 | |
| 12 | `SessionProofs` (`OneTimeGrant`, `Siwe`, `Console`), `AuthorizationProofs` (with the allowlist), `PortalProofs` | 2, 5, 6, 9 | |
| 13 | `ApplicationRegistryProofs`, `AssetBindingProofs`, `AuditIndexerProofs` | 4, 7 | |
| left | the memberships, grants and mints of `seed-demo.ts`; which fields the claims carry | 8, 5 | |

## 3. How the modules correspond to the code

**Contracts.** One action per external function, whose first parameter is
`msg.sender`. A call that reverts changes nothing, so the conditions under which
a function reverts are the negated guards of its action. `OrgAccessManager`
EXTENDS `IdentityRegistry`, and its next step contains the registry's
transactions, so everything is checked against identities that are revoked and
seats that move meanwhile. Block time is `now` and moves between transactions.
Roles and permissions are the contract's, keyed by name instead of by hash. In
`AssetNFT`, `minting` is the stack of `mintAsset` calls that wait for
`onERC721Received`: while it is not empty, only the innermost recipient runs, in
the same transaction and at the same block time, and may call everything,
`mintAsset` included. A callback that reverts takes the whole mint with it, so
it needs no action. Transfers by the holder always revert, and
`_orgControlledTransfer` is false between calls, so neither is there.

**`OneTimeGrant`** says what a nonce and a code have in common: issued once, at
most one redeemer served, never good again.

**`Siwe`.** A verify request is a process: `parse`, `readNonce`, `consume`,
`createSession`, cut where the handler awaits the database. `consumeUnheard` is
an update that commits and whose answer is lost, `databaseFails` a statement
that fails without effect. Who signed the message is a field of the request, so
that a signature by another wallet is refused because `readNonce` compares it.
A purged row keeps its fields as history that no action reads; nonces are
random, so one is never drawn twice. A session carries the instant it was
issued and is read as nobody's when it is too old.

**`LiveAccess`** is one run of `evaluateAccess` against the whole of
`OrgAccessManager`. Each of the six reads is a call of its own to the latest
block and returns what the contract's view returns then; transactions and time
come between them. `readMembership` compares the expiry with the server's clock,
which may be up to `MaxLag` ahead of the latest block or behind it
(`serverTimes`). `decideAccess` is the order of refusals in `access-decision.ts`.
`seen` is history: the chain's own answers since the evaluation began, and whether
the membership outlasts the difference of the clocks.

**`ApplicationRegistry`.** POST, PATCH and the secret route as processes of
statements, and with them the two scripts an operator runs on the same tables
(`provision-app.mjs`, `seed-offchain.mjs`). Every statement may fail or be the
last before the server stops (`requestFails`). A generated credential is named
after its request. A request begins at any time, and nothing serializes two on one
application. `word` is history: what administrators were promised, and `met` which
requests ran together. Where two do, a promise is as good as the code makes it:
a revocation is `raced` when a request had read the row and not yet written it
back, two replacements may leave the callbacks of both, and two requests that
issue a secret both show theirs. Everything else is claimed whoever overlaps.

**`CallbackAllowlist`** has no state. A URL is the record of what `new URL()`
makes of it (`scheme`, `host`, `port`, `path`, `query`, `fragment`), with
`spelling` for texts that parse to the same, and the module is the rule as
`lib/callback-allowlist.ts` decides it, in both modes, with the copies of it in the
registration form and the provisioning script.

**`Authorization`.** The consent page, approve, exchange and roles/verify as
processes of statements over the table of codes. The registry moves one
statement at a time (`registryMoves` may change the status, rotate the secret or
change the callbacks), so every interleaving with `ApplicationRegistry` is
covered and so are ones it cannot do. Application and callbacks are read in two
steps, as the code does. A live evaluation is the exception: it is one step,
used by what `LiveAccess` shows of its six reads. It may refuse at any time and
allows only what held at an instant since it began (`"granted" \in seen`). Which
registered callback a `redirect_uri` means is `CallbackAllowlist`'s answer.

**`Portal`.** A login, a callback and a page are requests that carry the cookie
the browser had when they were sent; their response replaces the cookie whole
when it arrives, in any order or not at all. A state is a value in a link: any
wallet may consent to a login in any browser, and the link with the code may be
opened in any. `SessionEarned` therefore says what the state does ensure: a browser
is signed in only as a wallet that consented to a login this browser started. It
does not say that the wallet's holder sits at that browser: a consent link that is
passed on, approved elsewhere, and whose callback comes back to the first browser
signs that one in as the approver. owneX is what `Authorization` shows of it: a
code that redeems once, issued on the consent of a wallet the chain allows.

**`AssetBinding`.** A confirm is a process of five steps (load the draft, read
the chain, read rival claims, release stale ones one by one, bind by a
conditional update); the repair script reads once, plans, and writes row by row,
until it is through, is stopped, or the unique index refuses a write (`Refused`). A
new deployment starts its token ids at 1 again and ends what is in flight.

**`AuditIndexer`.** A sync is one action per database or node call: ask the node
for the transaction of the newest cached row, purge by two deletes if it is
unknown, read the recorded height, query and insert chunk by chunk, record.
A contract emits nothing before the block it was deployed in, which is where an
operator lets the indexer start (`LowerBound`, in `mine`). `page` and `loadOlder`
are what GET `/api/audit` and the screen make of the rows.

**`Records`.** The routes that write `profiles` and `organizations`, as the two
onboarding forms call them with a signature in between, and the scripts that
write both sides. The transaction that creates the demo organization is sent, and
mined or dropped later, also after the script that sent it has stopped
(`unmined`); the script's other transactions are one step with the wait for them.
`anchors` is history: every seat holder and anchor an organization has had.

**`Console`** is one browser tab. What React renders together is one step
(`render`): a changed session, chain or page asks for lists again and drops the
state of forms that left the page, while a write that was started goes on. The
wallet's answers and notifications come through one queue. When a page is loaded it
reads the chain (`reconnect`) and begins to listen later (`listen`), and what the
wallet says in between is lost (`missed`). A list is the set of writes it had seen
when the server read it, as if the server had read it at once.

**`Refusals`, `Screens`, `VaultScreens`** have no state: they are functions of
the chain at the moment the server reads it. `Refusals` is the order in which
each contract function checks its arguments, and so which error a refused call
ends in, and what `tx-errors.ts` tells the reader to do about it; the runs
compare it with the guards of `OrgAccessManager`, which are written without
it. `Screens` has the session, the gate, the server's refusals and the panels
they become, the roster, the permission matrix, the application cards with their
integration stages, and the condition of every submit button. `VaultScreens` has
the list, card, table and page of a certificate and the mint wizard's picker.
That a screen may be out of date is `Console`'s subject. Both take what one answer
of the server contains as read at one instant of the chain. The routes make
several calls for it, so where a transaction comes between two of them an answer
may be put together from two states; only for live access is that followed call
by call (`LiveAccess`), and these two modules say nothing of such answers.

## 4. Runs

| Run | Asks | Distinct states |
|---|---|---|
| `permissions` | can the seat always govern, can anyone elevate themselves, can an outsider change anything, and do the screens agree with the contract? | 80,820 |
| `custody` | is there one holder, moved by the organization and recoverable, also through nested mints, and does the vault show it? | 185,084 |
| `records` | are bound records earned, do undisturbed flows end with row and anchor equal, is the demo organization created once? | 1,547,200 |
| `sign_in` | is a nonce a one-time grant, and a session witnessed? | 151,176 |
| `live_access` | can a decision be put together from reads of different instants, or from clocks that differ? | 866,051 |
| `registry` | do revocations, callbacks and secrets hold while administrators' requests and scripts overlap and statements fail? | 104,029 |
| `authorization` | is a code a one-time grant, and is every code, claim, answer and redirect earned? | 429,671 |
| `portal` | is every session earned, every state spent once, every page allowed while it was asked for? | 218,231 |
| `binding` | is every binding confirmed and kept, and does nothing wedge? | 1,410,378 |
| `audit` | does a sync leave a whole cache, and do pages never repeat? | 840,168 |
| `console` | is what is shown current, what loads asked for, and does done mean landed? | 1,157,125 |
| `race_unrevoked` | does a revocation hold also against a request that had read the row? No | |

**Other configurations.** These cfgs are kept to be run by hand. Each but the
last has a counterexample, which shows that a sentence of the code or its
documentation is not kept (section 5): `MCRootAdmin.cfg` (`RootAdminAlwaysAdmin`),
`MCAuditRestart.cfg` (`RestartSafe`), `MCBindingRedeploy.cfg`
(`DraftKeepsDeployment`). `MCCustodyOwner.cfg` passes; it is `custody` with
three wallets and an owner of `AssetNFT` who may renounce. The definitions
`WholeHistoryShown`, `ReplayFindsNothing`, `NoStaleWallet`,
`RefusedDidNotLand`, `PromptsHaveForms`, `SeedNamesItsOwn` and `SeededIntact`
also quote a sentence and fail; they can be put into the cfg of their module.

**Bounds.** The bounds of a run are what its properties need to go wrong; what
is proved (section 6) holds without them. Wallets: three in `permissions`,
because the properties about roles relate an actor, a subject and a third who
changes their rights, and swap and pop needs the removed, the moved and another
entry. One organization there, because every table is keyed by organization and
no function reads another's entry; that a member of another organization has no
standing is the case of a wallet without a membership. Time runs to 2 where
expiry matters: a deadline of 2 lies ahead, is reached and has passed. One hash
where no property compares hashes, two where one does. `OverrideArgs` picks one
override the guard must refuse and one that hands a permission to a low role.
`permissions` leaves out who becomes registrar or owner (`RegistrarArgs`,
`OwnerArgs`), which `records` has, and grants applications to one role
(`AccessArgs`), since grants to different roles do not meet. `custody` has two
wallets, one of them a contract, and two tokens, so that a mint nests in a mint,
and no applications, which certificates never ask for; a certificate moves twice
after its mint, there and back. `records`: two flows that overlap with each
other, the scripts and everybody's transactions, four of these begun in all, so
that a script can be stopped and run again beside a flow. `sign_in`: two
requests meet at two nonces of two wallets, since a race for one nonce is
between two; lifetimes are one tick within three. `live_access`: four
transactions or ticks around six reads, enough for away-and-back (revoke,
reactivate, revoke again) and one more; the clocks differ by up to one tick, and
a membership that ends at 3 has instants in it at which it outlasts that and at
which it does not. `registry`: two requests of all six kinds on one application,
since a race is between two; that more of them, and sequences of them, keep the
promises is proved (section 6). `authorization`: three requests, of which two
may be exchanges that race for one code and at most one is an approval, a visit
to the consent page or a revalidation (`MaxOf`): the others disturb that code;
one move of the registry or chain, a code lifetime of one tick within three, two
applications, and a callback in two spellings of which one may only be
requested. `portal`: two browsers, two wallets whose holders use either, four
requests and two consents: two sign-ins that overlap, or one and two pages.
`binding`: two rows of which one may predate the deployment stamp, two tokens,
two deployments, and two of the two confirms and the script running at once
(`MaxRunning`), which a race needs. `audit`: two syncs, two blocks with no or
two events each, one replacement of the chain, and pages of one row, so that a
page ends inside a block. `console`: one write of any kind but a plain dialog,
which is a registration with fewer steps; two answers in flight, two
organizations, two things that people or the wallet do meanwhile. Symmetry is
over values no definition tells apart: wallets other than the deployer, hashes,
requests, loads, writes, organizations of the console, applications, and the
browsers and wallets of the portal. `custody` and `sign_in` are small enough
without.

**Deadlock** is checked in `permissions`, `custody`, `audit` and `binding`, where
some step is always possible. The other systems may really stop: the request
modules, the flows and the tab when everything that was to happen has, and
`registry` when all requests are done.

**Fairness** is assumed nowhere, and there is no liveness property. That a
handler which was started ends is a matter of its straight line of awaits; no
handler waits for another one, by a lock or by trying again. Where something
could wait in vain the safe half is checked: `LoadingIsAsking` says that a
screen which loads has a request in flight whose answer it will take,
`NeverWedged` that a confirm finds its token free, `CustodyRecoverable` that a
call is enabled which brings an asset back.

**What "every property has a mutant" means here.** Next to some definitions a
module has a variant marked `mutant`, which changes it the way a plausible bug
would. With the variant in place of the original the property named in
`PROJECT.json` fails, so each property is one this code could break.

## 5. Findings

Where the code does not do what it says, and a run or a configuration shows it:

- `race_unrevoked`: POST `/api/applications` upserts a status it computed from
  an earlier read, so a revocation that commits in between is undone.
- `MCRootAdmin.cfg`: `effectiveRole` looks at the identity before the seat, so a
  root admin whose identity is revoked has no role, whereas its comment says "The
  root admin always resolves to ADMIN so an organization can never be orphaned"
  (`OrgAccessManager.sol:273-274`). The organization is not lost for good: the
  revoked holder can still hand the seat on.
- `MCBindingRedeploy.cfg`: confirming an asset ignores the `contract_address`
  its draft was stamped with (`confirm/route.ts:39`), whereas a comment says "the
  draft cannot be confirmed against a different contract than the one it was
  drafted for" (`assets/route.ts:198-200`).
- `MCAuditRestart.cfg`: the reset detector asks for the newest cached row of
  each contract. Where the old chain left a contract without one, its height
  survives and the new chain's events up to it are never read, although the
  comment promises development that is "safe to restart" (`indexer.ts:164-165`,
  `178`).
- `ReplayFindsNothing` and `NoStaleWallet`: two callbacks sent with the same
  cookie both find their state (`callback/route.ts:50-51`), though only one gets
  a session out of it; and a callback that was under way when a login cleared the
  wallet puts its own back (`login/route.ts:45-46`). The session is earned in
  both cases.
- `WholeHistoryShown`: paging by block number skips events that share the last
  block of a page (`audit/route.ts:55`), and the screen then says "That is the
  whole indexed history" (`audit-trail.tsx:353`).
- `RefusedDidNotLand`: a mint that landed and whose record could not be bound is
  shown under "The contract refused this" (`transaction-rail.tsx`). Pressing again
  mints a second token, or creates a second organization; an organization whose
  record was never bound can draft no assets, as `assets.org_id` references it.
- `PromptsHaveForms`: a registration dialog that is closed during its look-up
  still opens the wallet's prompt, with no form behind it.
- `SeedNamesItsOwn`, `SeededIntact`: `seed-demo.ts:273-274` takes the count after
  its transaction for the id of its organization, and `seed-offchain.mjs:138-148`
  calls organization 1 the demo's, whoever created it. A profile edited between
  the two scripts does not match its anchor afterwards.

Met while reading, without a configuration of their own.

*Server.*

- `decideAccess` refuses a root admin whose own stored membership has lapsed
  with `ROLE_EXPIRED` (`access-decision.ts:65`), although the contract gives the
  seat ADMIN without looking at it. `MemberLetIn` is therefore about memberships
  that do not lapse, the root admin's own included. A denial can also carry the
  reason `NOT_A_MEMBER` although at every instant of the evaluation another
  reason applied.
- The update that consumes a nonce does not compare `expires_at`
  (`siwe.ts:183`), although the schema says "A nonce is valid only if unused and
  unexpired. Consumed atomically on verify." The update of an authorization code
  does.
- `replaceCallbacks` deletes and inserts in two statements
  (`lib/applications.ts:228-247`). Two replacements that interleave leave the
  callbacks of both, although "a callback the admin removed must actually stop
  being accepted"; a failure in between leaves none. `CallbacksAsAsked` says
  that nothing worse happens.
- Two overlapping requests that issue a secret both show it, and only the one
  written later works (`applications/route.ts:214`). If replacing the callbacks
  fails after the secret was stored, nobody ever sees it.
- `validateRegistrableCallback` accepts spellings that the table's constraint
  (`supabase/migrations/0001:147-151`) refuses, which `replaceCallbacks` learns
  after it has deleted the old ones.
- The form's and the script's copies of the rule refuse `http` to some loopback
  hosts the server would register (`0.0.0.0`, `127.x`), accept localhost in
  production, and do not check the length (`FormAgreesWithServer` says exactly
  where they differ).
- `seed-demo.ts` is called resumable (`:18`). A run that is stopped while its
  organization waits for a block (`:231-233`), and run again before that block,
  counts without it (`:259`) and creates a second one; `SeededOnce` leaves out
  just this (`hasty`).
- A sync with a start block above the cached height leaves a gap that later
  syncs never fill (`indexer.ts:228`).
- PUT `/api/profile` overwrites the row before anything is signed, so a
  dismissed prompt leaves row and anchor apart; the organization form's PUT
  sends only the display name and clears the other fields. `recordIntact`
  compares the row's hash column with the anchor and never recomputes the hash
  from the fields, although several texts say "re-hashed".
- `seed-offchain.mjs` makes a revoked application active again (`:179`), and
  looks rows up by `token_id` alone, so it skips a token whose number an earlier
  deployment used.
- `/api/metadata/[ref]` finds a draft by its uuid on every deployment.

*Contract.*

- After `_safeMint` calls a recipient, `_setTokenURI` overwrites a URI that
  `updateAssetRecord` set in the callback, and hash and URI then name different
  records. `AssetNFT` models this; no property claims that they agree.
- A handed-over seat leaves the certificates that were revoked to the former
  root admin with the former root admin, until they are restored.

*Console, over time.*

- `useResource` keeps showing the previous loader's rows while it loads others,
  though its header calls data of another loader stale by definition
  (`use-resource.ts:19-21`, `83-92`).
- An unknown chain (`null`) passes the gate and `run()`'s check, so a write may be
  sent on another chain (`DoneMeansLanded` is about known ones).
- A page reads the chain when it is loaded (`wallet-provider.tsx:194-201`) and
  subscribes to `chainChanged` in an effect of a later render (`:213-229`). A switch
  in between is not told to it, so it takes another chain for owneX's and may say
  done of a write that is mined there (`DoneMeansLanded` leaves this out: `missed`).
- A rotated secret is shown only after a reload that may fail, and is then lost.
- A late `getMe` overwrites the session of a newer sign-in; a failed sign-out is
  swallowed.
- `individual-flow` treats a missing `nextStep` as a registration, which reverts
  for a registered wallet. `audit-trail` appends a late "load older" to a list
  that was replaced meanwhile.

*Console, at an instant.* `ShownIsApplied`, `RefusalsAreAnnounced` and
`VaultConfirmed` hold with these exceptions, which they name by their premises:

- The panel for a wallet without an organization says it "holds a valid identity"
  also to one that is not registered, and "not a member of any organization" also,
  after a refusal, to a member of another one.
- "An admin can grant the permission" is also said when the organization is
  suspended, "Ask an administrator to grant your role access" whatever the reason
  of a denial, and "Update its record instead" of a revoked identity, whose record
  is frozen.
- Controls are hidden from members who hold `MANAGE_MEMBERS` or `ASSIGN_ROLES` by
  an override and are not ADMIN, while the overview links them to the screen; a
  USER with overrides gets no link (`overview.tsx:28-30`, `124-140`). "Generate
  secret" is a label where `MANAGE_APPS` without ADMIN would do.
- "was X" is explained as a lapse also when the identity is revoked or the row is
  the root admin's (`members-screen.tsx:228-232`). "Change role" is enabled on
  one's own row though a comment says it is not.
- The pipeline's text for a revoked integration that the chain knows can be
  "An admin must sign registerApplication", which would revert: a revoked row
  counts as not registered, so that its first missing step is this one
  (`integration.ts:106`, `122`). For the same reason "Restore it to allow sign-in
  again" (`:140-142`) is never shown; the button "Restore integration" is, and
  `ShownIsApplied` claims no more of such a row. The text "Add at least one exact
  callback URL" has no button on the card.
- An integration reads "Active" under the "same conditions /authorize checks"
  (`integration.ts:99-102`), but not the organization's suspension.
- The certificate page explains a difference between owner and assigned holder
  that cannot occur, and no screen reads whether `AssetNFT` is paused.
- `UserOverview` shows a failed request as "Nothing is assigned", and has no
  suspension banner. The removal dialog counts certificates of other organizations
  and revoked ones. Comments still call the roles screen read-only.
- Onboarding tells a revoked wallet "This wallet holds an active identity" and
  offers it a step that reverts, and promises "root admin, permanently" of a seat
  that can be handed over; `RegistrationSummary` says that roles may sign in also
  when granting them failed, beside its warning.

## 6. Proofs

TLAPS proves, for every number of wallets, hashes, organizations, certificates,
applications, nonces, requests, browsers, consents, flows, rows, deployments,
syncs, contracts, blocks, writes and answers in flight, every URL, every lifetime
and every bound:

| Theorem | Says |
|---|---|
| `RegistryTypeCorrect`, `AccessTypeCorrect`, `AssetTypeCorrect`, `LiveTypeCorrect`, `RecordsTypeCorrect`, `SiweTypeCorrect`, `AppsTypeCorrect`, `AuthTypeCorrect`, `PortalTypeCorrect`, `BindingTypeCorrect`, `AuditTypeCorrect`, `ConsoleTypeCorrect` | type correctness of each of these parts |
| `OrganizationsStaySeated` | every organization keeps a registered root admin and an anchored record |
| `MemberListStaysExact` | swap-and-pop keeps list, index and table in agreement |
| `GovernanceNeverLost` | an active seat of an active organization can always manage members and assign roles |
| `OutsidersChangeNothing` | who has no standing changes nothing of an organization, and nobody does while it is suspended |
| `NobodyElevatesThemselves` | no transaction raises its sender's own role or gives them a permission, but for the powers above organizations |
| `AssetsKeepAccess` | beside the certificates the access manager runs as it does alone |
| `CustodyStaysAgreed`, `OnlyOrganizationsMoveCustody` | one holder per certificate, listed once, moved by the organization only |
| `RosterStaysExact` | the members screen lists whoever has a role, once, and explains lost and changed roles |
| `AllowedOnlyWhenAllowed`, `MembersLetIn` | no decision about live access is put together from reads of different instants, however far the clocks are apart |
| `OrgRecordsAreEarned`, `DemoIsSeededOnce`, `UndisturbedFlowsMirror` | bound records are earned, the demo is created once unless a rerun outruns its block, an undisturbed flow ends with row and anchor equal |
| `SessionsStayWitnessed` | behind every session there is a signed challenge |
| `NoncesRefineGrants`, `CodesRefineGrants` | `Siwe` and `Authorization` implement `OneTimeGrant` |
| `GrantsServedOnce` | `OneTimeGrant` serves a grant at most once |
| `RevocationsHold`, `CallbacksAreAsAsked`, `ShownSecretsWork` | the registry's three promises, however requests overlap and fail |
| `ClaimsAreEarned`, `RedirectsAreRegistered` | every code, claim, answer and redirect was earned while it was asked for |
| `SessionsStayEarned`, `StatesStaySpent`, `PagesWereAllowed` | the three promises of the portal |
| `BindingsAreEarned`, `StaleClaimsNeverWedge`, `ListedRecordsAreIntact`, `VerifiedBindingsStay` | bindings are confirmed by the chain, shown as they are and kept; stale claims block nothing |
| `RepairsSettle` | a repair script nobody disturbs is never refused by the unique index, and a second run has nothing to do |
| `OverlapIsHarmless` | while nothing is purged, syncs that overlap and fail never record a height ahead of the rows |
| `RebuildAlwaysRepairs`, `ResumeKeepsCacheComplete` | a rebuild that runs alone repairs any cache, a resumed sync that does keeps a good one good |
| `PagesComeInOrder` | reading back page by page shows no row twice, newest first, and skips only rows of a block in which a page ends |
| `ShownListIsCurrent`, `LoadingIsNeverStuck` | what a screen shows as loaded has every write in it that was there when it was asked for, and what loads is being asked for |
| `DoneFormsHaveLanded` | a form that says done of a write on a chain the page was told of is right |
| `ConsoleStaysInStep` | session, screen, form, wallet and writes stay in step between renders: the invariant behind the last two rows |
| `RegistrableIsAccepted`, `RedirectIsRegistered`, `CodesTravelSafely`, `SpellingsResolveAlike` | what may be registered is accepted, what is accepted is registered, over https or on the user's machine, in every spelling alike |
| `FormAgreesWithServer`, `FormListIsRegistrable` | where the copies of the rule agree with the server's, and the exact exceptions |

The assumptions are the named ASSUMEs of the modules: the zero address is no
wallet, the zero hash no record, the deployer a wallet, the demo people wallets,
`Nobody` and `None` no value of the other kinds (no hash of a secret, in
particular), there is an application, every record belongs to an organization,
the indexer has a contract to read and lists none twice, a page and a chunk are
not empty, and lifetimes and bounds are natural numbers, that of a code a
positive one. No theorem has a hypothesis beyond them. Where the code keeps a
promise only under a condition, the condition is in the property and says which
interleaving it is: `raced` and `met` in the application registry, `hasty` in
the seed script, `missed` in the console, `outlasts` in live access.

**Registry.** `OrganizationsSeated` is not inductive without the types; with them
the step that matters is `createOrganization`, which writes under the new
count, and `transferOrgRootAdmin`, whose target must be an active identity.
Identities never disappear, which keeps a seat holder registered.

**Access manager.** `MemberListExact` says that index and list are inverse to each
other. It is inductive together with the types. The hard step is `removeMember`,
where the removed entry is the last one or not: the moved wallet's index is
rewritten, and that nobody else is listed where it now stands follows from the
uniqueness that the inverse gives. `GovernanceKept` rests on one strengthening:
the override of ADMIN for the two governance permissions is never `Denied`, which
the guard of `setPermission` keeps. The two action properties take the same
invariants, with `MembersRegistered`: who has a membership has an identity
(`StandingInv`), and one fact per transaction: what it changes of roles
and permissions, and which right its guard asked of its sender. `RosterExact` is
no invariant to be strengthened but a consequence: the roster is the list, or the
list behind the seat, so that it is exact follows from `MemberListExact` alone.

**Certificates.** A step of `AssetNFT` is one of `OrgAccessManager` or leaves it
alone (`AssetsKeepAccess`), so everything above holds beside it, in callbacks too.
`CustodyInv` adds to the types that holder and `assignedTo` agree (`Custody`) and
that each organization's list is duplicate-free and has exactly its certificates
(`Listed`). It holds in the middle of a mint as well, because `mintAsset` has
written everything but the URI before it calls the recipient; that is why nested
mints need no induction over the stack.

**Live access.** `EvaluationInv` keeps, of a yes of `canAccessApp`, an instant
since the evaluation began at which that was the chain's answer; and, where at
every instant so far the chain admits the wallet and its membership outlasts the
clocks' difference, that every read so far was favourable. `decideAccess` is
then a case split: it allows only on that yes, and refuses only on an answer
that is not favourable.

**Records.** `RecordsInv` has, beside the types and the seats, four parts.
`Witnessed`: the history of an organization contains what it is now. `Earned`:
between its comparison and its write a confirm holds a pair of that history.
`SeededInv`: unless a rerun was hasty, at most one creation of the demo is
waiting for a block, none is while a script scans, and every organization the
script has passed or created before was something else than the demo at some time
(`Spoiled`), which nothing undoes; so the one that is mined next is the only one
that is still intact. `AloneInv`: a flow that
is alone finds row, identity and organization as it left them.

**Sign-in.** `SiweInv` adds three facts to the types. `Checked`: a request past
`readNonce` signed with the address it claims, and its row is that address's.
`Spent`: a request past `consume` presented a nonce that is used up. `Cookied`:
a cookie has a finished request behind it. The proof of each step keeps all
four. For the refinement, `Spent` gives the step that counts: the row of a nonce
which `consume` finds unused has nobody served yet, so the step is `Redeem`.
`consumeUnheard` and the purge are `Drop`, and everything else stutters.

**Application registry.** `AppsInv` is about one request and the row it writes:
what a request has read and decided so far fits the statement it is at. `RacesInv`
is about those that overlap: whoever is under way on an application has met the
others there (`MetKept`), the row is as was promised between any two statements
(`WordKept`), what each of them has still to write breaks no promise (`Harmless`),
and what is there of its own earlier statements is its own or of one it has met
(`Knows`). A promise is made only where no rival can break it any more, so each
statement of one request has to be shown harmless to the others (`RaceMoves`,
`OthersKnow`), also when it is the last one before a failure.

**Sign in with owneX.** `AuthInv` says of each request at each of its steps which
facts it has seen (`seen` only grows), and of each code that an approval with all
its facts issued it and that at most one exchange has used it up. An exchange
copies application, callback and wallet from the row it consumed, so what it
answers is the consent's. The same invariant gives the refinement: a row that is
unused in the table has nobody served in `OneTimeGrant`.

**Portal.** The invariant `IInv` says of everything that carries a cookie what
`SessionEarned` says of the cookie in the browser: each consent (`GoodConsent`),
each cookie at rest (`GoodSession`) and each request under way (`GoodRequest`),
because a response that was computed long ago may be the one that is stored. Two
facts carry it through the steps: a login keeps its browser once it was sent, and
a consent keeps its wallet once it was given (`LoginsKept`, `ConsentsKept`), so
whatever was earned stays earned. A state is spent when a callback's response
arrives, and `GoodCallback` keeps the states that were spent before a request was
sent out of what it may use.

**Asset drafts.** `BindingInv`: a row that is bound and stamped fits the token
on that deployment (`RowsBacked`), and so do the row and token a confirm is
about to bind (`RequestBacked`) and each write the script still has to make
(`RepairBacked`). A token's history of anchors only grows, so what fitted once
fits for ever, whoever changes what in between. For whoever runs alone the
database is what it read (`RequestAlone`, `ScriptAlone`); that is what
`NeverWedged` and `VerifiedBindingKept` need beyond it. The unique index enters
as the guard of the conditional update. `RepairSettles` says two things. That
the index refuses nothing (`Unrefused`) needs `Apart`: an unstamped row and one
of this deployment never hold the same token, no script stamps a row of another
deployment, and the unstamped rows that hold a token it plans to bind are among
those it releases first. What it says of the last step of a script `PlanKept`
says of every step: while nobody else writes, the writes that are left are the
plan the script would make now. The step that matters binds the k-th waiting row
to the k-th free token: both leave, and the ranks of those above them drop
together (`RanksShift`), so the others stay matched as they were.

**Audit indexer.** `IndexInv` has three parts beside the types. `ChainFacts`: what
the node knows is of its chain, and a row, stored or still to be stored, is an
event of that chain or of an earlier one. `OverlapInv`: while nothing was purged
and no height given, every cache is complete below its recorded height, and every
sync in flight has its rows below the block it reads from (`Progress`), whoever
else writes: rows are only added, so progress is never undone, and a recorded
height that goes backwards does no harm. `AloneInv`: a sync that is alone and
either rebuilds or resumes a cache that was fit has completed the contracts it
has passed, and those ahead of it can be resumed from their recorded height or
have nothing but rows of a dead chain, which the check of their newest row finds
(`Served`). That the newest row of a cache with live rows may be a dead one is
what `fit` leaves out, and what `MCAuditRestart.cfg` shows. `OneContract` says that
a block has one transaction, whose events are of one contract, so chain and block
of an event tell its contract and any two rows of the cache are ordered. The ranks
of a finite ordered set are all taken, so the query's order exists; and a row that
breaks the chain of pages would have a first page it breaks at (`LeastNatural`).

**Console.** `ConsoleInv` is about one tab between two renders. `ListInv`: the
screen's list belongs to the session (`Placed`); a request for a list that still
counts has the screen's loader, nonce and organization, and, if it is answered,
has seen every write since the list was asked for; and a list that is not fresh
is being asked for (`Listing`). `ChainInv`: unless
the page missed a switch, ahead of each message that the wallet is on owneX's chain
but is not any more, there is one that says so. `RunInv`: a
write past its receipt on owneX's chain is in a block. `WriteInv` is about the form
on the page and the write it started on a known chain: unless a switch was missed,
the wallet is still on
owneX's chain, or the page will hear of another one before it hears what became
of the write (`WatchOK`, `Warned`), and then it drops the form. That is why a form
which gets to say done is right (`DoneOK`), although the chain was checked long
before. The messages' order, wallet before receipt, carries the argument, and is
what section 7 takes for granted. `FormInv` and `WalletChosen` tie form, page
and connection together.

**Callback allowlist.** No induction: the theorems are about functions, for every
URL, every registered set and both modes. The lemmas state what an accepted check
implies and that canonical forms of two spellings are equal.

**Only model-checked:** `CustodyRecoverable`, `ShownIsApplied`,
`RefusalsAreAnnounced` and `VaultConfirmed`, which speak of ENABLED, which is not in
the prover's reach. The types of
`AuditIndexer` and `Console`, which other runs need no check of, and some others,
and `OrganizationsSeated`, are proved and not run.

## 7. What is left out

- Rendering: the landing page, the design system, styles, wording that no
  property is about, images. They hold no state of the system.
- Scripts that are run once by hand before the system is in use (deployment and
  verification), and tests.
- Of the seed scripts, the memberships, application grants and mints of
  `seed-demo.ts` and the display rows of `seed-offchain.mjs`.
- Cryptography. A signature is the wallet that made it, a hash is the record it
  is of, and a secret is a value that can be compared. Sealing of the cookie is
  taken to work.
- Reorganisations of the chain: `now` and the contracts' state only move
  forward. (A chain that is replaced is in `AuditIndexer`, a contract in
  `AssetBinding`.)
- In `Screens` all clocks agree. In `LiveAccess` they may differ; a membership
  that ends within the difference may be refused early or for another reason,
  which `MemberLetIn` leaves out.
- In `Records`, a stop between sending and mining of `registerIdentityFor`; the
  transactions of one account are mined in the order sent.
- In `LiveAccess` and `Authorization`, requests of roles/verify that name no
  application, which development mode without credentials answers, and which
  fields the claims carry.
- In `ApplicationRegistry`, the permission check before the first statement and
  the columns that are only displayed.
- In `Console`: one wallet provider (`tab.active` is a BOOLEAN; the page
  supports several, and after a second wallet that is rejected in `signIn` keeps
  the chain it read of the first). The wallet's messages arrive in order, the
  chain has no lag, one form is open at a time, and the gate of a revoked
  identity, which is in `Screens`, is not there; the rotation of a secret and
  the change of a status are in `ApplicationRegistry` and not among its writes.
- In `Screens` and `VaultScreens`, names, profile fields, the filters by type
  and department, and drafts that are not minted.
- In the contracts, timestamps kept for display, events, and the paged getter.
