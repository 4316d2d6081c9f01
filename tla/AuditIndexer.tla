------------------------------ MODULE AuditIndexer ------------------------------
(***************************************************************************)
(* The audit trail's cache: syncEvents copies the contracts' events from   *)
(* the chain to audit_cache and remembers in indexer_state how far it read; *)
(* GET /api/audit pages through the rows and the Audit Trail screen appends *)
(* the pages.                                                              *)
(*                                                                         *)
(* Any signed-in wallet starts a sync at any time, so syncs overlap, and   *)
(* every database or node call of one is a step of its own.  A call may    *)
(* fail: the errors of the two deletes of a purge and of the last write    *)
(* are ignored, any other ends the sync where it stands.  The node behind  *)
(* the cache may be replaced by a new chain that starts at height zero.    *)
(***************************************************************************)
EXTENDS Integers, Sequences, FiniteSets, SequencesExt, FiniteSetsExt

CONSTANTS
  Contracts,   \* the contracts, in the order a sync visits them
  Sync,        \* syncs that may be in flight together
  FromArgs,    \* bound: explicit fromBlock arguments
  LowerBound,  \* startBlock
  Chunk,       \* chunkSize: blocks per query
  Limit,       \* rows per page
  MaxBlock,    \* bound: height of a chain
  PerBlock,    \* bound: how many tracked events a block may have
  MaxRestarts, \* bound: times the chain is replaced
  Failures     \* whether calls may fail

ASSUME IndexerAssumption ==
  /\ Contracts \in Seq(Range(Contracts)) /\ IsInjective(Contracts) /\ Contracts # <<>>
  /\ LowerBound \in Nat /\ Chunk \in Nat \ {0} /\ Limit \in Nat \ {0}
  /\ FromArgs \subseteq Nat /\ MaxBlock \in Nat /\ MaxRestarts \in Nat
  /\ PerBlock \subseteq 0..2 /\ Failures \in BOOLEAN

Contract == Range(Contracts)
NoBlock  == -1   \* no fromBlock, no row of indexer_state

VARIABLES
  emitted,  \* the tracked events of the chain the node serves
  height,   \* its block number
  chain,    \* how many chains it has replaced
  rows,     \* audit_cache, unique on (tx_hash, log_index)
  last,     \* indexer_state.last_block of each contract
  sync,     \* the syncs in flight
  disturbed \* history: a purge, an explicit fromBlock or a new chain

vars == <<emitted, height, chain, rows, last, sync, disturbed>>

(* One transaction per block; its hash is <<chain, block>>.  addMember     *)
(* emits two tracked events, MemberAdded and RoleAssigned.                 *)
Event == [chain : 0..MaxRestarts, contract : Contract, block : 1..MaxBlock, log : 0..1]

Of(c, S) == {e \in S : e.contract = c}

Idle == [pc |-> "idle", fromBlock |-> NoBlock, latest |-> 0, i |-> 1, from |-> 0,
         batch |-> {}, alone |-> FALSE, fit |-> FALSE]

SyncState ==
  [pc : {"idle", "check", "purgeRows", "purgeState", "tipRows", "tipState",
         "read", "query", "store", "record"},
   fromBlock : FromArgs \cup {NoBlock}, latest : 0..MaxBlock,
   i : 1..Len(Contracts), from : 0..(MaxBlock + 1), batch : SUBSET Event,
   alone : BOOLEAN, fit : BOOLEAN]

AuditTypeOK ==
  /\ emitted \subseteq Event /\ rows \subseteq Event
  /\ height \in 0..MaxBlock /\ chain \in 0..MaxRestarts
  /\ last \in [Contract -> NoBlock..MaxBlock]
  /\ disturbed \in BOOLEAN
  /\ sync \in [Sync -> SyncState]

AuditInit ==
  /\ emitted = {} /\ height = 0 /\ chain = 0
  /\ rows = {} /\ last = [c \in Contract |-> NoBlock]
  /\ sync = [s \in Sync |-> Idle]
  /\ disturbed = FALSE

-----------------------------------------------------------------------------
(* The chain.                                                              *)

(* A block whose transaction emits some tracked events, or none. There are *)
(* none before startBlock, where the contracts are deployed.               *)
mine(c, n) ==
  /\ height < MaxBlock
  /\ n > 0 => height + 1 >= LowerBound
  /\ height' = height + 1
  /\ emitted' = emitted \cup
       {[chain |-> chain, contract |-> c, block |-> height + 1, log |-> l] : l \in 0..(n - 1)}
  /\ UNCHANGED <<chain, rows, last, sync, disturbed>>

notAlone(s) == [sync[s] EXCEPT !.alone = FALSE, !.fit = FALSE]

restart ==
  /\ chain < MaxRestarts
  /\ chain' = chain + 1 /\ height' = 0 /\ emitted' = {}
  /\ sync' = [s \in Sync |-> notAlone(s)]
  /\ disturbed' = TRUE
  /\ UNCHANGED <<rows, last>>

-----------------------------------------------------------------------------
(* What a sync may rely on.                                                *)

(* No row of another chain, and every event up to height h is cached.      *)
Complete(c, h) ==
  /\ Of(c, rows) \subseteq emitted
  /\ \A e \in Of(c, emitted) : e.block <= h => e \in rows

(* Every cached row belongs to a chain that is gone.                       *)
AllDead(c) == Of(c, rows) # {} /\ Of(c, rows) \cap emitted = {}

-----------------------------------------------------------------------------
(* syncEvents.                                                             *)

at(s, pc)       == sync[s].pc = pc
contract(s)     == Contracts[sync[s].i]
goto(s, pc)     == sync' = [sync EXCEPT ![s].pc = pc]
chainVars       == <<emitted, height, chain>>
dbVars          == <<rows, last>>

begin(s, fromBlock) ==
  /\ at(s, "idle")
  /\ sync' = [t \in Sync |->
       IF t = s
       THEN [Idle EXCEPT !.pc = "check", !.fromBlock = fromBlock, !.latest = height,
               !.alone = \A u \in Sync \ {s} : at(u, "idle"),
               !.fit = /\ \A u \in Sync \ {s} : at(u, "idle")
                       /\ fromBlock = NoBlock
                       /\ \A c \in Contract : Complete(c, last[c]) \/ AllDead(c)]
       ELSE notAlone(t)]
  /\ disturbed' = (disturbed \/ fromBlock # NoBlock)
  /\ UNCHANGED <<chainVars, dbVars>>

(* detectChainReset: the newest cached row, and whether the node has its   *)
(* transaction.  Rows of one height are returned in any order, and an error *)
(* of the database reads as an empty cache.                                *)
newest(c) == {e \in Of(c, rows) : \A f \in Of(c, rows) : f.block <= e.block}

check_keepRows(s) == \* mutant: a rebuild reads again but keeps the old rows
  /\ at(s, "check")
  /\ IF sync[s].fromBlock \in 0..LowerBound \/ newest(contract(s)) = {}
     THEN goto(s, "read")
     ELSE \E e \in newest(contract(s)) :
            goto(s, IF e \in emitted THEN "read" ELSE "purgeRows")
  /\ UNCHANGED <<chainVars, dbVars, disturbed>>

check(s) ==
  /\ at(s, "check")
  /\ IF sync[s].fromBlock \in 0..LowerBound
     THEN goto(s, "purgeRows")
     ELSE \/ newest(contract(s)) = {} /\ goto(s, "read")
          \/ \E e \in newest(contract(s)) :
               goto(s, IF e \in emitted THEN "read" ELSE "purgeRows")
          \/ Failures /\ sync' = [sync EXCEPT ![s].pc = "read", ![s].alone = FALSE]
  /\ UNCHANGED <<chainVars, dbVars, disturbed>>

(* purgeContractCache: two deletes, and nobody looks at their errors.      *)
(* After a purge for a height beyond the tip the state is not read again.  *)
purgeRows(s) ==
  \E done \in {TRUE, ~Failures} :
    /\ sync[s].pc \in {"purgeRows", "tipRows"}
    /\ rows' = IF done THEN rows \ Of(contract(s), rows) ELSE rows
    /\ sync' = [sync EXCEPT ![s].pc = IF @ = "tipRows" THEN "tipState" ELSE "purgeState",
                            ![s].alone = @ /\ done]
    /\ disturbed' = TRUE
    /\ UNCHANGED <<chainVars, last>>

purgeState(s) ==
  \E done \in {TRUE, ~Failures} :
    /\ sync[s].pc \in {"purgeState", "tipState"}
    /\ last' = IF done THEN [last EXCEPT ![contract(s)] = NoBlock] ELSE last
    /\ sync' = [sync EXCEPT ![s].pc = IF @ = "tipState" THEN "query" ELSE "read",
                            ![s].alone = @ /\ done]
    /\ UNCHANGED <<chainVars, rows, disturbed>>

(* A height beyond the tip also means that the chain was replaced.  A state *)
(* that cannot be read counts as none.                                     *)
startFrom(s, known) ==
  LET resume == IF sync[s].fromBlock = NoBlock THEN known + 1 ELSE sync[s].fromBlock
      from   == Max({resume, LowerBound})
  IN /\ at(s, "read")
     /\ IF from > sync[s].latest + 1
        THEN sync' = [sync EXCEPT ![s].pc = "tipRows", ![s].from = 0]
        ELSE sync' = [sync EXCEPT ![s].pc = "query", ![s].from = from]
     /\ UNCHANGED <<chainVars, dbVars, disturbed>>

readState_skip(s) == startFrom(s, last[contract(s)] + 1) \* mutant: skips one block too many

readState(s) ==
  \E done \in {TRUE, ~Failures} : startFrom(s, IF done THEN last[contract(s)] ELSE NoBlock)

(* queryFilter on the next chunk; the rows it returns are written later.   *)
query(s) ==
  LET start == sync[s].from
      end   == Min({start + Chunk - 1, sync[s].latest})
  IN /\ at(s, "query")
     /\ IF start > sync[s].latest
        THEN goto(s, "record")
        ELSE sync' = [sync EXCEPT ![s].pc = "store", ![s].from = end + 1,
               ![s].batch = {e \in Of(contract(s), emitted) : e.block \in start..end}]
     /\ UNCHANGED <<chainVars, dbVars, disturbed>>

(* The upsert ignores the rows that are there already.                     *)
store(s) ==
  /\ at(s, "store")
  /\ rows' = rows \cup sync[s].batch
  /\ sync' = [sync EXCEPT ![s].pc = "query", ![s].batch = {}]
  /\ UNCHANGED <<chainVars, last, disturbed>>

(* indexer_state, whose error is ignored too; then the next contract.      *)
next(s) == IF sync[s].i = Len(Contracts)
           THEN sync' = [sync EXCEPT ![s] = Idle]
           ELSE sync' = [sync EXCEPT ![s].pc = "check", ![s].i = @ + 1, ![s].from = 0]

record_tip(s) == \* mutant: records the height of now
  /\ at(s, "record")
  /\ last' = [last EXCEPT ![contract(s)] = height]
  /\ next(s)
  /\ UNCHANGED <<chainVars, rows, disturbed>>

record(s) ==
  /\ at(s, "record")
  /\ \E done \in {TRUE, ~Failures} :
       last' = IF done THEN [last EXCEPT ![contract(s)] = sync[s].latest] ELSE last
  /\ next(s)
  /\ UNCHANGED <<chainVars, rows, disturbed>>

(* A node call or the upsert throws, or the server stops.                  *)
fail(s) ==
  /\ Failures /\ ~at(s, "idle")
  /\ sync' = [sync EXCEPT ![s] = Idle]
  /\ UNCHANGED <<chainVars, dbVars, disturbed>>

SyncStep(s) ==
  \/ check(s) \/ purgeRows(s) \/ purgeState(s) \/ readState(s)
  \/ query(s) \/ store(s) \/ record(s)

AuditNext ==
  \/ \E c \in Contract, n \in PerBlock : mine(c, n)
  \/ restart
  \/ \E s \in Sync : SyncStep(s) \/ fail(s)
  \/ \E s \in Sync, b \in FromArgs \cup {NoBlock} : begin(s, b)

AuditSpec == AuditInit /\ [][AuditNext]_vars

-----------------------------------------------------------------------------
(* Reading: GET /api/audit and the screen's "load older".                  *)

Newer(e, f) == \/ e.block > f.block
               \/ e.block = f.block /\ e.log > f.log
               \/ e.block = f.block /\ e.log = f.log /\ e.chain > f.chain \* any order would do

newestFirst(S) ==
  [i \in 1..Cardinality(S) |->
     CHOOSE e \in S : Cardinality({f \in S : Newer(f, e)}) = i - 1]

page_belowCursor(cursor) == \* mutant: the cursor is already the next block
  LET found   == newestFirst({e \in rows : e.block < cursor})
      hasMore == Len(found) > Limit
      shown   == SubSeq(found, 1, Min({Limit, Len(found)}))
  IN [events |-> shown, hasMore |-> hasMore,
      nextCursor |-> IF hasMore THEN Last(shown).block - 1 ELSE NoBlock]

(* One row more than the limit is read to learn whether more exist.        *)
page(cursor) ==
  LET found   == newestFirst({e \in rows : e.block < cursor})
      hasMore == Len(found) > Limit
      shown   == SubSeq(found, 1, Min({Limit, Len(found)}))
  IN [events |-> shown, hasMore |-> hasMore,
      nextCursor |-> IF hasMore THEN Last(shown).block ELSE NoBlock]

(* What the screen shows after its last "load older".                      *)
loadOlder[cursor \in 0..(MaxBlock + 1)] ==
  LET p == page(cursor)
  IN IF p.hasMore THEN p.events \o loadOlder[p.nextCursor] ELSE p.events

-----------------------------------------------------------------------------
(* Properties.                                                             *)

(* Alone: no other sync was in flight, the chain was not replaced meanwhile *)
(* and no error of a database call was ignored.                            *)
Completes(s) == at(s, "record") /\ sync[s].i = Len(Contracts) /\ at(s, "idle")' /\ sync[s].alone

(* The cache can always be rebuilt from the chain: whatever earlier syncs  *)
(* left behind, rows of a dead chain, holes, a height without rows, a sync *)
(* with a fromBlock at or below the start that runs alone ends with every  *)
(* event up to the height it read, and nothing else.                       *)
RebuildRepairs ==
  [][\A s \in Sync :
       Completes(s) /\ sync[s].fromBlock \in 0..LowerBound
         => \A c \in Contract : Complete(c, sync[s].latest)]_vars

(* A resumed sync that runs alone keeps a good cache good, and notices     *)
(* that the chain was replaced when every contract has a row of the old    *)
(* one.                                                                    *)
ResumeKeepsComplete ==
  [][\A s \in Sync :
       Completes(s) /\ sync[s].fromBlock = NoBlock /\ sync[s].fit
         => \A c \in Contract : Complete(c, sync[s].latest)]_vars

(* Calling it twice is free as long as nothing is purged: syncs that       *)
(* resume may overlap, fail at any call and finish in any order, and the   *)
(* recorded height never runs ahead of the rows.                           *)
OverlapHarmless == ~disturbed => \A c \in Contract : Complete(c, last[c])

(* Reading back page by page shows no row twice and never goes forward in  *)
(* time, and skips a row only where a page ends inside the row's block.    *)
PagesInOrder ==
  LET shown == loadOlder[MaxBlock + 1]
  IN /\ \A i \in 1..(Len(shown) - 1) : Newer(shown[i], shown[i + 1])
     /\ \A e \in rows \ Range(shown) :
          \E i \in DOMAIN shown : i % Limit = 0 /\ shown[i].block = e.block

(* "Makes local development safe to restart": a sync that runs alone and   *)
(* resumes leaves the events of the chain the node serves.                 *)
RestartSafe ==
  [][\A s \in Sync :
       Completes(s) /\ sync[s].fromBlock = NoBlock
         => \A c \in Contract : Complete(c, sync[s].latest)]_vars

(* "That is the whole indexed history", the screen says after the last     *)
(* page.                                                                   *)
WholeHistoryShown == Range(loadOlder[MaxBlock + 1]) = rows
=============================================================================
