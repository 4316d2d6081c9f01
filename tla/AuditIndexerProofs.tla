--------------------------- MODULE AuditIndexerProofs ---------------------------
(***************************************************************************)
(* Theorems about AuditIndexer, for any number of contracts, of syncs in   *)
(* flight, of blocks and events and of restarts of the chain: overlapping  *)
(* syncs leave no hole below a recorded height, a rebuild repairs whatever *)
(* was left behind, a resumed sync keeps a good cache good, and its pages  *)
(* come in order.                                                          *)
(***************************************************************************)
EXTENDS AuditIndexer, FiniteSetTheorems, WellFoundedInduction, TLAPS

-----------------------------------------------------------------------------
(* The invariant.                                                          *)

(* The rows of contract c are events of the chain, all that happened below *)
(* block b, but for those in S.                                            *)
CachedBelow(c, b, S) ==
  /\ Of(c, rows) \subseteq emitted
  /\ \A e \in Of(c, emitted) : e.block < b => e \in rows \cup S

(* How far a sync is with its contract while nothing is in its way.        *)
Progress(s) ==
  LET q == sync[s] IN
  /\ q.pc = "query" => q.from <= q.latest + 1 /\ CachedBelow(contract(s), q.from, {})
  /\ q.pc = "store" => /\ q.from <= q.latest + 1
                       /\ q.batch \subseteq Of(contract(s), emitted)
                       /\ CachedBelow(contract(s), q.from, q.batch)
  /\ q.pc = "record" => CachedBelow(contract(s), q.latest + 1, {})

(* The node knows its own events only, and none before startBlock; a row,  *)
(* stored or still to be stored, is such an event or of an earlier chain.  *)
ChainFacts ==
  /\ \A e \in emitted : e.chain = chain /\ e.block <= height /\ e.block >= LowerBound
  /\ \A e \in rows : e.chain <= chain /\ (e.chain = chain => e \in emitted)
  /\ \A s \in Sync : \A e \in sync[s].batch : e.chain <= chain /\ (e.chain = chain => e \in emitted)

(* While nothing has been purged and no height was given, every sync       *)
(* resumes and each is as far as if it were alone.                         *)
Quiet(s) ==
  ~at(s, "idle") =>
     /\ sync[s].fromBlock = NoBlock /\ sync[s].latest <= height
     /\ sync[s].pc \notin {"purgeRows", "purgeState", "tipState"}
     /\ Progress(s)

OverlapInv ==
  ~disturbed =>
     /\ rows \subseteq emitted
     /\ \A c \in Contract : last[c] <= height /\ Complete(c, last[c])
     /\ \A s \in Sync : Quiet(s)

(* What a sync that is alone can promise something about: a rebuild, or a  *)
(* resumption from where the cache was fit to resume.                      *)
Serving(s) == \/ sync[s].fromBlock \in 0..LowerBound
              \/ sync[s].fromBlock = NoBlock /\ sync[s].fit

(* Reading on from the recorded height leaves no hole below height h.      *)
Resumable(c, h) ==
  /\ Of(c, rows) \subseteq emitted
  /\ \A e \in Of(c, emitted) : e.block <= last[c] /\ e.block <= h => e \in rows

(* Contracts before the current one are complete, those after it can be    *)
(* resumed or will be found to be dead.                                    *)
Served(s) ==
  LET q == sync[s] IN
  /\ \A j \in 1..(q.i - 1) : Complete(Contracts[j], q.latest)
  /\ q.fromBlock = NoBlock => \A j \in q.i..Len(Contracts) : j > q.i \/ q.pc = "check"
        => Resumable(Contracts[j], q.latest) \/ AllDead(Contracts[j])
  /\ q.pc = "read" => Resumable(contract(s), q.latest)
  /\ Progress(s)

AloneInv(s) ==
  ~at(s, "idle") /\ sync[s].alone =>
    /\ \A u \in Sync \ {s} : at(u, "idle")
    /\ sync[s].latest <= height
    /\ sync[s].pc \in {"purgeState", "tipState"} => Of(contract(s), rows) = {}
    /\ Serving(s) => Served(s)

(* A purge for a height beyond the tip starts from block 0.                *)
TipFacts(s) == sync[s].pc \in {"tipRows", "tipState"} => sync[s].from = 0

IndexInv ==
  /\ AuditTypeOK
  /\ ChainFacts
  /\ OverlapInv
  /\ \A s \in Sync : AloneInv(s) /\ TipFacts(s)

-----------------------------------------------------------------------------
(* Numbers, and the list of contracts.                                     *)

LEMMA LeastNatural ==
  ASSUME NEW S, S \subseteq Nat, S # {}
  PROVE  \E n \in S : \A m \in S : n <= m
<1> DEFINE R == {p \in Nat \X Nat : p[1] < p[2]}
<1>1. IsWellFoundedOn(R, Nat)
  BY NatLessThanWellFounded DEF OpToRel
<1>2. PICK n \in S : \A m \in S : <<m, n>> \notin R
  <2> HIDE DEF R
  <2> QED BY <1>1, WFMin
<1>3. \A m \in S : ~(m < n)
  BY <1>2
<1> QED
  BY <1>3

LEMMA MaxOfTwo ==
  ASSUME NEW a \in Int, NEW b \in Int
  PROVE  Max({a, b}) = IF a >= b THEN a ELSE b
BY DEF Max

LEMMA MinOfTwo ==
  ASSUME NEW a \in Int, NEW b \in Int
  PROVE  Min({a, b}) = IF a <= b THEN a ELSE b
BY DEF Min

LEMMA ContractsListed ==
  /\ Len(Contracts) \in Nat \ {0}
  /\ \A i \in 1..Len(Contracts) : Contracts[i] \in Contract
  /\ \A c \in Contract : \E i \in 1..Len(Contracts) : c = Contracts[i]
  /\ \A i, j \in 1..Len(Contracts) : Contracts[i] = Contracts[j] => i = j
BY IndexerAssumption DEF IsInjective, Contract, Range

(* What a statement of a sync leaves of its state.                         *)
At(s, pc, from, batch, alone) ==
  [pc |-> pc, fromBlock |-> sync[s].fromBlock, latest |-> sync[s].latest, i |-> sync[s].i,
   from |-> from, batch |-> batch, alone |-> alone, fit |-> sync[s].fit]

Becomes(s, q) == sync' = [sync EXCEPT ![s] = q]

LEMMA SyncFields ==
  ASSUME AuditTypeOK, NEW s \in Sync
  PROVE  /\ sync \in [Sync -> SyncState] /\ sync[s] \in SyncState
         /\ sync[s].pc \in {"idle", "check", "purgeRows", "purgeState", "tipRows", "tipState",
                            "read", "query", "store", "record"}
         /\ sync[s].fromBlock \in Int /\ sync[s].fromBlock \in FromArgs \cup {NoBlock}
         /\ sync[s].latest \in 0..MaxBlock
         /\ sync[s].i \in 1..Len(Contracts) /\ contract(s) \in Contract
         /\ sync[s].from \in 0..(MaxBlock + 1)
         /\ sync[s].batch \in SUBSET Event
         /\ sync[s].alone \in BOOLEAN /\ sync[s].fit \in BOOLEAN
         /\ last[contract(s)] \in NoBlock..MaxBlock
<1>1. sync \in [Sync -> SyncState] /\ sync[s] \in SyncState
  BY DEF AuditTypeOK
<1>2. contract(s) \in Contract
  BY <1>1, ContractsListed DEF SyncState, contract
<1>3. sync[s].fromBlock \in FromArgs \cup {NoBlock} /\ FromArgs \subseteq Int
  BY <1>1, IndexerAssumption DEF SyncState
<1>4. last[contract(s)] \in NoBlock..MaxBlock
  BY <1>2 DEF AuditTypeOK
<1>5. NoBlock \in Int
  BY DEF NoBlock
<1>6. sync[s].fromBlock \in Int
  BY <1>3, <1>5
<1> QED
  BY <1>1, <1>2, <1>3, <1>4, <1>6 DEF SyncState

LEMMA PcChanged ==
  ASSUME AuditTypeOK, NEW s \in Sync, NEW pc
  PROVE  [sync[s] EXCEPT !.pc = pc] = At(s, pc, sync[s].from, sync[s].batch, sync[s].alone)
<1>1. sync[s] \in SyncState
  BY SyncFields
<1> QED
  BY <1>1 DEF SyncState, At

LEMMA AloneChanged ==
  ASSUME AuditTypeOK, NEW s \in Sync, NEW pc, NEW b \in BOOLEAN
  PROVE  [sync[s] EXCEPT !.pc = pc, !.alone = b] = At(s, pc, sync[s].from, sync[s].batch, b)
<1> DEFINE q == [sync[s] EXCEPT !.pc = pc]
<1>1. q = At(s, pc, sync[s].from, sync[s].batch, sync[s].alone)
  BY PcChanged
<1>2. [sync[s] EXCEPT !.pc = pc, !.alone = b] = [q EXCEPT !.alone = b]
  BY SyncFields DEF SyncState
<1> HIDE DEF q
<1> QED
  BY <1>1, <1>2 DEF At

LEMMA FromChanged ==
  ASSUME AuditTypeOK, NEW s \in Sync, NEW pc, NEW n
  PROVE  [sync[s] EXCEPT !.pc = pc, !.from = n] = At(s, pc, n, sync[s].batch, sync[s].alone)
<1> DEFINE q == [sync[s] EXCEPT !.pc = pc]
<1>1. q = At(s, pc, sync[s].from, sync[s].batch, sync[s].alone)
  BY PcChanged
<1>2. [sync[s] EXCEPT !.pc = pc, !.from = n] = [q EXCEPT !.from = n]
  BY SyncFields DEF SyncState
<1> HIDE DEF q
<1> QED
  BY <1>1, <1>2 DEF At

LEMMA BatchChanged ==
  ASSUME AuditTypeOK, NEW s \in Sync, NEW pc, NEW n, NEW S
  PROVE  /\ [sync[s] EXCEPT !.pc = pc, !.batch = S] = At(s, pc, sync[s].from, S, sync[s].alone)
         /\ [sync[s] EXCEPT !.pc = pc, !.from = n, !.batch = S] = At(s, pc, n, S, sync[s].alone)
<1> DEFINE q == [sync[s] EXCEPT !.pc = pc]
           r == [sync[s] EXCEPT !.pc = pc, !.from = n]
<1>1. /\ q = At(s, pc, sync[s].from, sync[s].batch, sync[s].alone)
      /\ r = At(s, pc, n, sync[s].batch, sync[s].alone)
  BY PcChanged, FromChanged
<1>2. /\ [sync[s] EXCEPT !.pc = pc, !.batch = S] = [q EXCEPT !.batch = S]
      /\ [sync[s] EXCEPT !.pc = pc, !.from = n, !.batch = S] = [r EXCEPT !.batch = S]
  BY SyncFields DEF SyncState
<1> HIDE DEF q, r
<1> QED
  BY <1>1, <1>2 DEF At

LEMMA CheckMoves ==
  ASSUME AuditTypeOK, NEW s \in Sync, check(s)
  PROVE  \E pc \in {"read", "purgeRows"}, alone \in BOOLEAN :
           /\ Becomes(s, At(s, pc, sync[s].from, sync[s].batch, alone))
           /\ alone => sync[s].alone
           /\ sync[s].fromBlock \in 0..LowerBound => pc = "purgeRows"
           /\ alone /\ sync[s].fromBlock \notin 0..LowerBound /\ pc = "read" =>
                newest(contract(s)) = {} \/ newest(contract(s)) \cap emitted # {}
           /\ sync[s].fromBlock \notin 0..LowerBound /\ pc = "purgeRows" =>
                newest(contract(s)) \ emitted # {}
<1>3. sync[s].alone \in BOOLEAN
  BY SyncFields
<1>4. CASE sync[s].fromBlock \in 0..LowerBound
  BY PcChanged, <1>3, <1>4 DEF check, goto, Becomes
<1>5. CASE sync[s].fromBlock \notin 0..LowerBound
  <2>1. CASE newest(contract(s)) = {} /\ goto(s, "read")
    BY PcChanged, <1>3, <1>5, <2>1 DEF goto, Becomes
  <2>2. ASSUME NEW e \in newest(contract(s)),
               goto(s, IF e \in emitted THEN "read" ELSE "purgeRows")
        PROVE  \E pc \in {"read", "purgeRows"} :
                 /\ Becomes(s, At(s, pc, sync[s].from, sync[s].batch, sync[s].alone))
                 /\ IF pc = "read" THEN newest(contract(s)) \cap emitted # {}
                                   ELSE newest(contract(s)) \ emitted # {}
    BY PcChanged, <2>2 DEF goto, Becomes
  <2>3. CASE sync' = [sync EXCEPT ![s].pc = "read", ![s].alone = FALSE]
    <3>1. PICK b \in BOOLEAN : b = FALSE
      OBVIOUS
    <3>2. PICK pc : pc = "read"
      OBVIOUS
    <3>3. sync' = [sync EXCEPT ![s] = [sync[s] EXCEPT !.pc = pc, !.alone = b]]
      BY <2>3, <3>1, <3>2, SyncFields
    <3>4. Becomes(s, At(s, pc, sync[s].from, sync[s].batch, b))
      BY <3>3, AloneChanged DEF Becomes
    <3> QED
      BY <1>5, <3>1, <3>2, <3>4
  <2> QED
    BY <1>3, <1>5, <2>1, <2>2, <2>3 DEF check
<1> QED
  BY <1>4, <1>5

LEMMA PurgeRowsMoves ==
  ASSUME AuditTypeOK, NEW s \in Sync, purgeRows(s)
  PROVE  \E alone \in BOOLEAN :
           /\ Becomes(s, At(s, IF sync[s].pc = "tipRows" THEN "tipState" ELSE "purgeState",
                            sync[s].from, sync[s].batch, alone))
           /\ alone => sync[s].alone /\ rows' = rows \ Of(contract(s), rows)
           /\ rows' \in {rows, rows \ Of(contract(s), rows)}
<1>1. PICK done \in {TRUE, ~Failures} :
        /\ rows' = IF done THEN rows \ Of(contract(s), rows) ELSE rows
        /\ sync' = [sync EXCEPT ![s].pc = IF @ = "tipRows" THEN "tipState" ELSE "purgeState",
                                ![s].alone = @ /\ done]
  BY DEF purgeRows
<1>2. PICK b \in BOOLEAN : b = (sync[s].alone /\ done)
  OBVIOUS
<1>3. sync' = [sync EXCEPT ![s] = [sync[s] EXCEPT
                 !.pc = IF sync[s].pc = "tipRows" THEN "tipState" ELSE "purgeState", !.alone = b]]
  BY <1>1, <1>2, SyncFields
<1> QED
  BY <1>1, <1>2, <1>3, AloneChanged DEF Becomes

LEMMA PurgeStateMoves ==
  ASSUME AuditTypeOK, NEW s \in Sync, purgeState(s)
  PROVE  \E alone \in BOOLEAN :
           /\ Becomes(s, At(s, IF sync[s].pc = "tipState" THEN "query" ELSE "read",
                            sync[s].from, sync[s].batch, alone))
           /\ alone => sync[s].alone /\ last' = [last EXCEPT ![contract(s)] = NoBlock]
           /\ last' \in {last, [last EXCEPT ![contract(s)] = NoBlock]}
<1>1. PICK done \in {TRUE, ~Failures} :
        /\ last' = IF done THEN [last EXCEPT ![contract(s)] = NoBlock] ELSE last
        /\ sync' = [sync EXCEPT ![s].pc = IF @ = "tipState" THEN "query" ELSE "read",
                                ![s].alone = @ /\ done]
  BY DEF purgeState
<1>2. PICK b \in BOOLEAN : b = (sync[s].alone /\ done)
  OBVIOUS
<1>3. sync' = [sync EXCEPT ![s] = [sync[s] EXCEPT
                 !.pc = IF sync[s].pc = "tipState" THEN "query" ELSE "read", !.alone = b]]
  BY <1>1, <1>2, SyncFields
<1> QED
  BY <1>1, <1>2, <1>3, AloneChanged DEF Becomes

LEMMA ReadStateMoves ==
  ASSUME AuditTypeOK, NEW s \in Sync, readState(s)
  PROVE  \E known \in {last[contract(s)], NoBlock}, from \in 0..(MaxBlock + 1) :
           LET resume == IF sync[s].fromBlock = NoBlock THEN known + 1 ELSE sync[s].fromBlock
               tip    == resume > sync[s].latest + 1 \/ LowerBound > sync[s].latest + 1
           IN /\ Becomes(s, At(s, IF tip THEN "tipRows" ELSE "query", from,
                               sync[s].batch, sync[s].alone))
              /\ tip => from = 0
              /\ ~tip => /\ from = IF resume >= LowerBound THEN resume ELSE LowerBound
                         /\ from <= sync[s].latest + 1
<1>1. PICK known \in {last[contract(s)], NoBlock} : startFrom(s, known)
  BY DEF readState
<1> DEFINE resume == IF sync[s].fromBlock = NoBlock THEN known + 1 ELSE sync[s].fromBlock
           start  == IF resume >= LowerBound THEN resume ELSE LowerBound
<1>2. /\ resume \in Int /\ LowerBound \in Nat /\ Max({resume, LowerBound}) = start
      /\ sync[s].latest \in 0..MaxBlock
  <2>1. known \in Int /\ sync[s].fromBlock \in Int /\ LowerBound \in Nat
        /\ sync[s].latest \in 0..MaxBlock
    BY <1>1, SyncFields, IndexerAssumption DEF NoBlock
  <2>2. resume \in Int
    BY <2>1
  <2> HIDE DEF resume
  <2> QED
    BY <2>1, <2>2, MaxOfTwo
<1>3. Becomes(s, IF start > sync[s].latest + 1
                 THEN At(s, "tipRows", 0, sync[s].batch, sync[s].alone)
                 ELSE At(s, "query", start, sync[s].batch, sync[s].alone))
  <2>0. PICK pc, from : IF start > sync[s].latest + 1 THEN pc = "tipRows" /\ from = 0
                                                     ELSE pc = "query" /\ from = start
    OBVIOUS
  <2>1. sync' = [sync EXCEPT ![s] = [sync[s] EXCEPT !.pc = pc, !.from = from]]
    <3>1. Max({resume, LowerBound}) = start
      BY <1>2
    <3> HIDE DEF start
    <3> QED
      BY <1>1, <2>0, <3>1, SyncFields DEF startFrom
  <2> HIDE DEF start
  <2> QED
    BY <2>0, <2>1, FromChanged DEF Becomes
<1> HIDE DEF resume
<1>4. IF start > sync[s].latest + 1
      THEN resume > sync[s].latest + 1 \/ LowerBound > sync[s].latest + 1
      ELSE /\ ~(resume > sync[s].latest + 1 \/ LowerBound > sync[s].latest + 1)
           /\ start \in 0..(MaxBlock + 1) /\ start <= sync[s].latest + 1
  BY <1>2, IndexerAssumption
<1>5. 0 \in 0..(MaxBlock + 1)
  BY IndexerAssumption
<1> HIDE DEF start
<1>6. CASE start > sync[s].latest + 1
  BY <1>3, <1>4, <1>5, <1>6 DEF resume
<1>7. CASE ~(start > sync[s].latest + 1)
  BY <1>3, <1>4, <1>7 DEF resume, start
<1> QED
  BY <1>6, <1>7

LEMMA QueryMoves ==
  ASSUME AuditTypeOK, NEW s \in Sync, query(s)
  PROVE  IF sync[s].from > sync[s].latest
         THEN Becomes(s, At(s, "record", sync[s].from, sync[s].batch, sync[s].alone))
         ELSE \E end \in sync[s].from..sync[s].latest :
                Becomes(s, At(s, "store", end + 1,
                              {e \in Of(contract(s), emitted) : e.block \in sync[s].from..end},
                              sync[s].alone))
<1>1. /\ sync[s].from \in 0..(MaxBlock + 1) /\ sync[s].latest \in 0..MaxBlock
      /\ Chunk \in Nat \ {0}
  BY SyncFields, IndexerAssumption
<1>2. CASE sync[s].from > sync[s].latest
  BY <1>2, PcChanged DEF query, goto, Becomes
<1>3. CASE ~(sync[s].from > sync[s].latest)
  <2> DEFINE end == Min({sync[s].from + Chunk - 1, sync[s].latest})
  <2>1. end \in sync[s].from..sync[s].latest
    BY <1>1, <1>3, MinOfTwo
  <2>2. Becomes(s, At(s, "store", end + 1,
                      {e \in Of(contract(s), emitted) : e.block \in sync[s].from..end},
                      sync[s].alone))
    <3> DEFINE S == {e \in Of(contract(s), emitted) : e.block \in sync[s].from..end}
    <3>0. PICK pc, from : pc = "store" /\ from = end + 1
      OBVIOUS
    <3>1. sync' = [sync EXCEPT ![s] = [sync[s] EXCEPT !.pc = pc, !.from = from, !.batch = S]]
      <4> HIDE DEF end
      <4> QED
        BY <1>3, <3>0, SyncFields DEF query, end
    <3> HIDE DEF S
    <3>2. [sync[s] EXCEPT !.pc = pc, !.from = from, !.batch = S] = At(s, pc, from, S, sync[s].alone)
      BY BatchChanged
    <3> QED
      BY <3>0, <3>1, <3>2 DEF Becomes, S
  <2> HIDE DEF end
  <2> QED
    BY <1>3, <2>1, <2>2
<1> QED
  BY <1>2, <1>3

LEMMA QueryGoes ==
  ASSUME AuditTypeOK, NEW s \in Sync, query(s)
  PROVE  \E pc, from, batch : /\ pc \in {"record", "store"}
                              /\ Becomes(s, At(s, pc, from, batch, sync[s].alone))
<1>1. CASE sync[s].from > sync[s].latest
  <2> WITNESS "record", sync[s].from, sync[s].batch
  <2> QED
    BY <1>1, QueryMoves
<1>2. CASE ~(sync[s].from > sync[s].latest)
  <2>1. PICK from, batch : Becomes(s, At(s, "store", from, batch, sync[s].alone))
    BY <1>2, QueryMoves
  <2> QED
    BY <2>1
<1> QED
  BY <1>1, <1>2

LEMMA StoreMoves ==
  ASSUME AuditTypeOK, NEW s \in Sync, store(s)
  PROVE  Becomes(s, At(s, "query", sync[s].from, {}, sync[s].alone))
<1>1. PICK pc : pc = "query"
  OBVIOUS
<1>2. PICK S : S = {}
  OBVIOUS
<1>3. sync' = [sync EXCEPT ![s] = [sync[s] EXCEPT !.pc = pc, !.batch = S]]
  BY <1>1, <1>2, SyncFields DEF store
<1> QED
  BY <1>1, <1>2, <1>3, BatchChanged DEF Becomes

(* A record that goes on to the next contract.                             *)
Onward(s) ==
  [pc |-> "check", fromBlock |-> sync[s].fromBlock, latest |-> sync[s].latest,
   i |-> sync[s].i + 1, from |-> 0, batch |-> sync[s].batch, alone |-> sync[s].alone,
   fit |-> sync[s].fit]

LEMMA RecordMoves ==
  ASSUME AuditTypeOK, NEW s \in Sync, record(s)
  PROVE  /\ Becomes(s, IF sync[s].i = Len(Contracts) THEN Idle ELSE Onward(s))
         /\ last' \in {last, [last EXCEPT ![contract(s)] = sync[s].latest]}
<1>1. [sync[s] EXCEPT !.pc = "check", !.i = sync[s].i + 1, !.from = 0] = Onward(s)
  <2>1. sync[s] \in SyncState
    BY SyncFields
  <2> DEFINE q == [sync[s] EXCEPT !.pc = "check"]
  <2>2. q = At(s, "check", sync[s].from, sync[s].batch, sync[s].alone)
    BY PcChanged
  <2>3. [sync[s] EXCEPT !.pc = "check", !.i = sync[s].i + 1, !.from = 0]
          = [[q EXCEPT !.i = sync[s].i + 1] EXCEPT !.from = 0]
    BY <2>1 DEF SyncState
  <2> HIDE DEF q
  <2> QED
    <3>1. [q EXCEPT !.i = sync[s].i + 1]
            = [pc |-> "check", fromBlock |-> sync[s].fromBlock, latest |-> sync[s].latest,
               i |-> sync[s].i + 1, from |-> sync[s].from, batch |-> sync[s].batch,
               alone |-> sync[s].alone, fit |-> sync[s].fit]
      BY <2>2 DEF At
    <3> DEFINE r == [q EXCEPT !.i = sync[s].i + 1]
    <3>2. r = [pc |-> "check", fromBlock |-> sync[s].fromBlock, latest |-> sync[s].latest,
               i |-> sync[s].i + 1, from |-> sync[s].from, batch |-> sync[s].batch,
               alone |-> sync[s].alone, fit |-> sync[s].fit]
      BY <3>1
    <3> HIDE DEF r
    <3>3. [r EXCEPT !.from = 0] = Onward(s)
      BY <3>2 DEF Onward
    <3>4. [sync[s] EXCEPT !.pc = "check", !.i = sync[s].i + 1, !.from = 0] = [r EXCEPT !.from = 0]
      BY <2>3 DEF r
    <3> QED
      BY <3>3, <3>4
<1>2. sync[s].i # Len(Contracts) => Becomes(s, Onward(s))
  BY <1>1, SyncFields DEF record, next, Becomes
<1>3. sync[s].i = Len(Contracts) => Becomes(s, Idle)
  BY DEF record, next, Becomes
<1> QED
  BY <1>2, <1>3 DEF record

LEMMA AtTyped ==
  ASSUME AuditTypeOK, NEW s \in Sync,
         NEW pc \in {"idle", "check", "purgeRows", "purgeState", "tipRows", "tipState",
                     "read", "query", "store", "record"},
         NEW from \in 0..(MaxBlock + 1), NEW batch \in SUBSET Event, NEW alone \in BOOLEAN
  PROVE  At(s, pc, from, batch, alone) \in SyncState
<1>1. sync[s] \in SyncState
  BY SyncFields
<1> QED
  BY <1>1 DEF At, SyncState

LEMMA BecomesTyped ==
  ASSUME AuditTypeOK, NEW s \in Sync, NEW q \in SyncState, Becomes(s, q)
  PROVE  sync' \in [Sync -> SyncState]
BY DEF AuditTypeOK, Becomes

LEMMA Became ==
  ASSUME AuditTypeOK, NEW s \in Sync, NEW q, Becomes(s, q)
  PROVE  sync'[s] = q /\ \A u \in Sync \ {s} : sync'[u] = sync[u]
BY DEF AuditTypeOK, Becomes

LEMMA IdleTyped == Idle \in SyncState
<1>1. 0 \in 0..MaxBlock /\ 0 \in 0..(MaxBlock + 1) /\ 1 \in 1..Len(Contracts)
  BY IndexerAssumption, ContractsListed
<1> QED
  BY <1>1 DEF Idle, SyncState

LEMMA NotAloneFields ==
  ASSUME AuditTypeOK, NEW s \in Sync
  PROVE  /\ notAlone(s) \in SyncState
         /\ notAlone(s).pc = sync[s].pc /\ notAlone(s).fromBlock = sync[s].fromBlock
         /\ notAlone(s).latest = sync[s].latest /\ notAlone(s).i = sync[s].i
         /\ notAlone(s).from = sync[s].from /\ notAlone(s).batch = sync[s].batch
         /\ notAlone(s).alone = FALSE
<1>1. sync[s] \in SyncState
  BY SyncFields
<1> QED
  BY <1>1 DEF notAlone, SyncState

(* A sync that has begun.                                                  *)
Begun(b, alone, fit) ==
  [pc |-> "check", fromBlock |-> b, latest |-> height, i |-> 1, from |-> 0, batch |-> {},
   alone |-> alone, fit |-> fit]

LEMMA BeginMoves ==
  ASSUME AuditTypeOK, NEW s \in Sync, NEW b, begin(s, b)
  PROVE  \E alone, fit \in BOOLEAN :
           /\ sync' = [t \in Sync |-> IF t = s THEN Begun(b, alone, fit) ELSE notAlone(t)]
           /\ alone => \A u \in Sync \ {s} : at(u, "idle")
           /\ fit => \A c \in Contract : Complete(c, last[c]) \/ AllDead(c)
<1>1. PICK x \in BOOLEAN : x = (\A u \in Sync \ {s} : at(u, "idle"))
  OBVIOUS
<1>2. PICK y \in BOOLEAN : y = (/\ \A u \in Sync \ {s} : at(u, "idle")
                                /\ b = NoBlock
                                /\ \A c \in Contract : Complete(c, last[c]) \/ AllDead(c))
  OBVIOUS
<1>3. sync' = [t \in Sync |->
        IF t = s
        THEN [Idle EXCEPT !.pc = "check", !.fromBlock = b, !.latest = height, !.alone = x, !.fit = y]
        ELSE notAlone(t)]
  BY <1>1, <1>2 DEF begin
<1>4. [Idle EXCEPT !.pc = "check", !.fromBlock = b, !.latest = height, !.alone = x, !.fit = y]
        = Begun(b, x, y)
  <2>0. PICK no \in BOOLEAN : no = FALSE
    OBVIOUS
  <2> DEFINE q0 == [pc |-> "idle", fromBlock |-> NoBlock, latest |-> 0, i |-> 1, from |-> 0,
                    batch |-> {}, alone |-> no, fit |-> no]
             q1 == [q0 EXCEPT !.pc = "check"]
             q2 == [q1 EXCEPT !.fromBlock = b]
             q3 == [q2 EXCEPT !.latest = height]
             q4 == [q3 EXCEPT !.alone = x]
  <2>1. Idle = q0
    BY <2>0 DEF Idle
  <2>2. [q0 EXCEPT !.pc = "check", !.fromBlock = b, !.latest = height, !.alone = x, !.fit = y]
          = [q4 EXCEPT !.fit = y]
    <3> HIDE DEF q0
    <3> QED OBVIOUS
  <2>3. q1 = [pc |-> "check", fromBlock |-> NoBlock, latest |-> 0, i |-> 1, from |-> 0,
              batch |-> {}, alone |-> no, fit |-> no]
    OBVIOUS
  <2> HIDE DEF q1
  <2>4. q2 = [pc |-> "check", fromBlock |-> b, latest |-> 0, i |-> 1, from |-> 0,
              batch |-> {}, alone |-> no, fit |-> no]
    BY <2>3
  <2> HIDE DEF q2
  <2>5. q3 = [pc |-> "check", fromBlock |-> b, latest |-> height, i |-> 1, from |-> 0,
              batch |-> {}, alone |-> no, fit |-> no]
    BY <2>4
  <2> HIDE DEF q3
  <2>6. q4 = [pc |-> "check", fromBlock |-> b, latest |-> height, i |-> 1, from |-> 0,
              batch |-> {}, alone |-> x, fit |-> no]
    BY <2>5
  <2> HIDE DEF q4
  <2>7. [q4 EXCEPT !.fit = y] = Begun(b, x, y)
    BY <2>6 DEF Begun
  <2> HIDE DEF q0
  <2> QED
    BY <2>1, <2>2, <2>7
<1> QED
  BY <1>1, <1>2, <1>3, <1>4

LEMMA BeginStarts ==
  ASSUME AuditTypeOK, NEW s \in Sync, NEW b, begin(s, b)
  PROVE  \E x, y \in BOOLEAN :
           sync' = [t \in Sync |-> IF t = s THEN Begun(b, x, y) ELSE notAlone(t)]
BY BeginMoves, ZenonT(60)

-----------------------------------------------------------------------------
LEMMA AuditTypeStep == AuditTypeOK /\ [AuditNext]_vars => AuditTypeOK'
<1> SUFFICES ASSUME AuditTypeOK, [AuditNext]_vars PROVE AuditTypeOK'
  OBVIOUS
<1>0. /\ MaxBlock \in Nat /\ FromArgs \subseteq Nat /\ PerBlock \subseteq 0..2
      /\ emitted \subseteq Event /\ rows \subseteq Event /\ height \in 0..MaxBlock
      /\ chain \in 0..MaxRestarts /\ last \in [Contract -> NoBlock..MaxBlock]
      /\ MaxRestarts \in Nat
  BY IndexerAssumption DEF AuditTypeOK
<1>1. ASSUME NEW c \in Contract, NEW n \in PerBlock, mine(c, n) PROVE AuditTypeOK'
  <2>1. {[chain |-> chain, contract |-> c, block |-> height + 1, log |-> l] : l \in 0..(n - 1)}
          \subseteq Event
    BY <1>0, <1>1 DEF mine, Event
  <2> QED
    BY <1>0, <1>1, <2>1 DEF mine, AuditTypeOK
<1>2. CASE restart
  <2>1. \A s \in Sync : notAlone(s) \in SyncState
    BY NotAloneFields
  <2>2. chain' \in 0..MaxRestarts /\ height' \in 0..MaxBlock
    BY <1>0, <1>2 DEF restart
  <2> QED
    BY <1>0, <1>2, <2>1, <2>2 DEF restart, AuditTypeOK
<1>3. ASSUME NEW s \in Sync, NEW b \in FromArgs \cup {NoBlock}, begin(s, b) PROVE AuditTypeOK'
  <2>1. PICK x \in BOOLEAN, y \in BOOLEAN :
          sync' = [t \in Sync |-> IF t = s THEN Begun(b, x, y) ELSE notAlone(t)]
    BY <1>3, BeginStarts
  <2>2. Begun(b, x, y) \in SyncState
    <3>1. 0 \in 0..(MaxBlock + 1) /\ 1 \in 1..Len(Contracts)
      BY <1>0, ContractsListed
    <3> QED
      BY <1>0, <3>1 DEF Begun, SyncState
  <2>3. sync' \in [Sync -> SyncState]
    BY <2>1, <2>2, NotAloneFields
  <2> QED
    BY <1>3, <2>3 DEF begin, AuditTypeOK, chainVars, dbVars
<1>4. ASSUME NEW s \in Sync, SyncStep(s) PROVE AuditTypeOK'
  <2>0. /\ sync[s].from \in 0..(MaxBlock + 1) /\ sync[s].batch \in SUBSET Event
        /\ sync[s].alone \in BOOLEAN /\ sync[s].latest \in 0..MaxBlock
        /\ contract(s) \in Contract
    BY SyncFields
  <2>1. CASE check(s)
    <3>1. sync' \in [Sync -> SyncState]
      BY <2>0, <2>1, CheckMoves, AtTyped, BecomesTyped
    <3> QED
      BY <2>1, <3>1 DEF check, AuditTypeOK, chainVars, dbVars
  <2>2. CASE purgeRows(s)
    <3>1. sync' \in [Sync -> SyncState]
      BY <2>0, <2>2, PurgeRowsMoves, AtTyped, BecomesTyped
    <3>2. rows' \subseteq Event
      BY <1>0, <2>2, PurgeRowsMoves
    <3> QED
      BY <2>2, <3>1, <3>2 DEF purgeRows, AuditTypeOK, chainVars
  <2>3. CASE purgeState(s)
    <3>1. sync' \in [Sync -> SyncState]
      BY <2>0, <2>3, PurgeStateMoves, AtTyped, BecomesTyped
    <3>2. last' \in [Contract -> NoBlock..MaxBlock]
      <4>1. NoBlock \in NoBlock..MaxBlock
        BY <1>0 DEF NoBlock
      <4> QED
        BY <1>0, <2>3, <4>1, PurgeStateMoves
    <3> QED
      BY <2>3, <3>1, <3>2 DEF purgeState, AuditTypeOK, chainVars
  <2>4. CASE readState(s)
    <3>1. sync' \in [Sync -> SyncState]
      BY <2>0, <2>4, ReadStateMoves, AtTyped, BecomesTyped
    <3> QED
      BY <2>4, <3>1 DEF readState, startFrom, AuditTypeOK, chainVars, dbVars
  <2>5. CASE query(s)
    <3>1. sync' \in [Sync -> SyncState]
      <4>1. CASE sync[s].from > sync[s].latest
        BY <2>0, <2>5, <4>1, QueryMoves, AtTyped, BecomesTyped
      <4>2. CASE ~(sync[s].from > sync[s].latest)
        <5>1. PICK end \in sync[s].from..sync[s].latest :
                Becomes(s, At(s, "store", end + 1,
                              {e \in Of(contract(s), emitted) : e.block \in sync[s].from..end},
                              sync[s].alone))
          BY <2>5, <4>2, QueryMoves
        <5>2. /\ end + 1 \in 0..(MaxBlock + 1)
              /\ {e \in Of(contract(s), emitted) : e.block \in sync[s].from..end} \in SUBSET Event
          BY <1>0, <2>0 DEF Of
        <5> QED
          BY <2>0, <5>1, <5>2, AtTyped, BecomesTyped
      <4> QED
        BY <4>1, <4>2
    <3> QED
      BY <2>5, <3>1 DEF query, AuditTypeOK, chainVars, dbVars
  <2>6. CASE store(s)
    <3>1. sync' \in [Sync -> SyncState]
      BY <2>0, <2>6, StoreMoves, AtTyped, BecomesTyped
    <3>2. rows' \subseteq Event
      BY <1>0, <2>0, <2>6 DEF store
    <3> QED
      BY <2>6, <3>1, <3>2 DEF store, AuditTypeOK, chainVars
  <2>7. CASE record(s)
    <3>1. sync' \in [Sync -> SyncState]
      <4>1. sync[s].i # Len(Contracts) => Onward(s) \in SyncState
        <5>1. sync[s] \in SyncState
          BY SyncFields
        <5>2. sync[s].i # Len(Contracts) => sync[s].i + 1 \in 1..Len(Contracts)
          BY SyncFields, ContractsListed
        <5>3. 0 \in 0..(MaxBlock + 1)
          BY <1>0
        <5> QED
          BY <5>1, <5>2, <5>3 DEF Onward, SyncState
      <4> QED
        BY <2>7, <4>1, RecordMoves, IdleTyped, BecomesTyped
    <3>2. last' \in [Contract -> NoBlock..MaxBlock]
      <4>1. sync[s].latest \in NoBlock..MaxBlock
        BY <1>0, <2>0 DEF NoBlock
      <4> QED
        BY <1>0, <2>7, <4>1, RecordMoves
    <3> QED
      BY <2>7, <3>1, <3>2 DEF record, AuditTypeOK, chainVars
  <2> QED
    BY <1>4, <2>1, <2>2, <2>3, <2>4, <2>5, <2>6, <2>7 DEF SyncStep
<1>5. ASSUME NEW s \in Sync, fail(s) PROVE AuditTypeOK'
  BY <1>5, IdleTyped DEF fail, AuditTypeOK, chainVars, dbVars
<1>6. CASE UNCHANGED vars
  BY <1>6 DEF vars, AuditTypeOK
<1> QED
  BY <1>1, <1>2, <1>3, <1>4, <1>5, <1>6 DEF AuditNext

-----------------------------------------------------------------------------
(* A nonempty set of cached rows has a newest one.                         *)
LEMMA NewestExists ==
  ASSUME NEW c, rows \subseteq Event, Of(c, rows) # {}
  PROVE  newest(c) # {}
<1> DEFINE Ages == {MaxBlock - e.block : e \in Of(c, rows)}
<1>1. \A e \in Of(c, rows) : e.block \in 1..MaxBlock /\ MaxBlock \in Nat
  BY IndexerAssumption DEF Of, Event
<1>2. Ages \subseteq Nat /\ Ages # {}
  BY <1>1
<1>3. PICK n \in Ages : \A m \in Ages : n <= m
  <2> HIDE DEF Ages
  <2> QED BY <1>2, LeastNatural
<1>4. PICK e \in Of(c, rows) : n = MaxBlock - e.block
  BY <1>3
<1>5. \A f \in Of(c, rows) : MaxBlock - e.block <= MaxBlock - f.block
  BY <1>3, <1>4
<1>6. \A f \in Of(c, rows) : f.block <= e.block
  BY <1>1, <1>4, <1>5
<1> QED
  BY <1>4, <1>6 DEF newest

(* What is known of a contract whose rows a step leaves alone.             *)
LEMMA ElsewhereKept ==
  ASSUME NEW d, emitted' = emitted, Of(d, rows)' = Of(d, rows)
  PROVE  /\ \A h : Complete(d, h)' <=> Complete(d, h)
         /\ AllDead(d)' <=> AllDead(d)
         /\ last'[d] = last[d] => \A h : Resumable(d, h)' <=> Resumable(d, h)
         /\ \A b : CachedBelow(d, b, {})' <=> CachedBelow(d, b, {})
<1>1. \A e \in Of(d, emitted) : e \in rows' <=> e \in rows
  BY DEF Of
<1>2. Of(d, emitted)' = Of(d, emitted)
  BY DEF Of
<1> QED
  BY <1>1, <1>2 DEF Complete, AllDead, Resumable, CachedBelow

(* What mine adds to the chain.                                            *)
Fresh(S) == \A e \in S : e.block = height + 1 /\ e.chain = chain /\ e.block >= LowerBound

LEMMA MineAdds ==
  ASSUME AuditTypeOK, NEW c \in Contract, NEW n \in PerBlock, mine(c, n)
  PROVE  \E S \in SUBSET Event : Fresh(S) /\ emitted' = emitted \cup S
<1> DEFINE S == {[chain |-> chain, contract |-> c, block |-> height + 1, log |-> l] : l \in 0..(n - 1)}
<1>0. /\ MaxBlock \in Nat /\ PerBlock \subseteq 0..2 /\ height \in 0..MaxBlock
      /\ chain \in 0..MaxRestarts
  BY IndexerAssumption DEF AuditTypeOK
<1>1. S \in SUBSET Event
  BY <1>0 DEF mine, Event
<1>2. Fresh(S)
  BY <1>0 DEF mine, Fresh
<1>3. emitted' = emitted \cup S
  BY DEF mine
<1> QED
  BY <1>1, <1>2, <1>3

(* Nothing that is known up to a height the chain has reached is lost when *)
(* it grows.                                                               *)
LEMMA MineKeeps ==
  ASSUME AuditTypeOK, ChainFacts, NEW c \in Contract, NEW n \in PerBlock, mine(c, n),
         NEW d \in Contract, NEW h \in Int, h <= height
  PROVE  /\ Complete(d, h) => Complete(d, h)'
         /\ AllDead(d) => AllDead(d)'
         /\ Resumable(d, h) => Resumable(d, h)'
         /\ \A b, T : b \in Int /\ b <= h + 1 /\ CachedBelow(d, b, T) => CachedBelow(d, b, T)'
<1>1. PICK S \in SUBSET Event : Fresh(S) /\ emitted' = emitted \cup S
  BY MineAdds
<1>2. rows' = rows /\ last' = last /\ height \in Int
  BY DEF mine, AuditTypeOK
<1>3. \A e \in S : e \notin rows \/ e \in emitted
  BY <1>1 DEF Fresh, ChainFacts
<1>4. \A e \in S : e \notin emitted
  BY <1>1, <1>2 DEF Fresh, ChainFacts
<1>5. \A e \in S : ~(e.block <= h) /\ \A b : b \in Int /\ b <= h + 1 => ~(e.block < b)
  BY <1>1, <1>2 DEF Fresh
<1>6. /\ Of(d, rows)' = Of(d, rows)
      /\ \A e \in Of(d, emitted)' : e \in Of(d, emitted) \/ e \in S
      /\ Of(d, rows) \cap emitted' = Of(d, rows) \cap emitted
  BY <1>1, <1>2, <1>3, <1>4 DEF Of
<1>7. Complete(d, h) => Complete(d, h)'
  BY <1>1, <1>2, <1>5, <1>6 DEF Complete
<1>8. AllDead(d) => AllDead(d)'
  BY <1>6 DEF AllDead
<1>9. Resumable(d, h) => Resumable(d, h)'
  BY <1>1, <1>2, <1>5, <1>6 DEF Resumable
<1>10. ASSUME NEW b, NEW T, b \in Int, b <= h + 1, CachedBelow(d, b, T) PROVE CachedBelow(d, b, T)'
  BY <1>1, <1>2, <1>5, <1>6, <1>10 DEF CachedBelow
<1> QED
  BY <1>7, <1>8, <1>9, <1>10

-----------------------------------------------------------------------------
(* Where events come from.                                                 *)

Known(e) == e \in emitted \/ e \in rows \/ \E s \in Sync : e \in sync[s].batch

(* Statements only move events between the node, the syncs and the rows.   *)
LEMMA EventsMove ==
  ASSUME AuditTypeOK, [AuditNext]_vars
  PROVE  (\A e \in rows' : Known(e)) /\ (\A s \in Sync : \A e \in sync'[s].batch : Known(e))
<1> DEFINE Moved == /\ \A e \in rows' : Known(e)
                    /\ \A s \in Sync : \A e \in sync'[s].batch : Known(e)
<1>0. /\ \A e \in emitted : Known(e)
      /\ \A e \in rows : Known(e)
      /\ \A s \in Sync : \A e \in sync[s].batch : Known(e)
  BY DEF Known
<1>1. ASSUME rows' = rows, \A s \in Sync : sync'[s].batch \in {{}, sync[s].batch} PROVE Moved
  BY <1>0, <1>1
<1>2. ASSUME NEW s \in Sync, NEW q, Becomes(s, q),
             \A e \in rows' : Known(e), \A e \in q.batch : Known(e)
      PROVE  Moved
  BY <1>0, <1>2, Became
<1>3. ASSUME NEW s \in Sync, NEW b, begin(s, b) PROVE Moved
  <2>1. \A u \in Sync : sync'[u].batch = {} \/ sync'[u].batch = sync[u].batch
    <3>1. PICK x, y \in BOOLEAN :
            sync' = [t \in Sync |-> IF t = s THEN Begun(b, x, y) ELSE notAlone(t)]
      BY <1>3, BeginStarts
    <3> QED
      BY <3>1, NotAloneFields DEF Begun
  <2> QED
    BY <1>1, <1>3, <2>1 DEF begin, dbVars
<1>4. ASSUME NEW s \in Sync, SyncStep(s) PROVE Moved
  <2>1. ASSUME NEW pc, NEW from, NEW batch, NEW alone PROVE At(s, pc, from, batch, alone).batch = batch
    BY DEF At
  <2>2. CASE check(s)
    <3>1. rows' = rows
      BY <2>2 DEF check, dbVars
    <3>2. PICK pc, alone : Becomes(s, At(s, pc, sync[s].from, sync[s].batch, alone))
      BY <2>2, CheckMoves
    <3> QED
      BY <1>0, <1>2, <2>1, <3>1, <3>2
  <2>3. CASE purgeRows(s)
    <3>1. \A e \in rows' : e \in rows
      BY <2>3, PurgeRowsMoves
    <3>2. PICK pc, alone : Becomes(s, At(s, pc, sync[s].from, sync[s].batch, alone))
      BY <2>3, PurgeRowsMoves
    <3> QED
      BY <1>0, <1>2, <2>1, <3>1, <3>2
  <2>4. CASE purgeState(s)
    <3>1. rows' = rows
      BY <2>4 DEF purgeState
    <3>2. PICK pc, alone : Becomes(s, At(s, pc, sync[s].from, sync[s].batch, alone))
      BY <2>4, PurgeStateMoves
    <3> QED
      BY <1>0, <1>2, <2>1, <3>1, <3>2
  <2>5. CASE readState(s)
    <3>1. rows' = rows
      BY <2>5 DEF readState, startFrom, dbVars
    <3>2. PICK pc, from : Becomes(s, At(s, pc, from, sync[s].batch, sync[s].alone))
      BY <2>5, ReadStateMoves
    <3> QED
      BY <1>0, <1>2, <2>1, <3>1, <3>2
  <2>6. CASE query(s)
    <3>1. rows' = rows
      BY <2>6 DEF query, dbVars
    <3>2. PICK pc, from, batch : /\ Becomes(s, At(s, pc, from, batch, sync[s].alone))
                                 /\ batch = sync[s].batch \/ batch \subseteq emitted
      <4>1. ASSUME NEW end
            PROVE  {e \in Of(contract(s), emitted) : e.block \in sync[s].from..end} \subseteq emitted
        BY DEF Of
      <4> QED
        BY <2>6, <4>1, QueryMoves
    <3> QED
      BY <1>0, <1>2, <2>1, <3>1, <3>2
  <2>7. CASE store(s)
    <3>1. rows' = rows \cup sync[s].batch
      BY <2>7 DEF store
    <3>2. Becomes(s, At(s, "query", sync[s].from, {}, sync[s].alone))
      BY <2>7, StoreMoves
    <3> QED
      BY <1>0, <1>2, <2>1, <3>1, <3>2
  <2>8. CASE record(s)
    <3>1. rows' = rows
      BY <2>8 DEF record
    <3>2. PICK q : Becomes(s, q) /\ (q.batch = {} \/ q.batch = sync[s].batch)
      <4>1. Idle.batch = {} /\ Onward(s).batch = sync[s].batch
        BY DEF Idle, Onward
      <4> QED
        BY <2>8, <4>1, RecordMoves
    <3> QED
      BY <1>0, <1>2, <3>1, <3>2
  <2> QED
    BY <1>4, <2>2, <2>3, <2>4, <2>5, <2>6, <2>7, <2>8 DEF SyncStep
<1>5. ASSUME NEW s \in Sync, fail(s) PROVE Moved
  <2>1. Becomes(s, Idle) /\ Idle.batch = {} /\ rows' = rows
    BY <1>5 DEF fail, Becomes, Idle, dbVars
  <2> QED
    BY <1>0, <1>2, <2>1
<1>6. CASE restart
  BY <1>1, <1>6, NotAloneFields DEF restart
<1>7. ASSUME NEW c \in Contract, NEW n \in PerBlock, mine(c, n) PROVE Moved
  BY <1>1, <1>7 DEF mine
<1>8. CASE UNCHANGED vars
  BY <1>1, <1>8 DEF vars
<1> QED
  BY <1>3, <1>4, <1>5, <1>6, <1>7, <1>8 DEF AuditNext

LEMMA ChainMoves ==
  ASSUME [AuditNext]_vars
  PROVE  \/ \E c \in Contract, n \in PerBlock : mine(c, n)
         \/ restart
         \/ UNCHANGED chainVars
<1>1. ASSUME NEW s \in Sync, SyncStep(s) PROVE UNCHANGED chainVars
  <2>1. ASSUME check(s) \/ purgeRows(s) \/ purgeState(s) PROVE UNCHANGED chainVars
    BY <2>1 DEF check, purgeRows, purgeState
  <2>2. ASSUME readState(s) \/ query(s) PROVE UNCHANGED chainVars
    BY <2>2 DEF readState, startFrom, query
  <2>3. ASSUME store(s) \/ record(s) PROVE UNCHANGED chainVars
    BY <2>3 DEF store, record
  <2> QED
    BY <1>1, <2>1, <2>2, <2>3 DEF SyncStep
<1>2. ASSUME NEW s \in Sync, NEW b, fail(s) \/ begin(s, b) PROVE UNCHANGED chainVars
  BY <1>2 DEF fail, begin
<1>3. UNCHANGED vars => UNCHANGED chainVars
  BY DEF vars, chainVars
<1> QED
  BY <1>1, <1>2, <1>3 DEF AuditNext

LEMMA ChainFactsStep ==
  ASSUME AuditTypeOK, ChainFacts, [AuditNext]_vars
  PROVE  ChainFacts'
<1> DEFINE Sound(e) == e.chain <= chain /\ (e.chain = chain => e \in emitted)
<1>0. /\ \A e \in emitted : e.chain = chain /\ e.block <= height /\ e.block >= LowerBound
      /\ height \in Nat /\ chain \in Nat
      /\ emitted \subseteq Event /\ \A e \in Event : e.chain \in Int /\ e.block \in Int
  BY IndexerAssumption DEF ChainFacts, AuditTypeOK, Event
<1>1. \A e : Known(e) => e \in Event /\ Sound(e)
  <2>1. emitted \subseteq Event /\ rows \subseteq Event /\ \A s \in Sync : sync[s].batch \subseteq Event
    BY SyncFields DEF AuditTypeOK
  <2>2. \A e \in emitted : Sound(e)
    BY <1>0, <2>1
  <2>3. (\A e \in rows : Sound(e)) /\ \A s \in Sync : \A e \in sync[s].batch : Sound(e)
    BY DEF ChainFacts
  <2> HIDE DEF Sound
  <2> QED
    BY <2>1, <2>2, <2>3 DEF Known
<1>2. /\ \A e \in rows' : e \in Event /\ Sound(e)
      /\ \A s \in Sync : \A e \in sync'[s].batch : e \in Event /\ Sound(e)
  BY <1>1, EventsMove
<1>3. ASSUME NEW c \in Contract, NEW n \in PerBlock, mine(c, n) PROVE ChainFacts'
  <2>1. PICK S \in SUBSET Event : Fresh(S) /\ emitted' = emitted \cup S
    BY <1>3, MineAdds
  <2>2. height' = height + 1 /\ chain' = chain
    BY <1>3 DEF mine
  <2> QED
    <3>1. \A e \in emitted' : e.chain = chain' /\ e.block <= height' /\ e.block >= LowerBound
      BY <1>0, <2>1, <2>2 DEF Fresh
    <3>2. \A e \in emitted : e \in emitted'
      BY <2>1
    <3> QED
      BY <1>2, <2>2, <3>1, <3>2 DEF ChainFacts
<1>4. CASE restart
  <2>1. chain' = chain + 1 /\ emitted' = {}
    BY <1>4 DEF restart
  <2> QED
    BY <1>0, <1>2, <2>1 DEF ChainFacts
<1>5. CASE UNCHANGED chainVars
  BY <1>0, <1>2, <1>5 DEF ChainFacts, chainVars
<1> QED
  BY <1>3, <1>4, <1>5, ChainMoves

(* A block has one transaction, so it tells the contract of its events.    *)
OneContract ==
  \A e, f \in Event :
    Known(e) /\ Known(f) /\ e.chain = f.chain /\ e.block = f.block => e.contract = f.contract

-----------------------------------------------------------------------------
(* Progress, statement by statement.                                       *)
LEMMA AtFields ==
  ASSUME NEW s, NEW pc, NEW from, NEW batch, NEW alone
  PROVE  LET q == At(s, pc, from, batch, alone) IN
         /\ q.pc = pc /\ q.from = from /\ q.batch = batch /\ q.alone = alone
         /\ q.fromBlock = sync[s].fromBlock /\ q.latest = sync[s].latest
         /\ q.i = sync[s].i /\ q.fit = sync[s].fit
BY DEF At

LEMMA ReadProgress ==
  ASSUME AuditTypeOK, ChainFacts, NEW s \in Sync, readState(s),
         sync[s].fromBlock = NoBlock \/ sync[s].fromBlock \in 0..LowerBound,
         Resumable(contract(s), sync[s].latest)
  PROVE  Progress(s)'
<1>1. UNCHANGED <<rows, emitted>>
  BY DEF readState, startFrom, chainVars, dbVars
<1>2. PICK known \in {last[contract(s)], NoBlock}, from \in 0..(MaxBlock + 1) :
        LET resume == IF sync[s].fromBlock = NoBlock THEN known + 1 ELSE sync[s].fromBlock
            tip    == resume > sync[s].latest + 1 \/ LowerBound > sync[s].latest + 1
        IN /\ Becomes(s, At(s, IF tip THEN "tipRows" ELSE "query", from, sync[s].batch, sync[s].alone))
           /\ ~tip => /\ from = IF resume >= LowerBound THEN resume ELSE LowerBound
                      /\ from <= sync[s].latest + 1
  BY ReadStateMoves
<1> DEFINE resume == IF sync[s].fromBlock = NoBlock THEN known + 1 ELSE sync[s].fromBlock
           tip    == resume > sync[s].latest + 1 \/ LowerBound > sync[s].latest + 1
<1>3. sync'[s] = At(s, IF tip THEN "tipRows" ELSE "query", from, sync[s].batch, sync[s].alone)
  <2> HIDE DEF tip
  <2> QED BY <1>2, Became DEF tip
<1>4. CASE tip
  BY <1>3, <1>4, AtFields DEF Progress
<1>5. CASE ~tip
  <2>1. /\ from = IF resume >= LowerBound THEN resume ELSE LowerBound
        /\ from <= sync[s].latest + 1
    BY <1>2, <1>5
  <2>2. /\ sync'[s].pc = "query" /\ sync'[s].from = from
        /\ sync'[s].latest = sync[s].latest /\ sync'[s].i = sync[s].i
    <3> HIDE DEF tip
    <3> QED BY <1>3, <1>5, AtFields
  <2>3. ASSUME NEW e \in Of(contract(s), emitted), e.block < from PROVE e \in rows
    <3>1. /\ e.block \in Int /\ e.block >= 1 /\ e.block >= LowerBound
          /\ LowerBound \in Nat /\ sync[s].latest \in Int /\ sync[s].fromBlock \in Int
          /\ known \in Int /\ from \in Int
      BY SyncFields, IndexerAssumption DEF ChainFacts, AuditTypeOK, Event, Of, NoBlock
    <3>2. from = resume /\ sync[s].fromBlock = NoBlock
      BY <2>1, <2>3, <3>1
    <3>3. e.block <= known /\ e.block <= sync[s].latest
      BY <2>1, <2>3, <3>1, <3>2
    <3>4. known = last[contract(s)]
      BY <3>1, <3>3 DEF NoBlock
    <3> QED
      BY <3>3, <3>4 DEF Resumable
  <2>4. CachedBelow(contract(s), from, {})
    BY <2>3 DEF CachedBelow, Resumable
  <2>5. contract(s)' = contract(s)
    BY <2>2 DEF contract
  <2>6. CachedBelow(contract(s), from, {})'
    BY <1>1, <2>4, <2>5 DEF CachedBelow, Of
  <2> HIDE DEF tip, resume
  <2> QED
    BY <2>1, <2>2, <2>6 DEF Progress
<1> QED
  BY <1>4, <1>5

LEMMA QueryProgress ==
  ASSUME AuditTypeOK, NEW s \in Sync, query(s), Progress(s)
  PROVE  Progress(s)'
<1>1. /\ UNCHANGED <<rows, emitted>> /\ sync[s].pc = "query"
      /\ sync[s].from \in Int /\ sync[s].latest \in Int
  BY SyncFields DEF query, chainVars, dbVars, at
<1>2. sync[s].from <= sync[s].latest + 1 /\ CachedBelow(contract(s), sync[s].from, {})
  BY <1>1 DEF Progress
<1>a. \A e \in emitted : e.block \in Int
  BY DEF AuditTypeOK, Event
<1>3. CASE sync[s].from > sync[s].latest
  <2>1. sync'[s] = At(s, "record", sync[s].from, sync[s].batch, sync[s].alone)
    BY <1>3, QueryMoves, Became
  <2>2. sync'[s].pc = "record" /\ sync'[s].latest = sync[s].latest /\ contract(s)' = contract(s)
    BY <2>1, AtFields DEF contract
  <2>3. CachedBelow(contract(s), sync[s].latest + 1, {})
    BY <1>1, <1>2, <1>3
  <2>4. CachedBelow(contract(s), sync[s].latest + 1, {})'
    BY <1>1, <2>2, <2>3 DEF CachedBelow, Of
  <2> QED
    BY <2>2, <2>4 DEF Progress
<1>4. CASE ~(sync[s].from > sync[s].latest)
  <2>1. PICK end \in sync[s].from..sync[s].latest :
          Becomes(s, At(s, "store", end + 1,
                        {e \in Of(contract(s), emitted) : e.block \in sync[s].from..end},
                        sync[s].alone))
    BY <1>4, QueryMoves
  <2>a. PICK S : S = {e \in Of(contract(s), emitted) : e.block \in sync[s].from..end}
    OBVIOUS
  <2>2. sync'[s] = At(s, "store", end + 1, S, sync[s].alone)
    BY <2>1, <2>a, Became
  <2>3. S \subseteq Of(contract(s), emitted)
    BY <2>a
  <2>4. ASSUME NEW e \in Of(contract(s), emitted), e.block < end + 1 PROVE e \in rows \cup S
    <3>1. e.block \in Int /\ (e.block < sync[s].from => e \in rows)
      BY <1>2, <1>a DEF CachedBelow, Of
    <3> QED
      BY <1>1, <2>4, <2>a, <3>1
  <2>5. CachedBelow(contract(s), end + 1, S)
    BY <1>2, <2>4 DEF CachedBelow
  <2>6. /\ sync'[s].pc = "store" /\ sync'[s].latest = sync[s].latest /\ contract(s)' = contract(s)
        /\ sync'[s].batch = S /\ sync'[s].from = end + 1
    BY <2>2, AtFields DEF contract
  <2>7. CachedBelow(contract(s), end + 1, S)' /\ Of(contract(s), emitted)' = Of(contract(s), emitted)
    <3>1. Of(contract(s), emitted)' = Of(contract(s), emitted)
          /\ Of(contract(s), rows)' = Of(contract(s), rows)
      BY <1>1, <2>6 DEF Of
    <3> QED
      BY <1>1, <2>5, <2>6, <3>1 DEF CachedBelow
  <2>8. sync'[s].from <= sync'[s].latest + 1 /\ S \subseteq Of(contract(s), emitted)'
    BY <1>1, <2>1, <2>3, <2>6, <2>7
  <2> QED
    BY <2>6, <2>7, <2>8 DEF Progress
<1> QED
  BY <1>3, <1>4

LEMMA StoreProgress ==
  ASSUME AuditTypeOK, NEW s \in Sync, store(s), Progress(s)
  PROVE  Progress(s)'
<1>1. /\ emitted' = emitted /\ rows' = rows \cup sync[s].batch /\ sync[s].pc = "store"
  BY DEF store, chainVars, at
<1>2. /\ sync[s].from <= sync[s].latest + 1
      /\ sync[s].batch \subseteq Of(contract(s), emitted)
      /\ CachedBelow(contract(s), sync[s].from, sync[s].batch)
  BY <1>1 DEF Progress
<1>3. sync'[s] = At(s, "query", sync[s].from, {}, sync[s].alone)
  BY StoreMoves, Became
<1>4. /\ sync'[s].pc = "query" /\ sync'[s].latest = sync[s].latest
      /\ contract(s)' = contract(s) /\ sync'[s].from = sync[s].from
  BY <1>3, AtFields DEF contract
<1>5. CachedBelow(contract(s), sync[s].from, {})'
  BY <1>1, <1>2, <1>4 DEF CachedBelow, Of
<1> QED
  BY <1>2, <1>4, <1>5 DEF Progress

LEMMA MineProgress ==
  ASSUME AuditTypeOK, ChainFacts, NEW c \in Contract, NEW n \in PerBlock, mine(c, n),
         NEW s \in Sync, sync[s].latest <= height, Progress(s)
  PROVE  Progress(s)'
<1>1. /\ sync' = sync /\ contract(s)' = contract(s) /\ contract(s) \in Contract
      /\ sync[s].latest \in Int /\ sync[s].from \in Int /\ emitted \subseteq emitted'
  BY SyncFields DEF mine, contract
<1>2. \A b, T : b \in Int /\ b <= sync[s].latest + 1 /\ CachedBelow(contract(s), b, T)
        => CachedBelow(contract(s), b, T)'
  BY <1>1, MineKeeps
<1>3. Of(contract(s), emitted) \subseteq Of(contract(s), emitted)'
  BY <1>1 DEF Of
<1>4. sync[s].pc = "query" =>
        sync[s].from <= sync[s].latest + 1 /\ CachedBelow(contract(s), sync[s].from, {})'
  BY <1>1, <1>2 DEF Progress
<1>5. sync[s].pc = "store" => /\ sync[s].from <= sync[s].latest + 1
                              /\ sync[s].batch \subseteq Of(contract(s), emitted)'
                              /\ CachedBelow(contract(s), sync[s].from, sync[s].batch)'
  BY <1>1, <1>2, <1>3 DEF Progress
<1>6. sync[s].pc = "record" => CachedBelow(contract(s), sync[s].latest + 1, {})'
  BY <1>1, <1>2 DEF Progress
<1> QED
  BY <1>1, <1>4, <1>5, <1>6 DEF Progress

-----------------------------------------------------------------------------
(* While nothing is purged.                                                *)
LEMMA QuietKept ==
  ASSUME NEW u \in Sync, Quiet(u), emitted' = emitted, height' = height,
         rows \subseteq rows', rows' \subseteq emitted, sync'[u] = sync[u]
  PROVE  Quiet(u)'
<1>1. contract(u)' = contract(u)
  BY DEF contract
<1>2. \A b, T : CachedBelow(contract(u), b, T) => CachedBelow(contract(u), b, T)'
  BY <1>1 DEF CachedBelow, Of
<1>3. Of(contract(u), emitted)' = Of(contract(u), emitted)
  BY <1>1 DEF Of
<1>4. Progress(u) => Progress(u)'
  BY <1>2, <1>3 DEF Progress
<1> QED
  BY <1>4 DEF Quiet, at

LEMMA OverlapStep ==
  ASSUME AuditTypeOK, ChainFacts, OverlapInv, [AuditNext]_vars
  PROVE  OverlapInv'
<1> DEFINE Agrees == rows \subseteq emitted
           Heights == \A c \in Contract : last[c] <= height /\ Complete(c, last[c])
           Quiets == \A s \in Sync : Quiet(s)
<1>0. /\ \A s \in Sync : sync[s].latest \in Int
      /\ height \in Int /\ \A c \in Contract : last[c] \in Int
  BY SyncFields DEF AuditTypeOK, NoBlock
<1>1. ASSUME NEW c \in Contract, NEW n \in PerBlock, mine(c, n) PROVE OverlapInv'
  <2> SUFFICES ASSUME ~disturbed PROVE (Agrees /\ Heights /\ Quiets)'
    BY <1>1 DEF mine, OverlapInv
  <2>1. /\ sync' = sync /\ rows' = rows /\ last' = last /\ height' = height + 1
        /\ emitted \subseteq emitted'
    BY <1>1 DEF mine
  <2>2. Agrees /\ Heights /\ Quiets
    BY DEF OverlapInv
  <2>3. Heights'
    BY <1>0, <1>1, <2>1, <2>2, MineKeeps
  <2>4. ASSUME NEW s \in Sync PROVE Quiet(s)'
    <3>1. ~at(s, "idle") => Progress(s)'
      BY <1>1, <2>2, MineProgress DEF Quiet
    <3> QED
      BY <1>0, <2>1, <2>2, <3>1 DEF Quiet, at
  <2> QED
    BY <2>1, <2>2, <2>3, <2>4
<1>2. CASE restart
  BY <1>2 DEF restart, OverlapInv
<1>3. ASSUME NEW s \in Sync, NEW b, begin(s, b) PROVE OverlapInv'
  <2> SUFFICES ASSUME ~disturbed, b = NoBlock PROVE (Agrees /\ Heights /\ Quiets)'
    BY <1>3 DEF begin, OverlapInv
  <2>1. Agrees /\ Heights /\ Quiets /\ UNCHANGED <<emitted, height, chain, rows, last>>
    BY <1>3 DEF OverlapInv, begin, chainVars, dbVars
  <2>2. PICK x, y \in BOOLEAN :
          sync' = [t \in Sync |-> IF t = s THEN Begun(b, x, y) ELSE notAlone(t)]
    BY <1>3, BeginStarts
  <2>3. Heights'
    BY <2>1 DEF Complete, Of
  <2>4. Quiet(s)'
    <3>1. sync'[s] = Begun(NoBlock, x, y)
      BY <2>2
    <3>2. /\ sync'[s].pc = "check" /\ sync'[s].fromBlock = NoBlock /\ sync'[s].latest = height
      BY <3>1 DEF Begun
    <3> QED
      BY <1>0, <2>1, <3>2 DEF Quiet, Progress
  <2>5. ASSUME NEW u \in Sync, u # s PROVE Quiet(u)'
    <3>1. sync'[u] = notAlone(u)
      BY <2>2, <2>5
    <3>2. /\ sync'[u].pc = sync[u].pc /\ sync'[u].fromBlock = sync[u].fromBlock
          /\ sync'[u].latest = sync[u].latest /\ contract(u)' = contract(u)
          /\ sync'[u].from = sync[u].from /\ sync'[u].batch = sync[u].batch
      BY <3>1, NotAloneFields DEF contract
    <3>3. \A h, T : CachedBelow(contract(u), h, T) => CachedBelow(contract(u), h, T)'
      BY <2>1, <3>2 DEF CachedBelow, Of
    <3>4. Of(contract(u), emitted)' = Of(contract(u), emitted)
      BY <2>1, <3>2 DEF Of
    <3>5. Progress(u) => Progress(u)'
      BY <3>2, <3>3, <3>4 DEF Progress
    <3> QED
      BY <2>1, <3>2, <3>5 DEF Quiet, at
  <2> QED
    BY <2>1, <2>3, <2>4, <2>5
<1>4. ASSUME NEW s \in Sync, SyncStep(s) PROVE OverlapInv'
  <2>0. CASE purgeRows(s)
    BY <2>0 DEF purgeRows, OverlapInv
  <2> SUFFICES ASSUME ~purgeRows(s), ~disturbed PROVE (Agrees /\ Heights /\ Quiets)'
    BY <1>4, <2>0
       DEF OverlapInv, SyncStep, check, purgeState, readState, startFrom, query, store, record
  <2>1. /\ Agrees /\ Heights /\ Quiets /\ UNCHANGED <<emitted, height>>
        /\ ~at(s, "idle")
    BY <1>4 DEF OverlapInv, SyncStep, check, purgeState, readState, startFrom, query, store,
                record, chainVars, at
  <2>2. /\ sync[s].fromBlock = NoBlock /\ sync[s].latest <= height /\ Progress(s)
        /\ sync[s].pc \notin {"purgeRows", "purgeState", "tipState"}
        /\ sync[s].fromBlock \notin 0..LowerBound
        /\ contract(s) \in Contract
    BY <2>1, SyncFields DEF Quiet, NoBlock
  <2>3. ASSUME rows' = rows, last' = last, Quiet(s)', \A u \in Sync \ {s} : sync'[u] = sync[u]
        PROVE  (Agrees /\ Heights /\ Quiets)'
    <3>1. Heights'
      BY <2>1, <2>3 DEF Complete, Of
    <3> QED
      BY <2>1, <2>3, <3>1, QuietKept
  <2>4. CASE check(s)
    <3>1. rows' = rows /\ last' = last
      BY <2>4 DEF check, dbVars
    <3>2. PICK pc \in {"read", "purgeRows"}, alone \in BOOLEAN :
            /\ Becomes(s, At(s, pc, sync[s].from, sync[s].batch, alone))
            /\ pc = "purgeRows" => newest(contract(s)) \ emitted # {}
      BY <2>2, <2>4, CheckMoves
    <3>3. pc = "read"
      BY <2>1, <3>2 DEF newest, Of
    <3>4. sync'[s] = At(s, pc, sync[s].from, sync[s].batch, alone)
      BY <3>2, Became
    <3>5. Quiet(s)'
      BY <2>1, <2>2, <3>3, <3>4, AtFields DEF Quiet, Progress
    <3> QED
      BY <2>3, <3>1, <3>2, <3>5, Became
  <2>5. CASE purgeState(s)
    BY <2>2, <2>5 DEF purgeState
  <2>6. CASE readState(s)
    <3>1. rows' = rows /\ last' = last
      BY <2>6 DEF readState, startFrom, dbVars
    <3>2. Resumable(contract(s), sync[s].latest)
      BY <2>1, <2>2 DEF Resumable, Complete
    <3>3. Progress(s)'
      BY <2>2, <2>6, <3>2, ReadProgress
    <3>4. PICK pc, from : pc \in {"tipRows", "query"} /\
            Becomes(s, At(s, pc, from, sync[s].batch, sync[s].alone))
      BY <2>6, ReadStateMoves
    <3>5. sync'[s] = At(s, pc, from, sync[s].batch, sync[s].alone)
      BY <3>4, Became
    <3>6. Quiet(s)'
      <4>1. /\ sync'[s].pc = pc /\ sync'[s].fromBlock = sync[s].fromBlock
            /\ sync'[s].latest = sync[s].latest
        BY <3>5, AtFields
      <4> QED
        BY <2>1, <2>2, <3>3, <3>4, <4>1 DEF Quiet
    <3> QED
      BY <2>3, <3>1, <3>4, <3>6, Became
  <2>7. CASE query(s)
    <3>1. rows' = rows /\ last' = last
      BY <2>7 DEF query, dbVars
    <3>2. Progress(s)'
      BY <2>2, <2>7, QueryProgress
    <3>3. PICK pc, from, batch : pc \in {"record", "store"} /\
            Becomes(s, At(s, pc, from, batch, sync[s].alone))
      BY <2>7, QueryGoes
    <3>4. sync'[s] = At(s, pc, from, batch, sync[s].alone)
      BY <3>3, Became
    <3>5. Quiet(s)'
      <4>1. /\ sync'[s].pc = pc /\ sync'[s].fromBlock = sync[s].fromBlock
            /\ sync'[s].latest = sync[s].latest
        BY <3>4, AtFields
      <4> QED
        BY <2>1, <2>2, <3>2, <3>3, <4>1 DEF Quiet
    <3> QED
      BY <2>3, <3>1, <3>3, <3>5, Became
  <2>8. CASE store(s)
    <3>1. rows' = rows \cup sync[s].batch /\ last' = last /\ sync[s].pc = "store"
      BY <2>8 DEF store, at
    <3>2. rows' \subseteq emitted
      BY <2>1, <2>2, <3>1 DEF Progress, Of
    <3>3. Progress(s)'
      BY <2>2, <2>8, StoreProgress
    <3>4. Becomes(s, At(s, "query", sync[s].from, {}, sync[s].alone))
      BY <2>8, StoreMoves
    <3>5. Quiet(s)'
      <4>1. sync'[s] = At(s, "query", sync[s].from, {}, sync[s].alone)
        BY <3>4, Became
      <4> QED
        BY <2>1, <2>2, <3>3, <4>1, AtFields DEF Quiet
    <3>6. \A u \in Sync \ {s} : Quiet(u)'
      BY <2>1, <3>1, <3>2, <3>4, Became, QuietKept
    <3>7. Heights'
      BY <2>1, <3>1, <3>2 DEF Complete, Of
    <3> QED
      BY <2>1, <3>2, <3>5, <3>6, <3>7
  <2>9. CASE record(s)
    <3>1. rows' = rows /\ sync[s].pc = "record"
      BY <2>9 DEF record, at
    <3>2. PICK q : Becomes(s, q) /\ q \in {Idle, Onward(s)}
      BY <2>9, RecordMoves
    <3>3. Quiet(s)'
      <4>1. sync'[s] \in {Idle, Onward(s)}
        BY <3>2, Became
      <4>2. /\ Idle.pc = "idle" /\ Onward(s).pc = "check"
            /\ Onward(s).fromBlock = sync[s].fromBlock /\ Onward(s).latest = sync[s].latest
        BY DEF Idle, Onward
      <4> QED
        BY <2>1, <2>2, <4>1, <4>2 DEF Quiet, Progress, at
    <3>4. \A u \in Sync \ {s} : Quiet(u)'
      BY <2>1, <3>1, <3>2, Became, QuietKept
    <3>5. Complete(contract(s), sync[s].latest)
      <4>1. \A e \in emitted : e.block \in Int
        BY DEF AuditTypeOK, Event
      <4>2. CachedBelow(contract(s), sync[s].latest + 1, {})
        BY <2>2, <3>1 DEF Progress
      <4> QED
        BY <1>0, <4>1, <4>2 DEF Complete, CachedBelow, Of
    <3>6. ASSUME NEW c \in Contract PROVE last'[c] <= height /\ Complete(c, last'[c])
      <4>1. last'[c] = last[c] \/ (c = contract(s) /\ last'[c] = sync[s].latest)
        BY <2>9, <3>6, RecordMoves DEF AuditTypeOK
      <4> QED
        BY <2>1, <2>2, <3>5, <4>1
    <3>7. Heights'
      BY <2>1, <3>1, <3>6 DEF Complete, Of
    <3> QED
      BY <2>1, <3>1, <3>3, <3>4, <3>7
  <2> QED
    BY <1>4, <2>4, <2>5, <2>6, <2>7, <2>8, <2>9 DEF SyncStep
<1>5. ASSUME NEW s \in Sync, fail(s) PROVE OverlapInv'
  <2> SUFFICES ASSUME ~disturbed PROVE (Agrees /\ Heights /\ Quiets)'
    BY <1>5 DEF fail, OverlapInv
  <2>1. /\ Agrees /\ Heights /\ Quiets /\ UNCHANGED <<emitted, height, rows, last>>
        /\ Becomes(s, Idle)
    BY <1>5 DEF OverlapInv, fail, chainVars, dbVars, Becomes
  <2>2. sync'[s] = Idle /\ \A u \in Sync \ {s} : sync'[u] = sync[u]
    BY <2>1, Became
  <2>3. Quiet(s)'
    BY <2>2 DEF Quiet, Idle, at
  <2>4. Heights'
    BY <2>1 DEF Complete, Of
  <2> QED
    BY <2>1, <2>2, <2>3, <2>4, QuietKept
<1>6. CASE UNCHANGED vars
  <2>1. \A s \in Sync : Quiet(s) => Quiet(s)'
    BY <1>6 DEF vars, Quiet, Progress, CachedBelow, contract, at, Of
  <2>2. Heights => Heights'
    BY <1>6 DEF vars, Complete, Of
  <2> QED
    BY <1>6, <2>1, <2>2 DEF vars, OverlapInv
<1> QED
  BY <1>1, <1>2, <1>3, <1>4, <1>5, <1>6 DEF AuditNext

-----------------------------------------------------------------------------
(* A sync that has been alone since it began.                              *)
LEMMA TipFactsStep ==
  ASSUME AuditTypeOK, \A s \in Sync : TipFacts(s), [AuditNext]_vars, NEW u \in Sync
  PROVE  TipFacts(u)'
<1>1. ASSUME sync'[u] = sync[u] PROVE TipFacts(u)'
  BY <1>1 DEF TipFacts
<1>2. ASSUME \A t \in Sync : sync'[t] = notAlone(t) \/ sync'[t].pc = "check" PROVE TipFacts(u)'
  BY <1>2, NotAloneFields DEF TipFacts
<1>3. ASSUME NEW s \in Sync, NEW q, Becomes(s, q),
             q.pc \in {"tipRows", "tipState"} => q.from = 0
      PROVE  TipFacts(u)'
  BY <1>1, <1>3, Became DEF TipFacts
<1>4. CASE (\E c \in Contract, n \in PerBlock : mine(c, n)) \/ UNCHANGED vars
  BY <1>1, <1>4 DEF mine, vars
<1>5. CASE restart
  BY <1>2, <1>5 DEF restart
<1>6. ASSUME NEW s \in Sync, NEW b, begin(s, b) PROVE TipFacts(u)'
  <2>1. \A x, y : Begun(b, x, y).pc = "check"
    BY DEF Begun
  <2>2. PICK x, y : sync' = [t \in Sync |-> IF t = s THEN Begun(b, x, y) ELSE notAlone(t)]
    BY <1>6, BeginStarts
  <2> QED
    BY <1>2, <2>1, <2>2
<1>7. ASSUME NEW s \in Sync, fail(s) PROVE TipFacts(u)'
  BY <1>3, <1>7 DEF fail, Becomes, Idle
<1>8. ASSUME NEW s \in Sync, SyncStep(s) PROVE TipFacts(u)'
  <2>1. CASE check(s)
    <3>1. PICK pc, alone : /\ Becomes(s, At(s, pc, sync[s].from, sync[s].batch, alone))
                           /\ pc \in {"read", "purgeRows"}
      BY <2>1, CheckMoves
    <3> QED
      BY <1>3, <3>1, AtFields
  <2>2. CASE purgeRows(s)
    <3>1. PICK alone : Becomes(s, At(s, IF sync[s].pc = "tipRows" THEN "tipState" ELSE "purgeState",
                                     sync[s].from, sync[s].batch, alone))
      BY <2>2, PurgeRowsMoves
    <3> QED
      BY <1>3, <3>1, AtFields DEF TipFacts
  <2>3. CASE purgeState(s)
    <3>1. PICK alone : Becomes(s, At(s, IF sync[s].pc = "tipState" THEN "query" ELSE "read",
                                     sync[s].from, sync[s].batch, alone))
      BY <2>3, PurgeStateMoves
    <3> QED
      BY <1>3, <3>1, AtFields
  <2>4. CASE readState(s)
    <3>1. PICK pc, from : /\ Becomes(s, At(s, pc, from, sync[s].batch, sync[s].alone))
                          /\ pc = "query" \/ (pc = "tipRows" /\ from = 0)
      BY <2>4, ReadStateMoves
    <3> QED
      BY <1>3, <3>1, AtFields
  <2>5. CASE query(s)
    <3>1. CASE sync[s].from > sync[s].latest
      BY <1>3, <2>5, <3>1, QueryMoves, AtFields
    <3>2. CASE ~(sync[s].from > sync[s].latest)
      <4>1. PICK from, batch : Becomes(s, At(s, "store", from, batch, sync[s].alone))
        BY <2>5, <3>2, QueryMoves
      <4> QED
        BY <1>3, <4>1, AtFields
    <3> QED
      BY <3>1, <3>2
  <2>6. CASE store(s)
    BY <1>3, <2>6, StoreMoves, AtFields
  <2>7. CASE record(s)
    <3>1. Idle.pc = "idle" /\ Onward(s).pc = "check"
      BY DEF Idle, Onward
    <3> QED
      BY <1>3, <2>7, <3>1, RecordMoves
  <2> QED
    BY <1>8, <2>1, <2>2, <2>3, <2>4, <2>5, <2>6, <2>7 DEF SyncStep
<1> QED
  BY <1>4, <1>5, <1>6, <1>7, <1>8 DEF AuditNext

(* What it has served so far is kept as long as the step concerns its      *)
(* contract only.                                                          *)
LEMMA ServedBefore ==
  ASSUME AuditTypeOK, NEW s \in Sync, emitted' = emitted, NEW k, k = sync[s].i,
         rows' \subseteq rows \cup Of(contract(s), emitted),
         rows \ Of(contract(s), rows) \subseteq rows',
         \A c \in Contract : c # contract(s) => last'[c] = last[c],
         NEW j \in 1..Len(Contracts), j # k, NEW h
  PROVE  /\ Complete(Contracts[j], h)' <=> Complete(Contracts[j], h)
         /\ Resumable(Contracts[j], h)' <=> Resumable(Contracts[j], h)
         /\ AllDead(Contracts[j])' <=> AllDead(Contracts[j])
<1>1. PICK d \in Contract : d = Contracts[j]
  BY ContractsListed
<1>2. d # contract(s) /\ last'[d] = last[d]
  BY <1>1, ContractsListed, SyncFields DEF contract
<1>3. Of(d, rows)' = Of(d, rows)
  BY <1>2 DEF Of
<1>4. /\ Complete(d, h)' <=> Complete(d, h)
      /\ Resumable(d, h)' <=> Resumable(d, h)
      /\ AllDead(d)' <=> AllDead(d)
  BY <1>2, <1>3, ElsewhereKept
<1> QED
  BY <1>1, <1>4

LEMMA BecameAt ==
  ASSUME AuditTypeOK, NEW s \in Sync, NEW pc, NEW from, NEW batch, NEW alone,
         Becomes(s, At(s, pc, from, batch, alone))
  PROVE  /\ sync'[s].pc = pc /\ sync'[s].from = from /\ sync'[s].batch = batch
         /\ sync'[s].alone = alone /\ sync'[s].latest = sync[s].latest
         /\ sync'[s].fromBlock = sync[s].fromBlock /\ sync'[s].i = sync[s].i
         /\ sync'[s].fit = sync[s].fit /\ contract(s)' = contract(s)
<1>1. sync'[s] = At(s, pc, from, batch, alone)
  BY Became
<1>2. sync'[s].i = sync[s].i
  BY <1>1, AtFields
<1> QED
  BY <1>1, <1>2, AtFields DEF contract

LEMMA ServedStep ==
  ASSUME AuditTypeOK, ChainFacts, NEW s \in Sync, SyncStep(s), TipFacts(s),
         sync[s].pc \in {"purgeState", "tipState"} => Of(contract(s), rows) = {},
         Serving(s), Served(s), sync'[s].alone, ~at(s, "idle")'
  PROVE  /\ Served(s)'
         /\ sync'[s].pc \in {"purgeState", "tipState"} => Of(contract(s), rows)' = {}
<1>0. /\ sync[s].fromBlock = NoBlock \/ sync[s].fromBlock \in 0..LowerBound
      /\ sync[s].fromBlock = NoBlock => sync[s].fromBlock \notin 0..LowerBound
      /\ emitted' = emitted /\ sync[s].i \in 1..Len(Contracts) /\ contract(s) \in Contract
      /\ Len(Contracts) \in Nat
      /\ sync[s].latest \in Int
  <2>1. /\ sync[s].i \in 1..Len(Contracts) /\ contract(s) \in Contract
        /\ Len(Contracts) \in Nat /\ sync[s].latest \in 0..MaxBlock
    BY SyncFields, ContractsListed
  <2>2. emitted' = emitted
    BY DEF SyncStep, check, purgeRows, purgeState, readState, startFrom, query, store, record,
           chainVars
  <2>3. sync[s].fromBlock = NoBlock \/ sync[s].fromBlock \in 0..LowerBound
    BY DEF Serving
  <2>4. NoBlock \notin 0..LowerBound
    BY DEF NoBlock
  <2> QED
    BY <2>1, <2>2, <2>3, <2>4
<1>a. PICK k, h : k = sync[s].i /\ h = sync[s].latest
  OBVIOUS
<1>b. /\ k \in 1..Len(Contracts) /\ h \in Int
      /\ \A j \in 1..(k - 1) : Complete(Contracts[j], h)
      /\ sync[s].fromBlock = NoBlock => \A j \in k..Len(Contracts) : j > k \/ sync[s].pc = "check"
           => Resumable(Contracts[j], h) \/ AllDead(Contracts[j])
      /\ sync[s].pc = "read" => Resumable(contract(s), h)
      /\ Progress(s)
  BY <1>0, <1>a DEF Served
<1>1. ASSUME NEW pc, NEW from, NEW batch, NEW alone, Becomes(s, At(s, pc, from, batch, alone)),
             pc # "check",
             rows' \subseteq rows \cup Of(contract(s), emitted),
             rows \ Of(contract(s), rows) \subseteq rows',
             \A c \in Contract : c # contract(s) => last'[c] = last[c],
             Progress(s)', pc = "read" => Resumable(contract(s), h)'
      PROVE  Served(s)'
  <2>1. /\ sync'[s].pc = pc /\ sync'[s].latest = h /\ sync'[s].i = k
        /\ sync'[s].fromBlock = sync[s].fromBlock
    <3>1. sync'[s] = At(s, pc, from, batch, alone)
      BY <1>1, Became
    <3> QED
      BY <1>a, <3>1, AtFields
  <2>2. ASSUME NEW j \in 1..(k - 1) PROVE Complete(Contracts[j], h)'
    <3>1. j \in 1..Len(Contracts) /\ j # k
      BY <1>0, <1>b
    <3>2. Complete(Contracts[j], h)
      BY <1>b
    <3> QED
      BY <1>0, <1>a, <1>1, <3>1, <3>2, ServedBefore
  <2>3. ASSUME sync[s].fromBlock = NoBlock, NEW j \in k..Len(Contracts), j > k
        PROVE  Resumable(Contracts[j], h)' \/ AllDead(Contracts[j])'
    <3>1. j \in 1..Len(Contracts) /\ j # k
      BY <1>0, <1>b, <2>3
    <3>2. Resumable(Contracts[j], h) \/ AllDead(Contracts[j])
      BY <1>b, <2>3
    <3> QED
      BY <1>0, <1>a, <1>1, <3>1, <3>2, ServedBefore
  <2> QED
    BY <1>1, <2>1, <2>2, <2>3 DEF Served
<1>2. ASSUME UNCHANGED <<rows, last>>
      PROVE  /\ rows' \subseteq rows \cup Of(contract(s), emitted)
             /\ rows \ Of(contract(s), rows) \subseteq rows'
             /\ \A c \in Contract : c # contract(s) => last'[c] = last[c]
  BY <1>2
<1>3. CASE check(s)
  <2>1. UNCHANGED <<rows, last>> /\ sync[s].pc = "check"
    BY <1>3 DEF check, dbVars, at
  <2>2. PICK pc \in {"read", "purgeRows"}, alone \in BOOLEAN :
           /\ Becomes(s, At(s, pc, sync[s].from, sync[s].batch, alone))
           /\ sync[s].fromBlock \in 0..LowerBound => pc = "purgeRows"
           /\ alone /\ sync[s].fromBlock \notin 0..LowerBound /\ pc = "read" =>
                newest(contract(s)) = {} \/ newest(contract(s)) \cap emitted # {}
    BY <1>3, CheckMoves
  <2>3. /\ sync'[s].pc = pc /\ sync'[s].alone = alone
        /\ sync'[s].latest = sync[s].latest /\ contract(s)' = contract(s)
    BY <2>2, BecameAt
  <2>4. pc = "read" => Resumable(contract(s), sync[s].latest)
    <3> SUFFICES ASSUME pc = "read" PROVE Resumable(contract(s), sync[s].latest)
      OBVIOUS
    <3>1. sync[s].fromBlock = NoBlock /\ sync[s].fromBlock \notin 0..LowerBound
      BY <1>0, <2>2
    <3>2. newest(contract(s)) = {} \/ newest(contract(s)) \cap emitted # {}
      BY <2>2, <2>3, <3>1
    <3>3. Resumable(contract(s), sync[s].latest) \/ AllDead(contract(s))
      BY <1>0, <2>1, <3>1 DEF Served, contract
    <3>4. ~AllDead(contract(s))
      <4>1. newest(contract(s)) \subseteq Of(contract(s), rows)
        BY DEF newest
      <4>2. rows \subseteq Event
        BY DEF AuditTypeOK
      <4> QED
        BY <3>2, <4>1, <4>2, NewestExists DEF AllDead
    <3> QED
      BY <3>3, <3>4
  <2>5. pc = "read" => Resumable(contract(s), h)'
    BY <1>0, <1>a, <2>1, <2>3, <2>4 DEF Resumable, Of
  <2>6. Progress(s)'
    BY <2>3 DEF Progress
  <2> QED
    BY <1>1, <1>2, <2>1, <2>2, <2>3, <2>5, <2>6
<1>4. CASE purgeRows(s)
  <2>1. PICK alone \in BOOLEAN :
          /\ Becomes(s, At(s, IF sync[s].pc = "tipRows" THEN "tipState" ELSE "purgeState",
                           sync[s].from, sync[s].batch, alone))
          /\ alone => rows' = rows \ Of(contract(s), rows)
    BY <1>4, PurgeRowsMoves
  <2>2. PICK pc : pc = IF sync[s].pc = "tipRows" THEN "tipState" ELSE "purgeState"
    OBVIOUS
  <2>3. Becomes(s, At(s, pc, sync[s].from, sync[s].batch, alone))
    BY <2>1, <2>2
  <2>4. sync'[s].pc = pc /\ sync'[s].alone = alone /\ contract(s)' = contract(s)
    BY <2>3, BecameAt
  <2>5. rows' = rows \ Of(contract(s), rows) /\ last' = last
    BY <1>4, <2>1, <2>4 DEF purgeRows
  <2>6. Of(contract(s), rows)' = {}
    BY <2>4, <2>5 DEF Of
  <2>7. Progress(s)' /\ pc # "check" /\ pc # "read"
    BY <2>2, <2>4 DEF Progress
  <2>8. Served(s)'
    BY <1>1, <2>3, <2>5, <2>7
  <2> QED
    BY <2>6, <2>8
<1>5. CASE purgeState(s)
  <2>1. PICK alone \in BOOLEAN :
          /\ Becomes(s, At(s, IF sync[s].pc = "tipState" THEN "query" ELSE "read",
                           sync[s].from, sync[s].batch, alone))
          /\ alone => last' = [last EXCEPT ![contract(s)] = NoBlock]
    BY <1>5, PurgeStateMoves
  <2>2. PICK pc : pc = IF sync[s].pc = "tipState" THEN "query" ELSE "read"
    OBVIOUS
  <2>3. Becomes(s, At(s, pc, sync[s].from, sync[s].batch, alone))
    BY <2>1, <2>2
  <2>4. /\ sync'[s].pc = pc /\ sync'[s].alone = alone /\ contract(s)' = contract(s)
        /\ sync'[s].from = sync[s].from /\ sync'[s].latest = sync[s].latest
    BY <2>3, BecameAt
  <2>5. rows' = rows /\ last' = [last EXCEPT ![contract(s)] = NoBlock]
    BY <1>5, <2>1, <2>4 DEF purgeState
  <2>6. last \in [Contract -> NoBlock..MaxBlock] /\ \A e \in emitted : e.block \in Int /\ e.block >= 1
    BY DEF AuditTypeOK, Event
  <2>7. last'[contract(s)] = NoBlock /\ \A c \in Contract : c # contract(s) => last'[c] = last[c]
    BY <1>0, <2>5, <2>6
  <2>8. Of(contract(s), rows) = {} /\ Of(contract(s), rows)' = {}
    BY <1>5, <2>4, <2>5 DEF purgeState, Of
  <2>9. Resumable(contract(s), h)'
    BY <1>0, <1>a, <2>4, <2>6, <2>7, <2>8 DEF Resumable, NoBlock, Of
  <2>10. Progress(s)'
    <3>1. pc = "query" => sync[s].from = 0 /\ sync[s].from <= sync[s].latest + 1
      BY <1>5, <2>2, SyncFields DEF purgeState, TipFacts
    <3>2. CachedBelow(contract(s), 0, {})'
      BY <1>0, <2>4, <2>6, <2>8 DEF CachedBelow, Of
    <3> QED
      BY <2>2, <2>4, <3>1, <3>2 DEF Progress
  <2>11. Served(s)' /\ pc \notin {"purgeState", "tipState"}
    BY <1>1, <2>2, <2>3, <2>5, <2>7, <2>9, <2>10, <2>4
  <2> QED
    BY <2>4, <2>11
<1>6. CASE readState(s)
  <2>1. UNCHANGED <<rows, last>> /\ sync[s].pc = "read"
    BY <1>6 DEF readState, startFrom, dbVars, at
  <2>2. Progress(s)'
    BY <1>0, <1>6, <2>1, ReadProgress DEF Served
  <2>3. PICK pc, from : pc \in {"tipRows", "query"} /\
          Becomes(s, At(s, pc, from, sync[s].batch, sync[s].alone))
    BY <1>6, ReadStateMoves
  <2>4. sync'[s].pc = pc
    BY <2>3, Became, AtFields
  <2> QED
    BY <1>1, <1>2, <2>1, <2>2, <2>3, <2>4
<1>7. CASE query(s)
  <2>1. UNCHANGED <<rows, last>>
    BY <1>7 DEF query, dbVars
  <2>2. Progress(s)'
    BY <1>7, QueryProgress DEF Served
  <2>3. PICK pc, from, batch : pc \in {"record", "store"} /\
          Becomes(s, At(s, pc, from, batch, sync[s].alone))
    BY <1>7, QueryGoes
  <2>4. sync'[s].pc = pc
    BY <2>3, Became, AtFields
  <2> QED
    BY <1>1, <1>2, <2>1, <2>2, <2>3, <2>4
<1>8. CASE store(s)
  <2>1. rows' = rows \cup sync[s].batch /\ last' = last /\ sync[s].pc = "store"
    BY <1>8 DEF store, at
  <2>2. sync[s].batch \subseteq Of(contract(s), emitted)
    BY <2>1 DEF Served, Progress
  <2>3. Progress(s)'
    BY <1>8, StoreProgress DEF Served
  <2>4. PICK pc, S : pc = "query" /\ S = {}
    OBVIOUS
  <2>5. Becomes(s, At(s, pc, sync[s].from, S, sync[s].alone)) /\ sync'[s].pc = "query"
    BY <1>8, <2>4, StoreMoves, Became, AtFields
  <2> QED
    BY <1>1, <2>1, <2>2, <2>3, <2>4, <2>5
<1>9. CASE record(s)
  <2>1. rows' = rows /\ sync[s].pc = "record" /\ last \in [Contract -> NoBlock..MaxBlock]
    BY <1>9 DEF record, at, AuditTypeOK
  <2>2. \A c \in Contract : c # contract(s) => last'[c] = last[c]
    BY <1>9, <2>1, RecordMoves
  <2>3. sync[s].i # Len(Contracts) /\ sync'[s] = Onward(s)
    <3>1. sync'[s] = IF sync[s].i = Len(Contracts) THEN Idle ELSE Onward(s)
      BY <1>9, RecordMoves, Became
    <3> QED
      BY <3>1 DEF at, Idle
  <2>4. /\ sync'[s].pc = "check" /\ sync'[s].latest = h
        /\ sync'[s].i = k + 1 /\ sync'[s].fromBlock = sync[s].fromBlock
    BY <1>a, <2>3 DEF Onward
  <2>5. Complete(contract(s), h)
    <3>1. \A e \in emitted : e.block \in Int
      BY DEF AuditTypeOK, Event
    <3>2. CachedBelow(contract(s), h + 1, {})
      BY <1>a, <1>b, <2>1 DEF Served, Progress
    <3> QED
      BY <1>0, <1>b, <3>1, <3>2 DEF Complete, CachedBelow, Of
  <2>6. ASSUME NEW j \in 1..k PROVE Complete(Contracts[j], h)'
    <3>1. CASE j = k
      BY <1>0, <1>a, <2>1, <2>5, <3>1 DEF Complete, Of, contract
    <3>2. CASE j # k
      <4>1. j \in 1..Len(Contracts) /\ j \in 1..(k - 1)
        BY <1>0, <1>b, <3>2
      <4>2. Complete(Contracts[j], h)
        BY <1>b, <4>1
      <4> QED
        BY <1>0, <1>a, <2>1, <2>2, <3>2, <4>1, <4>2, ServedBefore
    <3> QED
      BY <3>1, <3>2
  <2>7. ASSUME sync[s].fromBlock = NoBlock, NEW j \in (k + 1)..Len(Contracts)
        PROVE  Resumable(Contracts[j], h)' \/ AllDead(Contracts[j])'
    <3>1. j \in 1..Len(Contracts) /\ j # k /\ j \in k..Len(Contracts) /\ j > k
      BY <1>0, <1>b
    <3>2. Resumable(Contracts[j], h) \/ AllDead(Contracts[j])
      BY <1>b, <2>7, <3>1
    <3> QED
      BY <1>0, <1>a, <2>1, <2>2, <3>1, <3>2, ServedBefore
  <2>8. \A j \in 1..((k + 1) - 1) : Complete(Contracts[j], h)'
    BY <1>b, <2>6
  <2> QED
    BY <2>4, <2>7, <2>8 DEF Served, Progress
<1> QED
  BY <1>3, <1>4, <1>5, <1>6, <1>7, <1>8, <1>9 DEF SyncStep


(* What every statement of a sync does: it keeps what the sync was asked   *)
(* for, touches no other sync and does not move the chain.                 *)
LEMMA SyncStepMoves ==
  ASSUME AuditTypeOK, NEW s \in Sync, SyncStep(s)
  PROVE  /\ ~at(s, "idle")
         /\ emitted' = emitted /\ height' = height /\ chain' = chain
         /\ \A u \in Sync \ {s} : sync'[u] = sync[u]
         /\ ~at(s, "idle")' =>
              /\ sync'[s].latest = sync[s].latest /\ sync'[s].fromBlock = sync[s].fromBlock
              /\ sync'[s].fit = sync[s].fit
              /\ sync'[s].alone => sync[s].alone
<1>1. ASSUME NEW pc, NEW from, NEW batch, NEW alone, Becomes(s, At(s, pc, from, batch, alone)),
             alone => sync[s].alone
      PROVE  /\ \A u \in Sync \ {s} : sync'[u] = sync[u]
             /\ sync'[s].latest = sync[s].latest /\ sync'[s].fromBlock = sync[s].fromBlock
             /\ sync'[s].fit = sync[s].fit
             /\ sync'[s].alone => sync[s].alone
  BY <1>1, Became, BecameAt
<1>2. ~at(s, "idle") /\ emitted' = emitted /\ height' = height /\ chain' = chain
  BY DEF SyncStep, check, purgeRows, purgeState, readState, startFrom, query, store, record,
         chainVars, at
<1>3. CASE check(s)
  <2>1. PICK pc, alone : /\ Becomes(s, At(s, pc, sync[s].from, sync[s].batch, alone))
                         /\ alone => sync[s].alone
    BY <1>3, CheckMoves
  <2> QED
    BY <1>1, <1>2, <2>1
<1>4. CASE purgeRows(s)
  <2>1. PICK pc, alone : /\ Becomes(s, At(s, pc, sync[s].from, sync[s].batch, alone))
                         /\ alone => sync[s].alone
    BY <1>4, PurgeRowsMoves
  <2> QED
    BY <1>1, <1>2, <2>1
<1>5. CASE purgeState(s)
  <2>1. PICK pc, alone : /\ Becomes(s, At(s, pc, sync[s].from, sync[s].batch, alone))
                         /\ alone => sync[s].alone
    BY <1>5, PurgeStateMoves
  <2> QED
    BY <1>1, <1>2, <2>1
<1>6. CASE readState(s)
  <2>1. PICK pc, from : Becomes(s, At(s, pc, from, sync[s].batch, sync[s].alone))
    BY <1>6, ReadStateMoves
  <2> QED
    BY <1>1, <1>2, <2>1
<1>7. CASE query(s)
  <2>1. PICK pc, from, batch : Becomes(s, At(s, pc, from, batch, sync[s].alone))
    BY <1>7, QueryGoes
  <2> QED
    BY <1>1, <1>2, <2>1
<1>8. CASE store(s)
  BY <1>1, <1>2, <1>8, StoreMoves
<1>9. CASE record(s)
  <2>1. /\ sync'[s] = IF sync[s].i = Len(Contracts) THEN Idle ELSE Onward(s)
        /\ \A u \in Sync \ {s} : sync'[u] = sync[u]
    BY <1>9, RecordMoves, Became
  <2> QED
    BY <1>2, <2>1 DEF at, Idle, Onward
<1> QED
  BY <1>3, <1>4, <1>5, <1>6, <1>7, <1>8, <1>9 DEF SyncStep

(* The delete of the state comes after the delete of the rows.             *)
LEMMA PurgedStep ==
  ASSUME AuditTypeOK, NEW s \in Sync, SyncStep(s), sync'[s].alone,
         sync'[s].pc \in {"purgeState", "tipState"}
  PROVE  Of(contract(s), rows)' = {}
<1>1. CASE purgeRows(s)
  <2>1. PICK pc, alone : /\ Becomes(s, At(s, pc, sync[s].from, sync[s].batch, alone))
                         /\ alone => rows' = rows \ Of(contract(s), rows)
    BY <1>1, PurgeRowsMoves
  <2>2. contract(s)' = contract(s) /\ sync'[s].alone = alone
    BY <2>1, BecameAt
  <2> QED
    BY <2>1, <2>2 DEF Of
<1>2. ASSUME NEW pc, NEW from, NEW batch, NEW alone, Becomes(s, At(s, pc, from, batch, alone)),
             pc \notin {"purgeState", "tipState"}
      PROVE  FALSE
  BY <1>2, BecameAt
<1>3. CASE check(s)
  <2>1. PICK pc, alone : /\ Becomes(s, At(s, pc, sync[s].from, sync[s].batch, alone))
                         /\ pc \in {"read", "purgeRows"}
    BY <1>3, CheckMoves
  <2> QED
    BY <1>2, <2>1
<1>4. CASE purgeState(s)
  <2>1. PICK pc, alone : /\ Becomes(s, At(s, pc, sync[s].from, sync[s].batch, alone))
                         /\ pc \in {"query", "read"}
    BY <1>4, PurgeStateMoves
  <2> QED
    BY <1>2, <2>1
<1>5. CASE readState(s)
  <2>1. PICK pc, from : /\ Becomes(s, At(s, pc, from, sync[s].batch, sync[s].alone))
                        /\ pc \in {"query", "tipRows"}
    BY <1>5, ReadStateMoves
  <2> QED
    BY <1>2, <2>1
<1>6. CASE query(s)
  <2>1. PICK pc, from, batch : /\ Becomes(s, At(s, pc, from, batch, sync[s].alone))
                               /\ pc \in {"record", "store"}
    BY <1>6, QueryGoes
  <2> QED
    BY <1>2, <2>1
<1>7. CASE store(s)
  BY <1>2, <1>7, StoreMoves
<1>8. CASE record(s)
  <2>1. sync'[s] = IF sync[s].i = Len(Contracts) THEN Idle ELSE Onward(s)
    BY <1>8, RecordMoves, Became
  <2> QED
    BY <2>1 DEF Idle, Onward
<1> QED
  BY <1>1, <1>3, <1>4, <1>5, <1>6, <1>7, <1>8 DEF SyncStep

(* The chain grows past the block a sync reads up to: what it served       *)
(* stays served.                                                           *)
LEMMA ServedMine ==
  ASSUME AuditTypeOK, ChainFacts, NEW c \in Contract, NEW n \in PerBlock, mine(c, n),
         NEW s \in Sync, sync[s].latest <= height, Served(s)
  PROVE  Served(s)'
<1>1. PICK k, h : k = sync[s].i /\ h = sync[s].latest
  OBVIOUS
<1>2. /\ k \in 1..Len(Contracts) /\ Len(Contracts) \in Nat /\ h \in Int /\ h <= height
      /\ sync' = sync /\ contract(s)' = contract(s) /\ contract(s) \in Contract
  BY <1>1, SyncFields, ContractsListed DEF mine, contract
<1>3. /\ \A j \in 1..(k - 1) : Complete(Contracts[j], h)
      /\ sync[s].fromBlock = NoBlock => \A j \in k..Len(Contracts) : j > k \/ sync[s].pc = "check"
           => Resumable(Contracts[j], h) \/ AllDead(Contracts[j])
      /\ sync[s].pc = "read" => Resumable(contract(s), h)
      /\ Progress(s)
  BY <1>1 DEF Served
<1>4. ASSUME NEW j \in 1..(k - 1) PROVE Complete(Contracts[j], h)'
  <2>1. Contracts[j] \in Contract
    BY <1>2, ContractsListed
  <2> QED
    BY <1>2, <1>3, <2>1, MineKeeps
<1>5. ASSUME sync[s].fromBlock = NoBlock, NEW j \in k..Len(Contracts), j > k \/ sync[s].pc = "check"
      PROVE  Resumable(Contracts[j], h)' \/ AllDead(Contracts[j])'
  <2>1. Contracts[j] \in Contract /\ (Resumable(Contracts[j], h) \/ AllDead(Contracts[j]))
    BY <1>2, <1>3, <1>5, ContractsListed
  <2> QED
    BY <1>2, <2>1, MineKeeps
<1>6. sync[s].pc = "read" => Resumable(contract(s), h)'
  <2>1. PICK d \in Contract : d = contract(s)
    BY <1>2
  <2>2. Resumable(d, h) => Resumable(d, h)'
    BY <1>2, MineKeeps
  <2> QED
    BY <1>2, <1>3, <2>1, <2>2
<1>7. Progress(s)'
  BY <1>3, MineProgress
<1>8. sync'[s] = sync[s]
  BY <1>2
<1> QED
  BY <1>1, <1>4, <1>5, <1>6, <1>7, <1>8 DEF Served

LEMMA AloneStep ==
  ASSUME AuditTypeOK, ChainFacts, \A s \in Sync : AloneInv(s) /\ TipFacts(s), [AuditNext]_vars,
         NEW u \in Sync
  PROVE  AloneInv(u)'
<1> SUFFICES ASSUME ~at(u, "idle")', sync'[u].alone
             PROVE  /\ \A v \in Sync \ {u} : at(v, "idle")'
                    /\ sync'[u].latest <= height'
                    /\ sync'[u].pc \in {"purgeState", "tipState"} => Of(contract(u), rows)' = {}
                    /\ Serving(u)' => Served(u)'
  BY DEF AloneInv
<1>1. ASSUME ~at(u, "idle"), sync[u].alone
      PROVE  /\ \A v \in Sync \ {u} : at(v, "idle")
             /\ sync[u].latest <= height
             /\ sync[u].pc \in {"purgeState", "tipState"} => Of(contract(u), rows) = {}
             /\ Serving(u) => Served(u)
  BY <1>1 DEF AloneInv
<1>2. ASSUME NEW c \in Contract, NEW n \in PerBlock, mine(c, n) PROVE AloneInv(u)'
  <2>1. sync' = sync /\ rows' = rows /\ height' = height + 1 /\ height \in Int
        /\ contract(u)' = contract(u)
    BY <1>2 DEF mine, contract, AuditTypeOK
  <2>2. ~at(u, "idle") /\ sync[u].alone /\ sync[u].latest \in Int
    BY <2>1, SyncFields DEF at
  <2>3. Serving(u)' => Serving(u)
    BY <2>1 DEF Serving
  <2>4. Serving(u)' => Served(u)'
    BY <1>1, <1>2, <2>2, <2>3, ServedMine
  <2>5. sync[u].pc \in {"purgeState", "tipState"} => Of(contract(u), rows)' = {}
    BY <1>1, <2>1, <2>2 DEF Of
  <2> QED
    BY <1>1, <2>1, <2>2, <2>4, <2>5 DEF AloneInv, at
<1>3. CASE restart
  <2>1. sync'[u].alone = FALSE
    BY <1>3, NotAloneFields DEF restart
  <2> QED
    BY <2>1
<1>4. ASSUME NEW s \in Sync, NEW b \in FromArgs \cup {NoBlock}, begin(s, b) PROVE AloneInv(u)'
  <2>1. PICK x \in BOOLEAN, y \in BOOLEAN :
          /\ sync' = [t \in Sync |-> IF t = s THEN Begun(b, x, y) ELSE notAlone(t)]
          /\ x => \A v \in Sync \ {s} : at(v, "idle")
          /\ y => \A c \in Contract : Complete(c, last[c]) \/ AllDead(c)
    BY <1>4, BeginMoves, ZenonT(60)
  <2>2. u = s
    <3>1. u # s => sync'[u] = notAlone(u)
      BY <2>1
    <3> QED
      BY <3>1, NotAloneFields
  <2>3. sync'[s] = Begun(b, x, y)
    BY <2>1
  <2>4. /\ sync'[s].pc = "check" /\ sync'[s].latest = height /\ sync'[s].fromBlock = b
        /\ sync'[s].i = 1 /\ sync'[s].alone = x /\ sync'[s].fit = y
    BY <2>3 DEF Begun
  <2>5. UNCHANGED <<emitted, height, chain, rows, last>> /\ height <= height
    <3>1. UNCHANGED <<emitted, height, chain, rows, last>>
      BY <1>4 DEF begin, chainVars, dbVars
    <3>2. height \in 0..MaxBlock
      BY DEF AuditTypeOK
    <3> QED
      BY <3>1, <3>2
  <2>6. ASSUME NEW v \in Sync \ {s} PROVE at(v, "idle")'
    <3>1. at(v, "idle") /\ sync'[v] = notAlone(v)
      BY <2>1, <2>2, <2>4, <2>6
    <3> QED
      BY <3>1, NotAloneFields DEF at
  <2>7. PICK h : h = height
    OBVIOUS
  <2>8. ASSUME Serving(s)', b = NoBlock, NEW j \in 1..Len(Contracts)
        PROVE  Resumable(Contracts[j], h)' \/ AllDead(Contracts[j])'
    <3>1. y
      BY <2>4, <2>8 DEF Serving, NoBlock
    <3>2. Contracts[j] \in Contract
      BY ContractsListed
    <3>3. Complete(Contracts[j], last[Contracts[j]]) \/ AllDead(Contracts[j])
      BY <2>1, <3>1, <3>2
    <3>4. Complete(Contracts[j], last[Contracts[j]]) => Resumable(Contracts[j], h)'
      BY <2>5 DEF Complete, Resumable, Of
    <3>5. AllDead(Contracts[j]) => AllDead(Contracts[j])'
      BY <2>5 DEF AllDead, Of
    <3> QED
      BY <3>3, <3>4, <3>5
  <2>9. Serving(s)' => Served(s)'
    <3>1. Progress(s)'
      BY <2>4 DEF Progress
    <3>2. 1..(1 - 1) = {}
      OBVIOUS
    <3> QED
      BY <2>4, <2>7, <2>8, <3>1, <3>2 DEF Served
  <2> QED
    BY <2>2, <2>4, <2>5, <2>6, <2>9 DEF AloneInv
<1>5. ASSUME NEW s \in Sync, fail(s) PROVE AloneInv(u)'
  <2>1. ~at(s, "idle") /\ Becomes(s, Idle)
    BY <1>5 DEF fail, Becomes
  <2>2. u # s
    BY <2>1, Became DEF at, Idle
  <2>3. sync'[u] = sync[u]
    BY <2>1, <2>2, Became
  <2>4. ~at(u, "idle") /\ sync[u].alone
    BY <2>3 DEF at
  <2> QED
    BY <1>1, <2>1, <2>2, <2>4
<1>6. ASSUME NEW s \in Sync, SyncStep(s) PROVE AloneInv(u)'
  <2>1. /\ ~at(s, "idle") /\ emitted' = emitted /\ height' = height
        /\ \A v \in Sync \ {s} : sync'[v] = sync[v]
    BY <1>6, SyncStepMoves
  <2>2. u = s
    <3> SUFFICES ASSUME u # s PROVE FALSE
      OBVIOUS
    <3>1. sync'[u] = sync[u]
      BY <2>1
    <3>2. ~at(u, "idle") /\ sync[u].alone
      BY <3>1 DEF at
    <3> QED
      BY <1>1, <2>1, <3>2
  <2>3. /\ sync'[s].latest = sync[s].latest /\ sync'[s].fromBlock = sync[s].fromBlock
        /\ sync'[s].fit = sync[s].fit /\ sync[s].alone
    BY <1>6, <2>2, SyncStepMoves
  <2>4. /\ \A v \in Sync \ {s} : at(v, "idle")
        /\ sync[s].latest <= height
        /\ sync[s].pc \in {"purgeState", "tipState"} => Of(contract(s), rows) = {}
        /\ Serving(s) => Served(s)
    BY <1>1, <2>1, <2>2, <2>3
  <2>5. \A v \in Sync \ {s} : at(v, "idle")'
    BY <2>1, <2>4 DEF at
  <2>6. sync'[s].pc \in {"purgeState", "tipState"} => Of(contract(s), rows)' = {}
    BY <1>6, <2>2, PurgedStep
  <2>7. Serving(s)' => Serving(s)
    BY <2>3 DEF Serving
  <2>8. Serving(s)' => Served(s)'
    BY <1>6, <2>2, <2>4, <2>7, ServedStep
  <2> QED
    BY <2>1, <2>2, <2>3, <2>4, <2>5, <2>6, <2>8 DEF AloneInv
<1>7. CASE UNCHANGED vars
  <2>1. /\ ~at(u, "idle") /\ sync[u].alone
        /\ UNCHANGED <<emitted, height, chain, rows, last, sync>>
    BY <1>7 DEF vars, at
  <2> QED
    BY <1>1, <2>1 DEF at, Of, contract, Serving, Served, Complete, AllDead, Resumable, Progress,
                     CachedBelow
<1> QED
  BY <1>2, <1>3, <1>4, <1>5, <1>6, <1>7 DEF AuditNext, AloneInv

-----------------------------------------------------------------------------
LEMMA IndexInvInit == AuditInit => IndexInv
<1> SUFFICES ASSUME AuditInit PROVE IndexInv
  OBVIOUS
<1>1. /\ emitted = {} /\ rows = {} /\ height = 0 /\ chain = 0 /\ disturbed = FALSE
      /\ last = [c \in Contract |-> NoBlock] /\ sync = [s \in Sync |-> Idle]
  BY DEF AuditInit
<1>2. \A s \in Sync : sync[s].pc = "idle" /\ sync[s].batch = {}
  BY <1>1 DEF Idle
<1>3. AuditTypeOK
  <2>1. MaxBlock \in Nat /\ MaxRestarts \in Nat
    BY IndexerAssumption
  <2>2. NoBlock \in NoBlock..MaxBlock /\ 0 \in 0..MaxBlock /\ 0 \in 0..MaxRestarts
    BY <2>1 DEF NoBlock
  <2>3. last \in [Contract -> NoBlock..MaxBlock]
    BY <1>1, <2>2
  <2>4. sync \in [Sync -> SyncState]
    BY <1>1, IdleTyped
  <2> QED
    BY <1>1, <2>2, <2>3, <2>4 DEF AuditTypeOK
<1>4. ChainFacts
  BY <1>1, <1>2 DEF ChainFacts
<1>5. OverlapInv
  BY <1>1, <1>2 DEF OverlapInv, Quiet, Complete, Of, at, NoBlock
<1>6. \A s \in Sync : AloneInv(s) /\ TipFacts(s)
  BY <1>2 DEF AloneInv, TipFacts, at
<1> QED
  BY <1>3, <1>4, <1>5, <1>6 DEF IndexInv

LEMMA IndexInvStep == IndexInv /\ [AuditNext]_vars => IndexInv'
<1> SUFFICES ASSUME IndexInv, [AuditNext]_vars PROVE IndexInv'
  OBVIOUS
<1>1. AuditTypeOK /\ ChainFacts /\ OverlapInv /\ \A s \in Sync : AloneInv(s) /\ TipFacts(s)
  BY DEF IndexInv
<1>2. AuditTypeOK'
  BY <1>1, AuditTypeStep
<1>3. ChainFacts'
  BY <1>1, ChainFactsStep
<1>4. OverlapInv'
  BY <1>1, OverlapStep
<1>5. \A s \in Sync : AloneInv(s)' /\ TipFacts(s)'
  BY <1>1, AloneStep, TipFactsStep
<1> QED
  BY <1>2, <1>3, <1>4, <1>5 DEF IndexInv

LEMMA IndexInvAlways == AuditSpec => []IndexInv
<1>1. AuditInit => IndexInv
  BY IndexInvInit
<1>2. IndexInv /\ [AuditNext]_vars => IndexInv'
  BY IndexInvStep
<1> QED
  BY <1>1, <1>2, PTL DEF AuditSpec

(* The cache, the recorded heights and the syncs in flight keep their      *)
(* shape.                                                                  *)
THEOREM AuditTypeCorrect == AuditSpec => []AuditTypeOK
<1>1. IndexInv => AuditTypeOK
  BY DEF IndexInv
<1> QED
  BY <1>1, IndexInvAlways, PTL

(* syncEvents may run any number of times at once, fail at any call and    *)
(* finish in any order: until something is purged, the height recorded for *)
(* a contract never runs ahead of its rows.                                *)
THEOREM OverlapIsHarmless == AuditSpec => []OverlapHarmless
<1>1. IndexInv => OverlapHarmless
  BY DEF IndexInv, OverlapInv, OverlapHarmless
<1> QED
  BY <1>1, IndexInvAlways, PTL

(* The statement that ends a sync that ran alone.                          *)
LEMMA CompletesServed ==
  ASSUME IndexInv, [AuditNext]_vars, NEW s \in Sync, Completes(s), Serving(s), NEW c \in Contract
  PROVE  Complete(c, sync[s].latest)
<1>1. AuditTypeOK /\ AloneInv(s) /\ ~at(s, "idle") /\ sync[s].alone /\ sync[s].pc = "record"
      /\ sync[s].i = Len(Contracts)
  BY DEF IndexInv, Completes, at
<1>2. Served(s)
  BY <1>1 DEF AloneInv
<1>3. sync[s].latest \in Int /\ \A e \in emitted : e.block \in Int
  BY <1>1, SyncFields DEF AuditTypeOK, Event
<1>4. PICK j \in 1..Len(Contracts) : c = Contracts[j]
  BY ContractsListed
<1>5. CASE j = Len(Contracts)
  <2>1. c = contract(s)
    BY <1>1, <1>4, <1>5 DEF contract
  <2>2. CachedBelow(c, sync[s].latest + 1, {})
    BY <1>1, <1>2, <2>1 DEF Served, Progress
  <2> QED
    BY <1>3, <2>2 DEF CachedBelow, Complete, Of
<1>6. CASE j # Len(Contracts)
  <2>1. j \in 1..(sync[s].i - 1)
    BY <1>1, <1>6, ContractsListed
  <2> QED
    BY <1>2, <1>4, <2>1 DEF Served
<1> QED
  BY <1>5, <1>6

(* The console's "Rebuild" (POST /api/audit/sync with fromBlock 0): it     *)
(* repairs whatever earlier syncs and restarts of the chain left behind.   *)
THEOREM RebuildAlwaysRepairs == AuditSpec => RebuildRepairs
<1>1. IndexInv /\ [AuditNext]_vars =>
        [\A s \in Sync :
           Completes(s) /\ sync[s].fromBlock \in 0..LowerBound
             => \A c \in Contract : Complete(c, sync[s].latest)]_vars
  BY CompletesServed DEF Serving
<1> QED
  BY <1>1, IndexInvAlways, PTL DEF AuditSpec, RebuildRepairs

(* Every sync after the first resumes: run alone, it keeps a good cache    *)
(* good, and finds a replaced chain when each contract had a row.          *)
THEOREM ResumeKeepsCacheComplete == AuditSpec => ResumeKeepsComplete
<1>1. IndexInv /\ [AuditNext]_vars =>
        [\A s \in Sync :
           Completes(s) /\ sync[s].fromBlock = NoBlock /\ sync[s].fit
             => \A c \in Contract : Complete(c, sync[s].latest)]_vars
  BY CompletesServed DEF Serving
<1> QED
  BY <1>1, IndexInvAlways, PTL DEF AuditSpec, ResumeKeepsComplete

-----------------------------------------------------------------------------
(* Paging: what GET /api/audit and "load older" make of the rows.          *)

LEMMA Prefix ==
  ASSUME NEW S, NEW q \in Seq(S), NEW m \in 0..Len(q)
  PROVE  LET p == SubSeq(q, 1, m) IN
         p \in Seq(S) /\ Len(p) = m /\ \A i \in 1..m : p[i] = q[i]
OBVIOUS

LEMMA Joined ==
  ASSUME NEW S, NEW p \in Seq(S), NEW q \in Seq(S)
  PROVE  /\ p \o q \in Seq(S) /\ Len(p \o q) = Len(p) + Len(q)
         /\ \A i \in 1..Len(p) : (p \o q)[i] = p[i]
         /\ \A i \in 1..Len(q) : (p \o q)[i + Len(p)] = q[i]
OBVIOUS

(* A multiple of the page length is one also a page later.                 *)
LEMMA OnePageOn ==
  ASSUME NEW n \in Nat \ {0}, NEW k \in Nat, k % n = 0
  PROVE  (k + n) % n = 0
<1>1. PICK a, b, r : a = k \div n /\ b = (k + n) \div n /\ r = (k + n) % n
  OBVIOUS
<1>2. a \in Int /\ k = n * a
  BY <1>1
<1>3. b \in Int /\ r \in 0..(n - 1) /\ k + n = n * b + r
  BY <1>1
<1>4. PICK e \in Int : e = a + 1 - b
  BY <1>2, <1>3
<1>5. n * e = r
  <2>1. n * e = n * a + n - n * b
    BY <1>2, <1>3, <1>4
  <2> QED
    BY <1>2, <1>3, <2>1
<1>6. ~(e >= 1)
  <2> SUFFICES ASSUME e >= 1 PROVE FALSE
    OBVIOUS
  <2>1. n * e >= n
    OBVIOUS
  <2> QED
    BY <1>3, <1>5, <2>1
<1>7. ~(e <= -1)
  <2> SUFFICES ASSUME e <= -1 PROVE FALSE
    OBVIOUS
  <2>1. n * e < 0
    OBVIOUS
  <2> QED
    BY <1>3, <1>5, <2>1
<1>8. e = 0
  BY <1>6, <1>7
<1>9. r = 0
  BY <1>5, <1>8
<1> QED
  BY <1>1, <1>9

EventKey(e) == <<<<e.chain, e.contract>>, <<e.block, e.log>>>>

LEMMA EventsFinite == IsFiniteSet(Event)
<1>1. IsFiniteSet(Contract)
  <2>1. Contracts \in Surjection(1..Len(Contracts), Contract)
    <3>1. Contracts \in [1..Len(Contracts) -> Contract]
      BY ContractsListed, IndexerAssumption DEF Contract
    <3> QED
      BY <3>1, ContractsListed DEF Surjection
  <2>2. IsFiniteSet(1..Len(Contracts))
    BY ContractsListed, FS_Interval
  <2> QED
    BY <2>1, <2>2, FS_Surjection
<1>2. IsFiniteSet((0..MaxRestarts) \X Contract)
  <2>1. IsFiniteSet(0..MaxRestarts)
    BY IndexerAssumption, FS_Interval
  <2> QED
    BY <1>1, <2>1, FS_Product
<1>3. IsFiniteSet((1..MaxBlock) \X (0..1))
  <2>1. IsFiniteSet(1..MaxBlock)
    BY IndexerAssumption, FS_Interval
  <2>2. IsFiniteSet(0..1)
    <3>1. PICK b \in Int : b = 1
      OBVIOUS
    <3>2. IsFiniteSet(0..b)
      BY FS_Interval
    <3> QED
      BY <3>1, <3>2
  <2> QED
    BY <2>1, <2>2, FS_Product
<1>4. IsFiniteSet(((0..MaxRestarts) \X Contract) \X ((1..MaxBlock) \X (0..1)))
  BY <1>2, <1>3, FS_Product
<1>5. [e \in Event |-> EventKey(e)]
        \in Injection(Event, ((0..MaxRestarts) \X Contract) \X ((1..MaxBlock) \X (0..1)))
  <2>1. \A e \in Event :
          EventKey(e) \in ((0..MaxRestarts) \X Contract) \X ((1..MaxBlock) \X (0..1))
    BY DEF EventKey, Event
  <2>2. ASSUME NEW e \in Event, NEW f \in Event, EventKey(e) = EventKey(f) PROVE e = f
    BY <2>2 DEF EventKey, Event
  <2> QED
    BY <2>1, <2>2 DEF Injection, IsInjective
<1> QED
  BY <1>4, <1>5, FS_Injection

(* A set in which any two events can be told apart by what the query       *)
(* sorts by.                                                               *)
Ranked(S) == /\ S \subseteq Event
             /\ \A e, f \in S : e = f \/ Newer(e, f) \/ Newer(f, e)

Above(S, e) == {f \in S : Newer(f, e)}

LEMMA NewerIsAnOrder ==
  ASSUME NEW e \in Event, NEW f \in Event
  PROVE  /\ ~Newer(e, e)
         /\ \A g \in Event : Newer(e, f) /\ Newer(f, g) => Newer(e, g)
BY DEF Newer, Event

(* The rank of an event is one more than the number of newer ones: every   *)
(* rank from 1 on is taken, and once.                                      *)
LEMMA RanksAreTaken ==
  ASSUME NEW S, Ranked(S)
  PROVE  /\ Cardinality(S) \in Nat
         /\ \A e \in S : Cardinality(Above(S, e)) \in 0..(Cardinality(S) - 1)
         /\ \A e, f \in S : Newer(e, f) => Cardinality(Above(S, e)) < Cardinality(Above(S, f))
         /\ \A i \in 1..Cardinality(S) : \E e \in S : Cardinality(Above(S, e)) = i - 1
<1> DEFINE n == Cardinality(S)
           r == [e \in S |-> Cardinality(Above(S, e))]
<1>1. IsFiniteSet(S) /\ n \in Nat
  BY EventsFinite, FS_Subset, FS_CardinalityType DEF Ranked
<1>2. \A e \in S : IsFiniteSet(Above(S, e)) /\ Cardinality(Above(S, e)) \in Nat
  BY <1>1, FS_Subset, FS_CardinalityType DEF Above
<1>3. ASSUME NEW e \in S PROVE Cardinality(Above(S, e)) \in 0..(n - 1)
  <2>1. Above(S, e) \in SUBSET (S \ {e})
    BY NewerIsAnOrder DEF Above, Ranked
  <2>2. IsFiniteSet(S \ {e}) /\ Cardinality(S \ {e}) = n - 1
    BY <1>1, FS_RemoveElement
  <2> QED
    BY <1>1, <1>2, <2>1, <2>2, FS_Subset
<1>4. ASSUME NEW e \in S, NEW f \in S, Newer(e, f)
      PROVE  Cardinality(Above(S, e)) < Cardinality(Above(S, f))
  <2>1. Above(S, e) \in SUBSET Above(S, f)
    BY <1>4, NewerIsAnOrder DEF Above, Ranked
  <2>2. Above(S, e) # Above(S, f)
    BY <1>4, NewerIsAnOrder DEF Above, Ranked
  <2> QED
    BY <1>2, <2>1, <2>2, FS_Subset
<1>5. \A i \in 0..(n - 1) : \E e \in S : Cardinality(Above(S, e)) = i
  <2>1. r \in Injection(S, 0..(n - 1))
    <3>1. ASSUME NEW e \in S, NEW f \in S, r[e] = r[f] PROVE e = f
      BY <1>2, <1>4, <3>1 DEF Ranked
    <3>2. r \in [S -> 0..(n - 1)]
      BY <1>3
    <3> QED
      BY <3>1, <3>2 DEF Injection, IsInjective
  <2>2. IsFiniteSet(0..(n - 1)) /\ Cardinality(0..(n - 1)) = n
    BY <1>1, FS_Interval
  <2>3. r \in Surjection(S, 0..(n - 1))
    <3> DEFINE T == 0..(n - 1)
    <3> HIDE DEF r, T
    <3>1. r \in Injection(S, T) /\ IsFiniteSet(T) /\ Cardinality(T) = Cardinality(S)
      BY <2>1, <2>2 DEF T
    <3>2. r \in Surjection(S, T)
      BY <3>1, FS_Injection
    <3> QED
      BY <3>2 DEF T
  <2> QED
    BY <2>3 DEF Surjection
<1>6. ASSUME NEW i \in 1..n PROVE \E e \in S : Cardinality(Above(S, e)) = i - 1
  <2>1. i - 1 \in 0..(n - 1)
    BY <1>1
  <2> QED
    BY <1>5, <2>1
<1> QED
  BY <1>1, <1>3, <1>4, <1>6

(* The query answers with every row once, the newest first.                *)
LEMMA QuerySorts ==
  ASSUME NEW S, Ranked(S)
  PROVE  LET q == newestFirst(S) IN
         /\ q \in Seq(S) /\ Len(q) = Cardinality(S) /\ Len(q) \in Nat
         /\ \A i, j \in 1..Len(q) : i < j => Newer(q[i], q[j])
         /\ \A e \in S : \E i \in 1..Len(q) : q[i] = e
<1> DEFINE q == newestFirst(S)
           n == Cardinality(S)
<1>1. n \in Nat
  BY RanksAreTaken
<1>2. \A i \in 1..n : q[i] \in S /\ Cardinality(Above(S, q[i])) = i - 1
  <2> SUFFICES ASSUME NEW i \in 1..n
               PROVE  q[i] \in S /\ Cardinality(Above(S, q[i])) = i - 1
    OBVIOUS
  <2>1. q[i] = CHOOSE e \in S : Cardinality(Above(S, e)) = i - 1
    BY DEF newestFirst, Above
  <2>2. \E e \in S : Cardinality(Above(S, e)) = i - 1
    BY RanksAreTaken
  <2> HIDE DEF q, n
  <2> QED
    BY <2>1, <2>2
<1>3. q \in Seq(S) /\ Len(q) = n
  <2> DEFINE C(i) == CHOOSE e \in S : Cardinality({f \in S : Newer(f, e)}) = i - 1
  <2>1. q = [i \in 1..n |-> C(i)]
    BY DEF newestFirst
  <2> HIDE DEF q, n, C
  <2>2. q \in [1..n -> S]
    BY <1>1, <1>2, <2>1
  <2> QED
    BY <1>1, <2>2
<1>4. ASSUME NEW i \in 1..n, NEW j \in 1..n, i < j PROVE Newer(q[i], q[j])
  <2>1. q[i] = q[j] \/ Newer(q[i], q[j]) \/ Newer(q[j], q[i])
    BY <1>2 DEF Ranked
  <2> HIDE DEF q, n
  <2>2. /\ i \in Int /\ j \in Int
        /\ Cardinality(Above(S, q[i])) = i - 1 /\ Cardinality(Above(S, q[j])) = j - 1
    BY <1>1, <1>2
  <2>3. ~Newer(q[j], q[i])
    BY <1>2, <1>4, <2>2, RanksAreTaken
  <2> QED
    BY <1>4, <2>1, <2>2, <2>3
<1>5. ASSUME NEW e \in S PROVE \E i \in 1..n : q[i] = e
  <2> DEFINE i == Cardinality(Above(S, e)) + 1
  <2> HIDE DEF q
  <2>1. i \in 1..n /\ Cardinality(Above(S, e)) = i - 1
    BY <1>1, RanksAreTaken
  <2>2. q[i] = e \/ Newer(q[i], e) \/ Newer(e, q[i])
    BY <1>2, <2>1 DEF Ranked
  <2>3. q[i] \in S /\ Cardinality(Above(S, q[i])) = Cardinality(Above(S, e))
    BY <1>2, <2>1
  <2>4. ~(Cardinality(Above(S, e)) < Cardinality(Above(S, e)))
    BY RanksAreTaken
  <2> QED
    BY <2>1, <2>2, <2>3, <2>4, RanksAreTaken
<1> QED
  BY <1>1, <1>3, <1>4, <1>5

Below(c) == {e \in rows : e.block < c}

(* One request for a page.                                                 *)
LEMMA PageOf ==
  ASSUME Ranked(rows), NEW c \in Int
  PROVE  LET p == page(c) IN
         /\ p.hasMore \in BOOLEAN
         /\ p.events \in Seq(Below(c))
         /\ \A i, j \in 1..Len(p.events) : i < j => Newer(p.events[i], p.events[j])
         /\ ~p.hasMore => \A e \in Below(c) : \E i \in 1..Len(p.events) : p.events[i] = e
         /\ p.hasMore =>
              /\ Len(p.events) = Limit /\ p.nextCursor = p.events[Limit].block
              /\ p.nextCursor \in 0..(c - 1)
              /\ \A e \in Below(c) : \/ \E i \in 1..Limit : p.events[i] = e
                                     \/ Newer(p.events[Limit], e)
<1> DEFINE S == Below(c)
           q == newestFirst(S)
           shown == SubSeq(q, 1, Min({Limit, Len(q)}))
<1>1. Ranked(S)
  BY DEF Ranked, Below
<1>2. /\ q \in Seq(S) /\ Len(q) \in Nat
      /\ \A i, j \in 1..Len(q) : i < j => Newer(q[i], q[j])
      /\ \A e \in S : \E i \in 1..Len(q) : q[i] = e
  BY <1>1, QuerySorts
<1>3. Limit \in Nat \ {0}
  BY IndexerAssumption
<1>4. page(c) = [events |-> shown, hasMore |-> Len(q) > Limit,
                 nextCursor |-> IF Len(q) > Limit THEN Last(shown).block ELSE NoBlock]
  BY DEF page, Below
<1>5. \A e \in S : e.block \in 1..MaxBlock /\ e.block < c
  BY DEF Ranked, Below, Event
<1> HIDE DEF S, q
<1>6. PICK k, m : k = Len(q) /\ m = Min({Limit, k})
  OBVIOUS
<1>7. k \in Nat /\ m \in Nat /\ m <= k /\ m = IF k > Limit THEN Limit ELSE k
  <2>1. k \in Int /\ Limit \in Int /\ k >= 0 /\ Limit >= 0
    BY <1>2, <1>3, <1>6
  <2>2. m = IF Limit <= k THEN Limit ELSE k
    BY <1>6, <2>1, MinOfTwo
  <2> QED
    BY <2>1, <2>2
<1>8. shown \in Seq(S) /\ Len(shown) = m /\ \A i \in 1..m : shown[i] = q[i]
  <2>1. shown = SubSeq(q, 1, m)
    BY <1>6
  <2>2. m \in 0..Len(q)
    BY <1>6, <1>7
  <2> HIDE DEF shown
  <2> QED
    BY <1>2, <2>1, <2>2, Prefix
<1> HIDE DEF shown
<1>9. ASSUME NEW i \in 1..m, NEW j \in 1..m, i < j PROVE Newer(shown[i], shown[j])
  <2>1. i \in 1..k /\ j \in 1..k /\ Newer(q[i], q[j])
    BY <1>2, <1>6, <1>7, <1>9
  <2> QED
    BY <1>8, <2>1
<1>10. page(c).events = shown /\ page(c).hasMore \in BOOLEAN /\ (page(c).hasMore <=> Len(q) > Limit)
  <2> DEFINE more == Len(q) > Limit
  <2>1. more \in BOOLEAN /\ (more <=> Len(q) > Limit)
    OBVIOUS
  <2>2. PICK b : page(c) = [events |-> shown, hasMore |-> more, nextCursor |-> b]
    BY <1>4
  <2> HIDE DEF more
  <2> QED
    BY <2>1, <2>2
<1>11. CASE Len(q) > Limit
  <2>0. m = Limit /\ Len(shown) = Limit
    BY <1>6, <1>7, <1>8, <1>11
  <2>1. m = Limit /\ Last(shown) = shown[Limit] /\ shown[Limit] \in S
    BY <1>3, <1>8, <2>0 DEF Last
  <2>2. shown[Limit].block \in 0..(c - 1)
    BY <1>5, <2>1
  <2>3. ASSUME NEW e \in S PROVE (\E i \in 1..Limit : shown[i] = e) \/ Newer(shown[Limit], e)
    <3>1. PICK i \in 1..Len(q) : q[i] = e
      BY <1>2
    <3>2. CASE i <= Limit
      BY <1>3, <1>8, <2>1, <3>1, <3>2
    <3>3. CASE ~(i <= Limit)
      <4>1. Limit \in 1..Len(q) /\ Limit < i /\ Limit \in 1..m
        BY <1>3, <1>6, <1>7, <1>11, <2>1, <3>1, <3>3
      <4> QED
        BY <1>2, <1>8, <3>1, <4>1
    <3> QED
      BY <3>2, <3>3
  <2> QED
    <3>0. PICK b : b = Last(shown).block
      OBVIOUS
    <3>1. page(c).hasMore = TRUE /\ page(c).events = shown /\ page(c).nextCursor = shown[Limit].block
      <4>1. page(c) = [events |-> shown, hasMore |-> TRUE, nextCursor |-> b]
        BY <1>4, <1>11, <3>0
      <4> QED
        BY <2>1, <3>0, <4>1
    <3>2. Len(shown) = Limit
      BY <1>8, <2>1
    <3> QED
      BY <1>8, <1>9, <2>1, <2>2, <2>3, <3>1, <3>2 DEF S
<1>12. CASE ~(Len(q) > Limit)
  <2>1. m = Len(q) /\ \A e \in S : \E i \in 1..m : shown[i] = e
    BY <1>2, <1>6, <1>7, <1>8, <1>12
  <2>2. page(c).events = shown /\ page(c).hasMore \in BOOLEAN /\ ~page(c).hasMore
    BY <1>12, <1>10
  <2> QED
    BY <1>8, <1>9, <2>1, <2>2 DEF S
<1> QED
  BY <1>11, <1>12

(* A function that asks for its own value at smaller numbers only exists.  *)
LEMMA ChainDefined ==
  ASSUME NEW N \in Nat, NEW P, \A c \in 0..N : P[c].hasMore => P[c].nextCursor \in 0..(c - 1)
  PROVE  \E g : g = [c \in 0..N |-> IF P[c].hasMore THEN P[c].events \o g[P[c].nextCursor]
                                                    ELSE P[c].events]
<1> DEFINE Value(g, c) == IF P[c].hasMore THEN P[c].events \o g[P[c].nextCursor] ELSE P[c].events
           Fits(g, n) == \A c \in 0..n : g[c] = Value(g, c)
           Total(g) == g = [c \in 0..N |-> g[c]]
           Bad == {n \in 0..N : ~\E g : Total(g) /\ Fits(g, n)}
<1>1. ASSUME Bad # {} PROVE FALSE
  <2>0. Bad \subseteq Nat
    BY <1>1
  <2>1. PICK n \in Bad : \A m \in Bad : n <= m
    <3> HIDE DEF Bad
    <3> QED
      BY <1>1, <2>0, LeastNatural
  <2>2. n \in 0..N /\ ~\E g : Total(g) /\ Fits(g, n)
    BY <2>1
  <2>3. PICK g : n = 0 \/ Fits(g, n - 1)
    <3>1. CASE n = 0
      BY <3>1
    <3>2. CASE n # 0
      <4>1. n - 1 \in 0..N /\ n - 1 \notin Bad
        BY <2>1, <2>2, <3>2
      <4> QED
        BY <4>1
    <3> QED
      BY <3>1, <3>2
  <2> DEFINE h == [c \in 0..N |-> IF c = n THEN Value(g, n) ELSE g[c]]
  <2>4. ASSUME NEW c \in 0..n PROVE h[c] = Value(h, c)
    <3>1. c \in 0..N /\ (P[c].hasMore => /\ P[c].nextCursor \in 0..(c - 1)
                                         /\ h[P[c].nextCursor] = g[P[c].nextCursor])
      BY <2>2, <2>4
    <3>2. Value(h, c) = Value(g, c)
      <4> HIDE DEF h
      <4> QED
        BY <3>1
    <3>3. CASE c = n
      BY <3>1, <3>2, <3>3
    <3>4. CASE c # n
      <4>1. g[c] = Value(g, c)
        BY <2>2, <2>3, <2>4, <3>4
      <4> QED
        BY <3>1, <3>2, <3>4, <4>1
    <3> QED
      BY <3>3, <3>4
  <2>5. Total(h)
    OBVIOUS
  <2> HIDE DEF h
  <2> QED
    BY <2>2, <2>4, <2>5
<1>2. PICK g : Total(g) /\ Fits(g, N)
  BY <1>1
<1>3. g = [c \in 0..N |-> Value(g, c)]
  BY <1>2
<1> QED
  BY <1>3

LEMMA OlderPages ==
  ASSUME Ranked(rows), NEW c \in 0..(MaxBlock + 1)
  PROVE  loadOlder[c] = IF page(c).hasMore THEN page(c).events \o loadOlder[page(c).nextCursor]
                                           ELSE page(c).events
<1> DEFINE N == MaxBlock + 1
           P == [b \in 0..N |-> page(b)]
<1>1. N \in Nat
  BY IndexerAssumption
<1>2. \A b \in 0..N : P[b] = page(b) /\ (P[b].hasMore => P[b].nextCursor \in 0..(b - 1))
  BY PageOf
<1>3. \E g : g = [b \in 0..N |-> IF P[b].hasMore THEN P[b].events \o g[P[b].nextCursor]
                                                 ELSE P[b].events]
  <2> HIDE DEF N, P
  <2> QED
    BY <1>1, <1>2, ChainDefined
<1>4. \E g : g = [b \in 0..N |-> IF page(b).hasMore THEN page(b).events \o g[page(b).nextCursor]
                                                    ELSE page(b).events]
  <2> HIDE DEF P
  <2>1. PICK g : g = [b \in 0..N |-> IF P[b].hasMore THEN P[b].events \o g[P[b].nextCursor]
                                                     ELSE P[b].events]
    BY <1>3
  <2>2. [b \in 0..N |-> IF P[b].hasMore THEN P[b].events \o g[P[b].nextCursor] ELSE P[b].events]
      = [b \in 0..N |-> IF page(b).hasMore THEN page(b).events \o g[page(b).nextCursor]
                                           ELSE page(b).events]
    BY <1>2
  <2>3. g = [b \in 0..N |-> IF page(b).hasMore THEN page(b).events \o g[page(b).nextCursor]
                                               ELSE page(b).events]
    BY <2>1, <2>2, Zenon
  <2> QED
    BY <2>3, Zenon
<1>5. loadOlder = [b \in 0..N |-> IF page(b).hasMore
                                  THEN page(b).events \o loadOlder[page(b).nextCursor]
                                  ELSE page(b).events]
  BY <1>4 DEF loadOlder
<1> QED
  BY <1>5

(* What the screen shows of the rows below block c.                        *)
Shown(c, q) ==
  /\ q \in Seq(Below(c))
  /\ \A i \in 1..(Len(q) - 1) : Newer(q[i], q[i + 1])
  /\ \A e \in Below(c) :
       \E i \in 1..Len(q) : q[i] = e \/ (i % Limit = 0 /\ q[i].block = e.block)

LEMMA PagesAreOrdered ==
  ASSUME Ranked(rows), NEW c \in 0..(MaxBlock + 1)
  PROVE  Shown(c, loadOlder[c])
<1> DEFINE Bad == {b \in 0..(MaxBlock + 1) : ~Shown(b, loadOlder[b])}
<1>0. Limit \in Nat \ {0} /\ MaxBlock \in Nat
  BY IndexerAssumption
<1>1. ASSUME NEW b \in 0..(MaxBlock + 1), \A d \in 0..(b - 1) : Shown(d, loadOlder[d])
      PROVE  Shown(b, loadOlder[b])
  <2>1. PICK p : p = page(b)
    OBVIOUS
  <2>2. PICK ev, more, d : ev = p.events /\ more = p.hasMore /\ d = p.nextCursor
    OBVIOUS
  <2>3. loadOlder[b] = IF more THEN ev \o loadOlder[d] ELSE ev
    BY <2>1, <2>2, OlderPages
  <2>4. /\ ev \in Seq(Below(b)) /\ Len(ev) \in Nat
        /\ \A i, j \in 1..Len(ev) : i < j => Newer(ev[i], ev[j])
        /\ ~more => \A e \in Below(b) : \E i \in 1..Len(ev) : ev[i] = e
        /\ more => /\ Len(ev) = Limit /\ d = ev[Limit].block /\ d \in 0..(b - 1)
                   /\ \A e \in Below(b) : \/ \E i \in 1..Limit : ev[i] = e
                                          \/ Newer(ev[Limit], e)
    <3>1. b \in Int
      BY <1>0
    <3>2. /\ page(b).events \in Seq(Below(b))
          /\ \A i, j \in 1..Len(page(b).events) : i < j => Newer(page(b).events[i], page(b).events[j])
          /\ ~page(b).hasMore =>
               \A e \in Below(b) : \E i \in 1..Len(page(b).events) : page(b).events[i] = e
          /\ page(b).hasMore =>
               /\ Len(page(b).events) = Limit /\ page(b).nextCursor = page(b).events[Limit].block
               /\ page(b).nextCursor \in 0..(b - 1)
               /\ \A e \in Below(b) : \/ \E i \in 1..Limit : page(b).events[i] = e
                                      \/ Newer(page(b).events[Limit], e)
      BY <3>1, PageOf
    <3>3. Len(ev) \in Nat
      BY <2>1, <2>2, <3>2
    <3> QED
      BY <2>1, <2>2, <3>2, <3>3, Zenon
  <2>5. ASSUME NEW i \in 1..(Len(ev) - 1) PROVE Newer(ev[i], ev[i + 1])
    <3>1. i \in 1..Len(ev) /\ i + 1 \in 1..Len(ev) /\ i < i + 1
      BY <2>4
    <3> QED
      BY <2>4, <3>1
  <2>6. CASE ~more
    BY <2>3, <2>4, <2>5, <2>6 DEF Shown
  <2>7. CASE more
    <3>1. PICK q : q = loadOlder[d]
      OBVIOUS
    <3>2. Shown(d, q)
      BY <1>1, <2>4, <2>7, <3>1
    <3>3. q \in Seq(Below(d)) /\ Len(q) \in Nat /\ d \in 0..(b - 1) /\ Len(ev) = Limit
          /\ b \in Int /\ d = ev[Limit].block
      BY <1>0, <2>4, <2>7, <3>2 DEF Shown
    <3>4. Below(d) \subseteq Below(b) /\ \A e \in Below(b) : e \in Event /\ e.block \in Int
      BY <3>3 DEF Below, Ranked, Event
    <3>5. PICK r : r = ev \o q
      OBVIOUS
    <3>6. /\ r \in Seq(Below(b)) /\ Len(r) = Limit + Len(q)
          /\ \A i \in 1..Limit : r[i] = ev[i]
          /\ \A i \in 1..Len(q) : r[i + Limit] = q[i]
      <4>1. q \in Seq(Below(b))
        BY <3>3, <3>4
      <4> QED
        <5>1. ev \in Seq(Below(b))
          BY <2>4
        <5>2. /\ ev \o q \in Seq(Below(b)) /\ Len(ev \o q) = Len(ev) + Len(q)
              /\ \A i \in 1..Len(ev) : (ev \o q)[i] = ev[i]
              /\ \A i \in 1..Len(q) : (ev \o q)[i + Len(ev)] = q[i]
          BY <4>1, <5>1, Joined
        <5> QED
          BY <3>3, <3>5, <5>2
    <3>7. ASSUME NEW i \in 1..(Len(r) - 1) PROVE Newer(r[i], r[i + 1])
      <4>1. CASE i < Limit
        <5>1. i \in 1..Limit /\ i + 1 \in 1..Limit /\ i \in 1..(Len(ev) - 1)
          BY <1>0, <3>3, <4>1
        <5> QED
          BY <2>5, <3>6, <5>1
      <4>2. CASE i = Limit
        <5>0. 1 \in 1..Len(q) /\ i + 1 = 1 + Limit /\ i \in 1..Limit
          BY <1>0, <3>3, <3>6, <4>2
        <5>1. q[1] \in Below(d) /\ r[i + 1] = q[1] /\ r[i] = ev[Limit] /\ ev[Limit] \in Below(b)
          <6>1. q[1] \in Below(d)
            BY <3>3, <5>0
          <6>2. r[i + 1] = q[1] /\ r[i] = ev[Limit]
            BY <3>6, <4>2, <5>0
          <6>3. ev[Limit] \in Below(b)
            BY <1>0, <2>4, <3>3
          <6> QED
            BY <6>1, <6>2, <6>3
        <5>2. q[1].block \in Int /\ q[1].block < ev[Limit].block
          BY <3>3, <3>4, <5>1 DEF Below
        <5> QED
          BY <3>3, <5>1, <5>2 DEF Newer
      <4>3. CASE i > Limit
        <5>1. PICK k : k = i - Limit
          OBVIOUS
        <5>2. k \in 1..(Len(q) - 1) /\ i = k + Limit /\ i + 1 = (k + 1) + Limit /\ k + 1 \in 1..Len(q)
          BY <1>0, <3>3, <3>6, <4>3, <5>1
        <5>3. r[i] = q[k] /\ r[i + 1] = q[k + 1]
          <6>1. k \in 1..Len(q)
            BY <3>3, <5>2
          <6> QED
            BY <3>6, <5>2, <6>1
        <5> QED
          BY <3>2, <5>2, <5>3 DEF Shown
      <4> QED
        BY <1>0, <3>3, <3>6, <4>1, <4>2, <4>3
    <3>8. ASSUME NEW e \in Below(b)
          PROVE  \E i \in 1..Len(r) : r[i] = e \/ (i % Limit = 0 /\ r[i].block = e.block)
      <4>1. CASE \E i \in 1..Limit : ev[i] = e
        BY <1>0, <3>3, <3>6, <4>1
      <4>2. CASE Newer(ev[Limit], e) /\ e.block = d
        <5>1. Limit % Limit = 0
          BY <1>0
        <5> QED
          BY <1>0, <3>3, <3>6, <4>2, <5>1
      <4>3. CASE Newer(ev[Limit], e) /\ e.block # d
        <5>1. e \in Below(d)
          BY <3>3, <3>4, <4>3 DEF Newer, Below
        <5>2. PICK k \in 1..Len(q) : q[k] = e \/ (k % Limit = 0 /\ q[k].block = e.block)
          BY <3>2, <5>1 DEF Shown
        <5>3. PICK i : i = k + Limit
          OBVIOUS
        <5>4. i \in 1..Len(r) /\ r[i] = q[k]
          BY <1>0, <3>3, <3>6, <5>3
        <5>5. k % Limit = 0 => i % Limit = 0
          BY <1>0, <3>3, <5>3, OnePageOn
        <5> QED
          BY <5>2, <5>4, <5>5
      <4> QED
        BY <2>4, <2>7, <4>1, <4>2, <4>3
    <3> QED
      <4>1. Shown(b, r)
        BY <3>6, <3>7, <3>8 DEF Shown
      <4> QED
        BY <2>3, <2>7, <3>1, <3>5, <4>1
  <2> QED
    BY <2>6, <2>7
<1>2. Bad = {}
  <2> SUFFICES ASSUME Bad # {} PROVE FALSE
    OBVIOUS
  <2>0. Bad \subseteq Nat
    BY <1>0
  <2>1. PICK n \in Bad : \A m \in Bad : n <= m
    <3> HIDE DEF Bad
    <3> QED
      BY <2>0, LeastNatural
  <2>2. \A d \in 0..(n - 1) : Shown(d, loadOlder[d])
    <3> SUFFICES ASSUME NEW d \in 0..(n - 1), ~Shown(d, loadOlder[d]) PROVE FALSE
      OBVIOUS
    <3>1. d \in Bad /\ d \in Int /\ n \in Int /\ d < n
      BY <1>0, <2>1
    <3> QED
      BY <2>1, <3>1
  <2> QED
    BY <1>1, <2>1, <2>2
<1> QED
  BY <1>2

LEMMA OneContractStep ==
  ASSUME AuditTypeOK, ChainFacts, OneContract, [AuditNext]_vars
  PROVE  OneContract'
<1>0. /\ \A e \in rows' : Known(e)
      /\ \A s \in Sync : \A e \in sync'[s].batch : Known(e)
      /\ \A e \in emitted : Known(e)
  BY EventsMove DEF Known
<1>1. ASSUME \A e \in emitted' : Known(e) PROVE OneContract'
  BY <1>0, <1>1 DEF OneContract, Known
<1>2. ASSUME NEW c \in Contract, NEW n \in PerBlock, mine(c, n) PROVE OneContract'
  <2>1. PICK S \in SUBSET Event : Fresh(S) /\ emitted' = emitted \cup S
                                  /\ \A e \in S : e.contract = c
    <3> DEFINE S == {[chain |-> chain, contract |-> c, block |-> height + 1, log |-> l]
                       : l \in 0..(n - 1)}
    <3>1. emitted' = emitted \cup S /\ \A e \in S : e.contract = c
      BY <1>2 DEF mine
    <3>2. PICK T \in SUBSET Event : Fresh(T) /\ emitted' = emitted \cup T
      BY <1>2, MineAdds
    <3>3. Fresh(T \cap S) /\ T \cap S \in SUBSET Event /\ emitted' = emitted \cup (T \cap S)
          /\ \A e \in T \cap S : e.contract = c
      <4> HIDE DEF S
      <4>1. \A e \in T : e \notin emitted
        BY <3>2 DEF Fresh, ChainFacts, AuditTypeOK
      <4> QED
        BY <3>1, <3>2, <4>1 DEF Fresh
    <3> HIDE DEF S
    <3> QED
      BY <3>3
  <2>2. \A e \in Event : Known(e)' => Known(e) \/ e \in S
    BY <1>0, <2>1 DEF Known
  <2>3. \A e \in Event : Known(e) /\ e.chain = chain => e.block <= height
    BY DEF Known, ChainFacts
  <2>4. height \in Int /\ \A e \in S : e.chain = chain /\ e.block = height + 1 /\ e.contract = c
    BY <2>1 DEF Fresh, AuditTypeOK
  <2> QED
    BY <2>2, <2>3, <2>4 DEF OneContract
<1>3. CASE restart
  BY <1>1, <1>3 DEF restart
<1>4. CASE UNCHANGED chainVars
  BY <1>0, <1>1, <1>4 DEF chainVars
<1> QED
  BY <1>2, <1>3, <1>4, ChainMoves

LEMMA RowsAreRanked ==
  ASSUME AuditTypeOK, OneContract
  PROVE  Ranked(rows)
<1>1. \A e \in rows : e \in Event /\ Known(e)
  BY DEF AuditTypeOK, Known
<1>2. ASSUME NEW e \in rows, NEW f \in rows PROVE e = f \/ Newer(e, f) \/ Newer(f, e)
  <2>1. e.chain = f.chain /\ e.block = f.block => e.contract = f.contract
    BY <1>1 DEF OneContract
  <2>2. e \in Event /\ f \in Event
    BY <1>1
  <2> QED
    BY <2>1, <2>2 DEF Newer, Event
<1> QED
  BY <1>1, <1>2 DEF Ranked

(* GET /api/audit and "load older" show the cache once, newest first, but  *)
(* for rows of a block in which a page ends: whatever the syncs do.        *)
THEOREM PagesComeInOrder == AuditSpec => []PagesInOrder
<1>1. AuditInit => OneContract
  BY DEF AuditInit, OneContract, Known, Idle
<1>2. IndexInv /\ OneContract /\ [AuditNext]_vars => OneContract'
  BY OneContractStep DEF IndexInv
<1>3. IndexInv /\ OneContract => PagesInOrder
  <2> SUFFICES ASSUME IndexInv, OneContract PROVE PagesInOrder
    OBVIOUS
  <2>1. PICK q : q = loadOlder[MaxBlock + 1]
    OBVIOUS
  <2>2. AuditTypeOK /\ Ranked(rows)
    BY RowsAreRanked DEF IndexInv
  <2>3. MaxBlock + 1 \in 0..(MaxBlock + 1)
    BY IndexerAssumption
  <2>4. Shown(MaxBlock + 1, q)
    BY <2>1, <2>2, <2>3, PagesAreOrdered
  <2>5. Below(MaxBlock + 1) = rows
    BY <2>2, IndexerAssumption DEF AuditTypeOK, Below, Event
  <2>6. q \in Seq(rows) /\ DOMAIN q = 1..Len(q)
    BY <2>4, <2>5 DEF Shown
  <2>7. ASSUME NEW e \in rows \ Range(q)
        PROVE  \E i \in DOMAIN q : i % Limit = 0 /\ q[i].block = e.block
    BY <2>4, <2>5, <2>6, <2>7 DEF Shown, Range
  <2> QED
    BY <2>1, <2>4, <2>7 DEF PagesInOrder, Shown
<1> QED
  BY <1>1, <1>2, <1>3, IndexInvAlways, PTL DEF AuditSpec
=============================================================================
