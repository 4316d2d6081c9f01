----------------------------- MODULE MCAuditIndexer -----------------------------
(* AuditIndexer for TLC.                                                   *)
EXTENDS AuditIndexer, TLC

CONSTANTS c1, c2, s1, s2

OneContract  == <<c1>>
TwoContracts == <<c1, c2>>
SyncSymmetry == Permutations(Sync)
=============================================================================
