----------------------------- MODULE MCAssetBinding -----------------------------
(* AssetBinding for TLC: the records of one organization, and tokens that  *)
(* it or another one mints.                                                *)
EXTENDS AssetBinding, TLC

CONSTANTS h1, h2, o1, o2, q1, q2

OneOrg == [h \in Hash |-> o1]

RequestSymmetry == Permutations(Request) \cup Permutations(Hash)
=============================================================================
