------------------------------- MODULE MCRecords -------------------------------
(* Records for TLC.                                                        *)
EXTENDS Records, TLC

CONSTANTS w1, w2

DemoPeople == <<w1, w2>>
FlowSymmetry == Permutations(Flow)
=============================================================================
