------------------------------- MODULE MCConsole -------------------------------
(***************************************************************************)
(* Console with one write of any kind but a plain dialog (a registration   *)
(* is a dialog with more steps), two requests for lists at a time and two  *)
(* things that people or the wallet do meanwhile.                          *)
(***************************************************************************)
EXTENDS Console, TLC

Interchangeable == Permutations(Run) \cup Permutations(Load) \cup Permutations(Org)
=============================================================================
