-------------------------------- MODULE MCPortal --------------------------------
(***************************************************************************)
(* Portal on two browsers and two wallets, with one visit to the consent   *)
(* page more than it takes to sign in.                                     *)
(***************************************************************************)
EXTENDS Portal, TLC

Interchangeable ==
  Permutations(Request) \cup Permutations(Consent) \cup Permutations(Browser) \cup Permutations(Wallet)
=============================================================================
