------------------------- MODULE MCApplicationRegistry -------------------------
(* ApplicationRegistry for TLC.                                            *)
EXTENDS ApplicationRegistry, TLC

AppsSymmetry == Permutations(AdminRequest) \cup Permutations(Url)
=============================================================================
