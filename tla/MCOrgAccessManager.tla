--------------------------- MODULE MCOrgAccessManager ---------------------------
(* OrgAccessManager for TLC. Each cfg opens one part of the contract wide  *)
(* and narrows the others with the *Args constants.                        *)
EXTENDS Screens, TLC

CONSTANTS w1, w2, w3

(* The wallets other than the deployer are interchangeable, and so are the *)
(* hashes: a cfg never names one of them alone.                            *)
AccessSymmetry == Permutations({w2, w3}) \cup Permutations(Hash)

NoOverrides     == {}
SomeOverrides   == {<<"ADMIN", "MANAGE_MEMBERS">>, <<"USER", "ASSIGN_ROLES">>}
=============================================================================
