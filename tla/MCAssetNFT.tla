------------------------------- MODULE MCAssetNFT -------------------------------
(* AssetNFT for TLC: one organization, few roles and no applications, so   *)
(* that the state of the certificates can be explored.                     *)
EXTENDS VaultScreens

CONSTANTS w1, w2, w3

NoOverrides == {}
=============================================================================
