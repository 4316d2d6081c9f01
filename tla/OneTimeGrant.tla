------------------------------ MODULE OneTimeGrant ------------------------------
(***************************************************************************)
(* What a one-time grant promises, for the nonces of wallet sign-in and    *)
(* the authorization codes of partner sign-in alike: a grant is issued     *)
(* once, at most one of the requests that present it is served, and        *)
(* whatever happens to it afterwards it is never good again.               *)
(***************************************************************************)
CONSTANTS Grant, Redeemer

VARIABLES
  state,  \* "unissued", "live" or "over"
  served  \* the requests that were told the grant is theirs

grantVars == <<state, served>>

Init ==
  /\ state = [g \in Grant |-> "unissued"]
  /\ served = [g \in Grant |-> {}]

Issue(g) ==
  /\ state[g] = "unissued"
  /\ state' = [state EXCEPT ![g] = "live"]
  /\ UNCHANGED served

Redeem(g, r) ==
  /\ state[g] = "live"
  /\ state' = [state EXCEPT ![g] = "over"]
  /\ served' = [served EXCEPT ![g] = {r}]

(* Purged, or consumed by a request that never learned of it.              *)
Drop(gs) ==
  /\ \A g \in gs : state[g] = "live"
  /\ state' = [g \in Grant |-> IF g \in gs THEN "over" ELSE state[g]]
  /\ UNCHANGED served

Next ==
  \/ \E g \in Grant : Issue(g)
  \/ \E g \in Grant, r \in Redeemer : Redeem(g, r)
  \/ \E gs \in SUBSET Grant : Drop(gs)

Spec == Init /\ [][Next]_grantVars

GrantTypeOK ==
  /\ state \in [Grant -> {"unissued", "live", "over"}]
  /\ served \in [Grant -> SUBSET Redeemer]

(* Two requests never both get the same grant, and none gets one that is   *)
(* still good.                                                             *)
ServedOnce ==
  \A g \in Grant :
    /\ \A r1, r2 \in served[g] : r1 = r2
    /\ served[g] # {} => state[g] = "over"
=============================================================================
