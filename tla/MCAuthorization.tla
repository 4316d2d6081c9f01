---------------------------- MODULE MCAuthorization ----------------------------
(***************************************************************************)
(* Authorization for TLC: one callback as it is registered, and in another *)
(* spelling, with a query, in which it may be requested and not registered.*)
(***************************************************************************)
EXTENDS Authorization, TLC

callbackUrl(query) ==
  [text |-> "web", long |-> FALSE, scheme |-> "https", host |-> "portal.test", port |-> "",
   path |-> "/callback", slashes |-> 0, query |-> query, fragment |-> "none", spelling |-> 0]

Spellings == {callbackUrl("none"), callbackUrl("text")}

(* The other requests disturb one consent and its code, or race for it.    *)
OneConsent == [page |-> 1, approve |-> 1, exchange |-> 2, verify |-> 1]

AuthSymmetry == Permutations(Request) \cup Permutations(App)
=============================================================================
