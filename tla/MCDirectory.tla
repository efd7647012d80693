----------------------------- MODULE MCDirectory -----------------------------
(***************************************************************************)
(* Instances of Directory for TLC: two tenants and three targets to come, a *)
(* slug of a customer and one of an operator's workspace, two permitted     *)
(* ranges and a forbidden one, and two handlers.                           *)
(***************************************************************************)
EXTENDS Directory, TLC

\* Keys, requests and permitted ranges are alike.
Symmetry ==
  Permutations(Tenants) \cup Permutations(Targets) \cup Permutations(Requests)
    \cup Permutations(Ranges \ Forbidden)
=============================================================================
