----------------------------- MODULE MCAccounts -----------------------------
(***************************************************************************)
(* Instances of Accounts for TLC: an administrator, two accounts yet to be *)
(* created, and two tenants.                                               *)
(***************************************************************************)
EXTENDS Accounts, TLC

CONSTANTS a1, x1, x2, e1, e2, e3, t1, t2, q1, q2

InitialEmailsDef  == (a1 :> e1) @@ [u \in Ids |-> None]
InitialTenantsDef == [u \in Ids |-> None]

\* Tenants, requests, and accounts and addresses yet to be used are alike.
Symmetry ==
  Permutations({x1, x2}) \cup Permutations(Emails \ {e1})
    \cup Permutations(Tenants) \cup Permutations(Requests)
=============================================================================
