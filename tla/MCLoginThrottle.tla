-------------------------- MODULE MCLoginThrottle --------------------------
(***************************************************************************)
(* An instance of LoginThrottle for TLC: two accounts behind one address,  *)
(* so that the scopes of one attempt are shared with another.              *)
(***************************************************************************)
EXTENDS LoginThrottle

CONSTANTS e1, e2, i1, r1, r2
=============================================================================
