----------------------------- MODULE MCScanPage -----------------------------
(***************************************************************************)
(* An instance of ScanPage for TLC: two launches on one page, with two     *)
(* polls in flight.                                                        *)
(***************************************************************************)
EXTENDS ScanPage

CONSTANTS s1, s2
=============================================================================
