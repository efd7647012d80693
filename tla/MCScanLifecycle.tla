-------------------------- MODULE MCScanLifecycle --------------------------
(***************************************************************************)
(* Instances of ScanLifecycle for TLC.  Two scans of one tenant and one of *)
(* another are enough for two requests to race for a quota of one while    *)
(* another tenant's scan competes for the workers.                         *)
(***************************************************************************)
EXTENDS ScanLifecycle, TLC

CONSTANTS s1, s2, s3, t1, t2, w1, w2

OwnerOne == [s \in Scans |-> t1]
OwnerTwo == [s \in Scans |-> IF s = s3 THEN t2 ELSE t1]

\* Handlers and scans are exchangeable within a tenant, workers everywhere.
WorkerSymmetry == Permutations(Workers)
=============================================================================
