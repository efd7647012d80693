----------------------------- MODULE ScanStatus -----------------------------
(***************************************************************************)
(* What the platform promises about one scan, seen from the database: the  *)
(* progression PENDING -> RUNNING -> COMPLETED | FAILED documented on      *)
(* ScanStatus (backend/app/models/enums.py), where a terminal state is     *)
(* final, findings appear together with COMPLETED and at no other moment,  *)
(* and the deletion of a tenant takes its scans and their findings away.   *)
(* Nothing here mentions requests, queues or workers: ScanLifecycle says   *)
(* how they bring these transitions about and is shown to implement this.  *)
(***************************************************************************)
CONSTANT Scans              \* the identifiers a scan row can have

VARIABLES status,           \* [Scans -> Statuses]
          hasFindings       \* [Scans -> BOOLEAN]: result rows are stored

statusVars == <<status, hasFindings>>

Terminal == {"COMPLETED", "FAILED"}
Active   == {"PENDING", "RUNNING"}
Statuses == {"none", "deleted"} \cup Active \cup Terminal

Init ==
  /\ status = [s \in Scans |-> "none"]
  /\ hasFindings = [s \in Scans |-> FALSE]

Launch(s) ==
  /\ status[s] = "none"
  /\ status' = [status EXCEPT ![s] = "PENDING"]
  /\ UNCHANGED hasFindings

Claim(s) ==
  /\ status[s] = "PENDING"
  /\ status' = [status EXCEPT ![s] = "RUNNING"]
  /\ UNCHANGED hasFindings

\* The findings and the status that announces them are one transaction.
Complete(s) ==
  /\ status[s] = "RUNNING"
  /\ status' = [status EXCEPT ![s] = "COMPLETED"]
  /\ hasFindings' = [hasFindings EXCEPT ![s] = TRUE]

Fail(s) ==
  /\ status[s] \in Active
  /\ status' = [status EXCEPT ![s] = "FAILED"]
  /\ UNCHANGED hasFindings

\* Deleting a tenant cascades to every scan it owns, whatever their state.
Remove(S) ==
  /\ status' = [s \in Scans |-> IF s \in S /\ status[s] # "none"
                                THEN "deleted" ELSE status[s]]
  /\ hasFindings' = [s \in Scans |-> hasFindings[s] /\ s \notin S]

Next ==
  \/ \E s \in Scans : Launch(s) \/ Claim(s) \/ Complete(s) \/ Fail(s)
  \/ \E S \in SUBSET Scans : Remove(S)

Spec == Init /\ [][Next]_statusVars
=============================================================================
