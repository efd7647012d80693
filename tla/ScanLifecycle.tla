--------------------------- MODULE ScanLifecycle ---------------------------
(***************************************************************************)
(* The life of a scan across the three processes that share it:            *)
(*                                                                         *)
(*   - the API handler of POST /scans/launch, which checks the tenant's    *)
(*     quota, commits a PENDING row, sends a task and records the launch   *)
(*     in the audit trail, each step in a transaction of its own;          *)
(*   - the broker, which delivers the task at least once (late             *)
(*     acknowledgement, redelivery of a lost or overdue task);             *)
(*   - the worker processes, whose task claims the row, runs Nmap outside  *)
(*     any transaction, stores the findings and finishes the row, and on   *)
(*     any exception records FAILED in a fresh transaction.                *)
(*                                                                         *)
(* One action is one transaction or one interaction with the broker.  The  *)
(* handler that creates scan s is named by s itself.                       *)
(***************************************************************************)
EXTENDS Naturals, FiniteSets

CONSTANTS
  Scans,          \* scan identifiers, each used by at most one request
  Tenants,        \* ISP customers and operators' ad-hoc workspaces
  Owner,          \* [Scans -> Tenants]: the tenant a request acts for
  Workers,        \* worker processes consuming the "scans" queue
  Scannable,      \* scans whose targets the workers' own policy accepts
  MaxConcurrent,  \* settings.max_concurrent_scans_per_tenant
  MaxHandlers,    \* requests of one tenant between its quota check and its insert
  MaxCopies,      \* messages one send_task can leave in the broker
  Faults,         \* the failures the environment may inject, see FaultKinds
  NoScan,         \* the job of an idle worker
  NoRun           \* the author of findings that were never stored

(***************************************************************************)
(* "api":        an API process dies, or its next commit fails.            *)
(* "send":       send_task raises although the broker took the message,    *)
(*               or its publish retry leaves two.                          *)
(* "broker":     send_task raises an exception that its handler does not   *)
(*               catch: the OperationalError of an unreachable broker.     *)
(* "kill":       a worker process dies at any point of its task.           *)
(* "visibility": an unacknowledged delivery outlives the visibility        *)
(*               timeout of the Redis broker and is delivered again.       *)
(* "db":         a transaction of a worker is aborted by the database.     *)
(* "limit":      the hard time limit kills a task, which the broker then   *)
(*               counts as handled.                                        *)
(***************************************************************************)
FaultKinds == {"api", "send", "broker", "kill", "visibility", "db", "limit"}

ASSUME ConstantsAssumption ==
  /\ IsFiniteSet(Scans)
  /\ Owner \in [Scans -> Tenants]
  /\ Scannable \subseteq Scans
  /\ MaxConcurrent \in Nat \ {0}
  /\ MaxHandlers \in Nat \ {0}
  /\ MaxCopies \in Nat \ {0}
  /\ Faults \subseteq FaultKinds
  /\ NoScan \notin Scans
  /\ NoRun \notin Workers

VARIABLES
  tenants,    \* tenants that exist
  api,        \* [Scans -> HandlerPhases]: the request that creates the scan
  row,        \* [Scans -> Statuses]: scans.status, or no row
  stamped,    \* [Scans -> BOOLEAN]: scans.finished_at is not NULL
  findings,   \* [Scans -> Workers or NoRun]: who wrote scan_results
  trail,      \* scans with a SCAN_LAUNCHED event in audit_events
  queue,      \* [Scans -> Nat]: deliverable messages
  phase,      \* [Workers -> WorkerPhases]
  job,        \* [Workers -> Scans or NoScan]: the scan of the current task
  claimed,    \* [Workers -> BOOLEAN]: this task's own claim committed
  leased      \* [Workers -> BOOLEAN]: the broker still holds the delivery for it

dbVars     == <<tenants, row, stamped, findings, trail>>
workerVars == <<phase, job, claimed, leased>>
vars       == <<dbVars, api, queue, workerVars>>

HandlerPhases == {"idle", "admitted", "created", "undispatched", "queued",
                  "done", "refused", "gone"}
WorkerPhases  == {"idle", "claiming", "scanning", "storing", "comparing",
                  "failing", "acking"}
ActiveStatuses   == {"PENDING", "RUNNING"}
TerminalStatuses == {"COMPLETED", "FAILED"}
Statuses == {"none", "deleted"} \cup ActiveStatuses \cup TerminalStatuses
Stored   == ActiveStatuses \cup TerminalStatuses

TypeOK ==
  /\ tenants \subseteq Tenants
  /\ api \in [Scans -> HandlerPhases]
  /\ row \in [Scans -> Statuses]
  /\ stamped \in [Scans -> BOOLEAN]
  /\ findings \in [Scans -> Workers \cup {NoRun}]
  /\ trail \subseteq Scans
  /\ queue \in [Scans -> Nat]
  /\ phase \in [Workers -> WorkerPhases]
  /\ job \in [Workers -> Scans \cup {NoScan}]
  /\ claimed \in [Workers -> BOOLEAN]
  /\ leased \in [Workers -> BOOLEAN]

ScansOf(t)  == {s \in Scans : Owner[s] = t}
Active(t)   == {s \in ScansOf(t) : row[s] \in ActiveStatuses}
Admitted(t) == {s \in ScansOf(t) : api[s] = "admitted"}

Init ==
  /\ tenants = Tenants
  /\ api = [s \in Scans |-> "idle"]
  /\ row = [s \in Scans |-> "none"]
  /\ stamped = [s \in Scans |-> FALSE]
  /\ findings = [s \in Scans |-> NoRun]
  /\ trail = {}
  /\ queue = [s \in Scans |-> 0]
  /\ phase = [w \in Workers |-> "idle"]
  /\ job = [w \in Workers |-> NoScan]
  /\ claimed = [w \in Workers |-> FALSE]
  /\ leased = [w \in Workers |-> FALSE]

(***************************************************************************)
(* The API handler                                                         *)
(***************************************************************************)
HandlerMoves(s, from, to) ==
  /\ api[s] = from
  /\ api' = [api EXCEPT ![s] = to]

\* Mutant of UnderQuota: off by one.
UpToQuota(t) == Cardinality(Active(t)) <= MaxConcurrent

\* The quota is a count of the tenant's active rows at this moment; nothing
\* is locked, so other handlers of the tenant may pass the same check.
UnderQuota(t) == Cardinality(Active(t)) < MaxConcurrent

Admit(s) ==
  /\ UnderQuota(Owner[s])
  /\ Cardinality(Admitted(Owner[s])) < MaxHandlers
  /\ HandlerMoves(s, "idle", "admitted")
  /\ UNCHANGED <<dbVars, queue, workerVars>>

\* 409: the quota is exhausted.
RefuseQuota(s) ==
  /\ ~UnderQuota(Owner[s])
  /\ HandlerMoves(s, "idle", "refused")
  /\ UNCHANGED <<dbVars, queue, workerVars>>

\* 422: no target is scannable under the platform policy.
RefuseTargets(s) ==
  /\ HandlerMoves(s, "admitted", "refused")
  /\ UNCHANGED <<dbVars, queue, workerVars>>

\* The insert of the PENDING row; its foreign key fails, and with it the
\* request, when the tenant was deleted since the request began.
Create(s) ==
  /\ Owner[s] \in tenants
  /\ HandlerMoves(s, "admitted", "created")
  /\ row' = [row EXCEPT ![s] = "PENDING"]
  /\ UNCHANGED <<tenants, stamped, findings, trail, queue, workerVars>>

CreateWithoutTenant(s) ==
  /\ Owner[s] \notin tenants
  /\ HandlerMoves(s, "admitted", "gone")
  /\ UNCHANGED <<dbVars, queue, workerVars>>

\* send_task returns: the message is in the broker, or several copies of it
\* when the publish itself was retried.
Dispatch(s) ==
  /\ HandlerMoves(s, "created", "queued")
  /\ \E n \in 1..MaxCopies :
       /\ n > 1 => "send" \in Faults
       /\ queue' = [queue EXCEPT ![s] = n]
  /\ UNCHANGED <<dbVars, workerVars>>

\* send_task raises: the message did not arrive, or it did and only the
\* confirmation was lost.
SendRaises(s) ==
  \E n \in 0..MaxCopies :
    /\ n > 0 => "send" \in Faults
    /\ queue' = [queue EXCEPT ![s] = n]

\* What it raised is a CeleryError or an OSError, which the handler catches.
DispatchError(s) ==
  /\ HandlerMoves(s, "created", "undispatched")
  /\ SendRaises(s)
  /\ UNCHANGED <<dbVars, workerVars>>

\* What it raised is neither, as the OperationalError into which Celery turns
\* every error of the connection to its broker: the request ends in a 500, and
\* the committed row stays as it is.
DispatchUncaught(s) ==
  /\ "broker" \in Faults
  /\ HandlerMoves(s, "created", "gone")
  /\ SendRaises(s)
  /\ UNCHANGED <<dbVars, workerVars>>

\* 503: the handler writes FAILED by primary key, whatever the status is by
\* now, and leaves finished_at as it is.  If the row is gone the update
\* matches nothing and the request ends in an error instead.
FailUndispatched(s) ==
  /\ HandlerMoves(s, "undispatched", IF row[s] \in Stored THEN "refused" ELSE "gone")
  /\ row' = [row EXCEPT ![s] = IF @ \in Stored THEN "FAILED" ELSE @]
  /\ UNCHANGED <<tenants, stamped, findings, trail, queue, workerVars>>

\* The audit event is committed after the row and the message, on its own.
RecordLaunch(s) ==
  /\ HandlerMoves(s, "queued", "done")
  /\ trail' = trail \cup {s}
  /\ UNCHANGED <<tenants, row, stamped, findings, queue, workerVars>>

ApiCrash(s) ==
  /\ "api" \in Faults
  /\ api[s] \in {"admitted", "created", "undispatched", "queued"}
  /\ api' = [api EXCEPT ![s] = "gone"]
  /\ UNCHANGED <<dbVars, queue, workerVars>>

\* DELETE /tenants/{id}: the cascade takes the tenant's scans and findings;
\* messages already queued and the audit trail stay.
DeleteTenant(t) ==
  /\ t \in tenants
  /\ tenants' = tenants \ {t}
  /\ row' = [s \in Scans |-> IF Owner[s] = t /\ row[s] # "none"
                             THEN "deleted" ELSE row[s]]
  /\ stamped' = [s \in Scans |-> stamped[s] /\ Owner[s] # t]
  /\ findings' = [s \in Scans |-> IF Owner[s] = t THEN NoRun ELSE findings[s]]
  /\ UNCHANGED <<trail, api, queue, workerVars>>

(***************************************************************************)
(* The worker task                                                         *)
(***************************************************************************)
WorkerMoves(w, from, to) ==
  /\ phase[w] = from
  /\ phase' = [phase EXCEPT ![w] = to]

\* Mutant of Receive: delivers a message that is not there.
ReceiveAnything(w, s) ==
  /\ WorkerMoves(w, "idle", "claiming")
  /\ queue' = [queue EXCEPT ![s] = @ - 1]
  /\ job' = [job EXCEPT ![w] = s]
  /\ leased' = [leased EXCEPT ![w] = TRUE]
  /\ UNCHANGED <<dbVars, api, claimed>>

Receive(w, s) ==
  /\ WorkerMoves(w, "idle", "claiming")
  /\ queue[s] > 0
  /\ queue' = [queue EXCEPT ![s] = @ - 1]
  /\ job' = [job EXCEPT ![w] = s]
  /\ leased' = [leased EXCEPT ![w] = TRUE]
  /\ UNCHANGED <<dbVars, api, claimed>>

\* Mutant of Claimable: resumes a scan that is RUNNING.
ClaimableUnlessFinished(s) == row[s] \in ActiveStatuses

\* The conditional UPDATE ... WHERE status = 'PENDING' of claim_scan.
Claimable(s) == row[s] = "PENDING"

\* The first transaction commits: the row is RUNNING and this task's.
Claim(w) ==
  /\ WorkerMoves(w, "claiming", "scanning")
  /\ Claimable(job[w])
  /\ job[w] \in Scannable
  /\ row' = [row EXCEPT ![job[w]] = "RUNNING"]
  /\ claimed' = [claimed EXCEPT ![w] = TRUE]
  /\ UNCHANGED <<tenants, stamped, findings, trail, api, queue, job, leased>>

\* Mutant of Skip: the exception sends the message back to the queue.
SkipAndRequeue(w) ==
  /\ phase[w] = "claiming"
  /\ ~Claimable(job[w])
  /\ phase' = [phase EXCEPT ![w] = "idle"]
  /\ queue' = [queue EXCEPT ![job[w]] = @ + 1]
  /\ job' = [job EXCEPT ![w] = NoScan]
  /\ leased' = [leased EXCEPT ![w] = FALSE]
  /\ UNCHANGED <<dbVars, api, claimed>>

\* ScanAlreadyHandledError: the row is not pending, or is gone; the task ends
\* without touching it.
Skip(w) ==
  /\ WorkerMoves(w, "claiming", "acking")
  /\ ~Claimable(job[w])
  /\ UNCHANGED <<dbVars, api, queue, job, claimed, leased>>

\* TargetNotPermittedError: the worker checks the message's targets again,
\* under its own settings; the transaction is rolled back, the claim with it.
RejectTargets(w) ==
  /\ WorkerMoves(w, "claiming", "failing")
  /\ Claimable(job[w])
  /\ job[w] \notin Scannable
  /\ UNCHANGED <<dbVars, api, queue, job, claimed, leased>>

\* Any other exception of the first transaction, before it is known whether
\* the scan is this task's to run.
ClaimError(w) ==
  /\ "db" \in Faults
  /\ WorkerMoves(w, "claiming", "failing")
  /\ UNCHANGED <<dbVars, api, queue, job, claimed, leased>>

NmapReturns(w) ==
  /\ WorkerMoves(w, "scanning", "storing")
  /\ UNCHANGED <<dbVars, api, queue, job, claimed, leased>>

\* Mutant of NmapFails: the exception does not reach _mark_failed.
NmapFailsQuietly(w) ==
  /\ WorkerMoves(w, "scanning", "acking")
  /\ UNCHANGED <<dbVars, api, queue, job, claimed, leased>>

\* A timeout, a non-zero exit, an oversized or unparseable report, or the
\* soft time limit.
NmapFails(w) ==
  /\ WorkerMoves(w, "scanning", "failing")
  /\ UNCHANGED <<dbVars, api, queue, job, claimed, leased>>

\* Mutant of Finish: the UPDATE does not look at the current status.
FinishAnyway(s, status) ==
  /\ row' = [row EXCEPT ![s] = IF @ \in Stored THEN status ELSE @]
  /\ stamped' = [stamped EXCEPT ![s] = @ \/ row[s] \in Stored]

\* finish_scan: a conditional UPDATE that leaves a terminal or absent row
\* alone and tells its caller so; no caller looks at the answer.
Finish(s, status) ==
  /\ row' = [row EXCEPT ![s] = IF @ \in ActiveStatuses THEN status ELSE @]
  /\ stamped' = [stamped EXCEPT ![s] = @ \/ row[s] \in ActiveStatuses]

\* Mutant of Store: the status is committed before the findings.
StoreStatusOnly(w) ==
  /\ WorkerMoves(w, "storing", "comparing")
  /\ row[job[w]] \in Stored
  /\ Finish(job[w], "COMPLETED")
  /\ UNCHANGED <<tenants, findings, trail, api, queue, job, claimed, leased>>

\* Mutant of Store: result rows without the foreign key to their scan.
StoreUnreferenced(w) ==
  /\ WorkerMoves(w, "storing", "comparing")
  /\ findings' = [findings EXCEPT ![job[w]] = w]
  /\ Finish(job[w], "COMPLETED")
  /\ UNCHANGED <<tenants, trail, api, queue, job, claimed, leased>>

\* The second transaction: replace_scan_results, then finish_scan(COMPLETED).
Store(w) ==
  /\ WorkerMoves(w, "storing", "comparing")
  /\ row[job[w]] \in Stored
  /\ findings' = [findings EXCEPT ![job[w]] = w]
  /\ Finish(job[w], "COMPLETED")
  /\ UNCHANGED <<tenants, trail, api, queue, job, claimed, leased>>

\* The same after the tenant was deleted: a report with no host writes
\* nothing and succeeds, any other violates the composite foreign key.
StoreDeleted(w) ==
  /\ \E to \in {"comparing", "failing"} : WorkerMoves(w, "storing", to)
  /\ row[job[w]] \notin Stored
  /\ UNCHANGED <<dbVars, api, queue, job, claimed, leased>>

StoreError(w) ==
  /\ "db" \in Faults
  /\ WorkerMoves(w, "storing", "failing")
  /\ UNCHANGED <<dbVars, api, queue, job, claimed, leased>>

\* compare_scans and the log line, after the commit ...
Compare(w) ==
  /\ WorkerMoves(w, "comparing", "acking")
  /\ UNCHANGED <<dbVars, api, queue, job, claimed, leased>>

\* ... which the soft time limit, or any exception, can still interrupt.
LateError(w) ==
  /\ WorkerMoves(w, "comparing", "failing")
  /\ UNCHANGED <<dbVars, api, queue, job, claimed, leased>>

\* Mutant of MarkFailed: the failure is recorded in the aborted transaction.
MarkFailedRolledBack(w) ==
  /\ WorkerMoves(w, "failing", "acking")
  /\ UNCHANGED <<dbVars, api, queue, job, claimed, leased>>

MarkFailed(w) ==
  /\ WorkerMoves(w, "failing", "acking")
  /\ Finish(job[w], "FAILED")
  /\ UNCHANGED <<tenants, findings, trail, api, queue, job, claimed, leased>>

\* _mark_failed swallows its own failure: the row keeps its status.
MarkFailedLost(w) ==
  /\ "db" \in Faults
  /\ WorkerMoves(w, "failing", "acking")
  /\ UNCHANGED <<dbVars, api, queue, job, claimed, leased>>

\* The worker process forgets the task it was running.
Release(w) ==
  /\ phase' = [phase EXCEPT ![w] = "idle"]
  /\ job' = [job EXCEPT ![w] = NoScan]
  /\ claimed' = [claimed EXCEPT ![w] = FALSE]
  /\ leased' = [leased EXCEPT ![w] = FALSE]

\* task_acks_late: the delivery is acknowledged once the task has ended,
\* whether it returned or raised.
Ack(w) ==
  /\ phase[w] = "acking"
  /\ Release(w)
  /\ UNCHANGED <<dbVars, api, queue>>

(***************************************************************************)
(* The broker and the worker pool                                          *)
(***************************************************************************)
\* Mutant of Kill: task_reject_on_worker_lost is not set.
KillAndForget(w) ==
  /\ "kill" \in Faults
  /\ phase[w] # "idle"
  /\ Release(w)
  /\ UNCHANGED <<dbVars, api, queue>>

\* task_reject_on_worker_lost: the delivery goes back to the queue, unless
\* the visibility timeout has put it there already.
Kill(w) ==
  /\ "kill" \in Faults
  /\ phase[w] # "idle"
  /\ queue' = [queue EXCEPT ![job[w]] = IF leased[w] THEN @ + 1 ELSE @]
  /\ Release(w)
  /\ UNCHANGED <<dbVars, api>>

\* Only a task that went on to scan lives as long as the visibility timeout.
VisibilityTimeout(w) ==
  /\ "visibility" \in Faults
  /\ claimed[w]
  /\ leased[w]
  /\ queue' = [queue EXCEPT ![job[w]] = @ + 1]
  /\ leased' = [leased EXCEPT ![w] = FALSE]
  /\ UNCHANGED <<dbVars, api, phase, job, claimed>>

\* task_time_limit: a task still alive a minute after the soft limit is
\* killed and its delivery acknowledged.
HardTimeLimit(w) ==
  /\ "limit" \in Faults
  /\ phase[w] # "idle"
  /\ Release(w)
  /\ UNCHANGED <<dbVars, api, queue>>

HandlerStep(s) ==
  \/ Dispatch(s) \/ DispatchError(s) \/ DispatchUncaught(s)
  \/ FailUndispatched(s) \/ RecordLaunch(s)

WorkerStep(w) ==
  \/ Claim(w) \/ Skip(w) \/ RejectTargets(w) \/ ClaimError(w)
  \/ NmapReturns(w) \/ NmapFails(w)
  \/ Store(w) \/ StoreDeleted(w) \/ StoreError(w)
  \/ Compare(w) \/ LateError(w)
  \/ MarkFailed(w) \/ MarkFailedLost(w)
  \/ Ack(w)

Next ==
  \/ \E s \in Scans :
       \/ Admit(s) \/ RefuseQuota(s) \/ RefuseTargets(s)
       \/ Create(s) \/ CreateWithoutTenant(s)
       \/ HandlerStep(s)
       \/ ApiCrash(s)
  \/ \E t \in Tenants : DeleteTenant(t)
  \/ \E w \in Workers, s \in Scans : Receive(w, s)
  \/ \E w \in Workers :
       \/ WorkerStep(w)
       \/ Kill(w) \/ VisibilityTimeout(w) \/ HardTimeLimit(w)

Spec == Init /\ [][Next]_vars

(***************************************************************************)
(* Fairness.  A handler that has committed its row runs on, a task that    *)
(* has started runs on (Nmap is bounded by its own timeout), and the queue *)
(* is a list served in order by workers that return to it.                 *)
(***************************************************************************)
Fairness ==
  /\ \A s \in Scans : WF_vars(HandlerStep(s))
  /\ \A s \in Scans : SF_vars(\E w \in Workers : Receive(w, s))
  /\ \A w \in Workers : WF_vars(WorkerStep(w))

FairSpec == Spec /\ Fairness

(***************************************************************************)
(* Safety that holds whatever the environment does (every fault)           *)
(***************************************************************************)
\* Two tasks never both hold the claim of one scan, however often its message
\* is delivered: the conditional UPDATE of claim_scan is the only lock.
SingleOwner ==
  \A v, w \in Workers :
    claimed[v] /\ claimed[w] /\ job[v] = job[w] => v = w

\* A row that says COMPLETED has the findings of the run that completed it:
\* replace_scan_results and finish_scan share a transaction.
CompletedHasFindings ==
  \A s \in Scans : row[s] = "COMPLETED" => findings[s] # NoRun

\* Once findings are stored no later delivery, retry or failure replaces or
\* erases them; only the deletion of the tenant does.
FindingsAreFinal ==
  [][\A s \in Scans :
       findings[s] # NoRun => findings'[s] = findings[s] \/ row'[s] = "deleted"]_vars

\* The quota check and the insert are separate statements.  What survives
\* their race: a tenant exceeds its quota by at most the requests it has
\* between the two, less one; with one handler at a time it never does.
QuotaOvershootBounded ==
  \A t \in Tenants :
    Cardinality(Active(t)) + Cardinality(Admitted(t))
      <= MaxConcurrent + MaxHandlers - 1

\* A worker that outlives the tenant of its scan leaves nothing behind: no
\* result row and no finish time survive, or appear after, the cascade.
DeletedLeavesNothing ==
  \A s \in Scans :
    row[s] \notin Stored => findings[s] = NoRun /\ ~stamped[s]

\* What makes SingleOwner and FindingsAreFinal inductive.  A row leaves "none"
\* only by the insert of its own handler; a claim is held only by a task past
\* claim_scan, over a row that can no longer be claimed; and a task that may
\* still store findings is the first to do so.
Ownership ==
  /\ SingleOwner
  /\ \A s \in Scans :
       /\ api[s] \in {"idle", "admitted"} => row[s] = "none"
       /\ row[s] \in {"none", "PENDING"} => findings[s] = NoRun
  /\ \A w \in Workers :
       /\ phase[w] = "idle" <=> job[w] = NoScan
       /\ claimed[w] => /\ phase[w] \notin {"idle", "claiming"}
                        /\ row[job[w]] \notin {"none", "PENDING"}
       /\ leased[w] => phase[w] # "idle"
       /\ phase[w] \in {"scanning", "storing", "comparing"} => claimed[w]
       /\ phase[w] \in {"scanning", "storing"} => findings[job[w]] = NoRun

(***************************************************************************)
(* Safety under crashes and redelivery, with a broker whose send_task tells *)
(* the truth and a database that commits                                   *)
(***************************************************************************)
\* A scan whose launch was answered is not forgotten while it is PENDING: its
\* message is in the queue, or a worker has it and has not yet finished.
PendingIsQueued ==
  \A s \in Scans :
    row[s] = "PENDING" /\ api[s] \in {"queued", "done"} =>
      \/ queue[s] > 0
      \/ \E w \in Workers : job[w] = s /\ phase[w] \in {"claiming", "failing"}

\* The faults under which send_task and every transaction tell the truth.
TruthfulFaults == FaultKinds \ {"send", "db"}

\* What makes the refinement hold under them: no message exists before its
\* dispatch was confirmed, a task that scans still finds its row RUNNING (or
\* gone) when it stores, and a task fails a scan only if it owns it or if no
\* worker could.
TruthfulOwnership ==
  /\ \A s \in Scans :
       /\ api[s] \in {"idle", "admitted", "created", "undispatched"} =>
            queue[s] = 0 /\ \A w \in Workers : job[w] # s
       /\ api[s] \in {"created", "undispatched"} => row[s] \in {"PENDING", "deleted"}
  /\ \A w \in Workers :
       /\ phase[w] \in {"scanning", "storing"} => row[job[w]] \in {"RUNNING", "deleted"}
       /\ claimed[w] => job[w] \in Scannable
       /\ phase[w] = "failing" /\ ~claimed[w] => job[w] \notin Scannable

\* The lifecycle implements the progression documented on ScanStatus.
Abstract == INSTANCE ScanStatus WITH
  status <- row,
  hasFindings <- [s \in Scans |-> findings[s] # NoRun]

ImplementsScanStatus == Abstract!Spec

(***************************************************************************)
(* With workers that are not killed                                        *)
(***************************************************************************)
\* A RUNNING row has a task that will finish it; otherwise it would occupy a
\* slot of its tenant's quota for ever.
RunningIsOwned ==
  \A s \in Scans :
    row[s] = "RUNNING" =>
      \E w \in Workers :
        job[w] = s /\ claimed[w] /\ phase[w] \in {"scanning", "storing", "failing"}

\* A committed scan that nothing will ever pick up: its request ended before
\* a message was sent, and no part of the system sends one later.
Orphaned(s) ==
  /\ api[s] = "gone"
  /\ row[s] = "PENDING"
  /\ queue[s] = 0
  /\ \A w \in Workers : job[w] # s

\* Every committed scan reaches a terminal state or goes with its tenant,
\* whatever its request, the broker and Nmap did; the one exception are the
\* orphans that launch_scan leaves behind when its process dies, or send_task
\* raises what it does not catch, between the row and the message.
EveryScanFinishes ==
  \A s \in Scans :
    row[s] \in ActiveStatuses ~>
      row[s] \in TerminalStatuses \cup {"deleted"} \/ Orphaned(s)

\* Redelivery comes to an end: no message circulates for ever.
QueueDrains == <>[](\A s \in Scans : queue[s] = 0)

(***************************************************************************)
(* What the documentation says and the code does not keep                  *)
(***************************************************************************)
\* "One tenant cannot monopolise the shared worker pool": the quota.
QuotaRespected ==
  \A t \in Tenants : Cardinality(Active(t)) <= MaxConcurrent

\* The reason for the 503 path of launch_scan: "Fail it now rather than leaving
\* a job that is pending forever."
NeverPendingForever == \A s \in Scans : row[s] = "PENDING" ~> row[s] # "PENDING"

\* "A scan must never be left stuck in RUNNING."
NeverStuckRunning == \A s \in Scans : row[s] = "RUNNING" ~> row[s] # "RUNNING"

\* is_terminal: "True when no further transition is possible."
TerminalIsFinal ==
  [][\A s \in Scans :
       row[s] \in TerminalStatuses => row'[s] \in {row[s], "deleted"}]_vars

\* A task that finds a scan already handled must not fail it: "Marking it
\* FAILED here would undo a legitimate result."
OnlyOwnerFails ==
  [][\A s \in Scans :
       row[s] = "RUNNING" /\ row'[s] = "FAILED" =>
         \E w \in Workers : job[w] = s /\ claimed[w] /\ phase[w] = "failing"]_vars

\* "Events are written in the same transaction as the action they record":
\* no scan runs to completion after a request that left no event.
CompletedIsAudited ==
  \A s \in Scans :
    row[s] = "COMPLETED" /\ api[s] \in {"done", "gone"} => s \in trail
=============================================================================
