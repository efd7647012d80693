------------------------ MODULE ScanLifecycleProofs ------------------------
(***************************************************************************)
(* What holds of ScanLifecycle for every set of scans, tenants and workers *)
(* and every quota: its types, the single owner of a running scan, the     *)
(* finality of stored findings, the bound on the quota's overshoot, and,   *)
(* for an environment that crashes and redelivers but whose send_task and  *)
(* database tell the truth, that it implements ScanStatus.  The last       *)
(* section says which fault each sentence needs that the code breaks.      *)
(***************************************************************************)
EXTENDS ScanLifecycle, FiniteSetTheorems, TLAPS

(***************************************************************************)
(* Types                                                                   *)
(***************************************************************************)
LEMMA InitType == Init => TypeOK
  BY DEF Init, TypeOK, HandlerPhases, WorkerPhases, Statuses

\* A handler's step keeps the types.
LEMMA HandlerType ==
  ASSUME TypeOK, NEW s \in Scans,
         \/ Admit(s) \/ RefuseQuota(s) \/ RefuseTargets(s)
         \/ Create(s) \/ CreateWithoutTenant(s) \/ HandlerStep(s) \/ ApiCrash(s)
  PROVE  TypeOK'
<1> USE DEF TypeOK, HandlerPhases, HandlerMoves, dbVars, workerVars
<1>1. CASE Admit(s)                BY <1>1 DEF Admit
<1>2. CASE RefuseQuota(s)          BY <1>2 DEF RefuseQuota
<1>3. CASE RefuseTargets(s)        BY <1>3 DEF RefuseTargets
<1>4. CASE Create(s)
  BY <1>4 DEF Create, Statuses, ActiveStatuses
<1>5. CASE CreateWithoutTenant(s)  BY <1>5 DEF CreateWithoutTenant
<1>6. CASE Dispatch(s)
  BY <1>6, ConstantsAssumption DEF Dispatch
<1>7. CASE DispatchError(s) \/ DispatchUncaught(s)
  BY <1>7, ConstantsAssumption DEF DispatchError, DispatchUncaught, SendRaises
<1>8. CASE FailUndispatched(s)
  BY <1>8 DEF FailUndispatched, Statuses, TerminalStatuses
<1>9. CASE RecordLaunch(s)         BY <1>9 DEF RecordLaunch
<1>10. CASE ApiCrash(s)            BY <1>10 DEF ApiCrash
<1>11. QED
  BY <1>1, <1>2, <1>3, <1>4, <1>5, <1>6, <1>7, <1>8, <1>9, <1>10
  DEF HandlerStep

\* A step of a worker's task keeps the types of a busy worker.
LEMMA WorkerType ==
  ASSUME TypeOK, NEW w \in Workers, job[w] \in Scans, WorkerStep(w)
  PROVE  TypeOK'
<1> USE DEF TypeOK, WorkerPhases, WorkerMoves, dbVars
<1>1. CASE Claim(w)
  BY <1>1 DEF Claim, Statuses, ActiveStatuses
<1>2. CASE Skip(w)            BY <1>2 DEF Skip
<1>3. CASE RejectTargets(w)   BY <1>3 DEF RejectTargets
<1>4. CASE ClaimError(w)      BY <1>4 DEF ClaimError
<1>5. CASE NmapReturns(w)     BY <1>5 DEF NmapReturns
<1>6. CASE NmapFails(w)       BY <1>6 DEF NmapFails
<1>7. CASE Store(w)
  BY <1>7 DEF Store, Finish, Statuses, TerminalStatuses
<1>8. CASE StoreDeleted(w)    BY <1>8 DEF StoreDeleted
<1>9. CASE StoreError(w)      BY <1>9 DEF StoreError
<1>10. CASE Compare(w)        BY <1>10 DEF Compare
<1>11. CASE LateError(w)      BY <1>11 DEF LateError
<1>12. CASE MarkFailed(w)
  BY <1>12 DEF MarkFailed, Finish, Statuses, TerminalStatuses
<1>13. CASE MarkFailedLost(w) BY <1>13 DEF MarkFailedLost
<1>14. CASE Ack(w)
  BY <1>14 DEF Ack, Release
<1>15. QED
  BY <1>1, <1>2, <1>3, <1>4, <1>5, <1>6, <1>7, <1>8, <1>9, <1>10, <1>11,
     <1>12, <1>13, <1>14
  DEF WorkerStep

\* Every step keeps the types, given that a worker is idle exactly when it
\* has no job.
LEMMA NextType == TypeOK /\ Ownership /\ [Next]_vars => TypeOK'
<1> SUFFICES ASSUME TypeOK, Ownership, [Next]_vars PROVE TypeOK'
  OBVIOUS
<1>1. ASSUME NEW s \in Scans,
             \/ Admit(s) \/ RefuseQuota(s) \/ RefuseTargets(s)
             \/ Create(s) \/ CreateWithoutTenant(s) \/ HandlerStep(s) \/ ApiCrash(s)
      PROVE  TypeOK'
  BY <1>1, HandlerType
<1>2. ASSUME NEW t \in Tenants, DeleteTenant(t) PROVE TypeOK'
  BY <1>2 DEF DeleteTenant, TypeOK, Statuses, workerVars
<1>3. ASSUME NEW w \in Workers, NEW s \in Scans, Receive(w, s) PROVE TypeOK'
  BY <1>3 DEF Receive, TypeOK, WorkerMoves, WorkerPhases, dbVars
<1>4. ASSUME NEW w \in Workers, WorkerStep(w) PROVE TypeOK'
  <2>1. job[w] \in Scans
    BY <1>4 DEF WorkerStep, Ownership, TypeOK, Claim, Skip, RejectTargets,
       ClaimError, NmapReturns, NmapFails, Store, StoreDeleted, StoreError,
       Compare, LateError, MarkFailed, MarkFailedLost, Ack, WorkerMoves
  <2>2. QED
    BY <1>4, <2>1, WorkerType
<1>5. ASSUME NEW w \in Workers, Kill(w) PROVE TypeOK'
  BY <1>5 DEF Kill, Release, TypeOK, Ownership, WorkerPhases, dbVars
<1>6. ASSUME NEW w \in Workers, VisibilityTimeout(w) PROVE TypeOK'
  BY <1>6 DEF VisibilityTimeout, TypeOK, Ownership, dbVars
<1>7. ASSUME NEW w \in Workers, HardTimeLimit(w) PROVE TypeOK'
  BY <1>7 DEF HardTimeLimit, Release, TypeOK, WorkerPhases, dbVars
<1>8. CASE UNCHANGED vars
  BY <1>8 DEF vars, dbVars, workerVars, TypeOK
<1>9. QED
  BY <1>1, <1>2, <1>3, <1>4, <1>5, <1>6, <1>7, <1>8 DEF Next

(***************************************************************************)
(* Ownership                                                               *)
(***************************************************************************)
LEMMA InitOwnership == Init => Ownership
  BY ConstantsAssumption DEF Init, Ownership, SingleOwner

LEMMA HandlerOwnership ==
  ASSUME TypeOK, Ownership, NEW s \in Scans,
         \/ Admit(s) \/ RefuseQuota(s) \/ RefuseTargets(s)
         \/ Create(s) \/ CreateWithoutTenant(s) \/ HandlerStep(s) \/ ApiCrash(s)
  PROVE  Ownership'
<1> USE ConstantsAssumption
    DEF TypeOK, Ownership, SingleOwner, HandlerMoves, dbVars, workerVars
<1>1. CASE Admit(s)
  BY <1>1 DEF Admit
<1>2. CASE RefuseQuota(s)
  BY <1>2 DEF RefuseQuota
<1>3. CASE RefuseTargets(s)
  BY <1>3 DEF RefuseTargets
<1>4. CASE Create(s)
  BY <1>4 DEF Create
<1>5. CASE CreateWithoutTenant(s)
  BY <1>5 DEF CreateWithoutTenant
<1>6. CASE Dispatch(s)
  BY <1>6 DEF Dispatch
<1>7. CASE DispatchError(s) \/ DispatchUncaught(s)
  BY <1>7 DEF DispatchError, DispatchUncaught, SendRaises
<1>8. CASE FailUndispatched(s)
  BY <1>8 DEF FailUndispatched, Stored, ActiveStatuses, TerminalStatuses
<1>9. CASE RecordLaunch(s)
  BY <1>9 DEF RecordLaunch
<1>10. CASE ApiCrash(s)
  BY <1>10 DEF ApiCrash
<1>11. QED
  BY <1>1, <1>2, <1>3, <1>4, <1>5, <1>6, <1>7, <1>8, <1>9, <1>10
  DEF HandlerStep

LEMMA WorkerOwnership ==
  ASSUME TypeOK, Ownership, NEW w \in Workers, WorkerStep(w)
  PROVE  Ownership'
<1> USE ConstantsAssumption
    DEF TypeOK, Ownership, SingleOwner, WorkerMoves, dbVars
<1>1. CASE Claim(w)
  BY <1>1 DEF Claim, Claimable
<1>2. CASE Skip(w)
  BY <1>2 DEF Skip, Claimable
<1>3. CASE RejectTargets(w)
  BY <1>3 DEF RejectTargets
<1>4. CASE ClaimError(w)
  BY <1>4 DEF ClaimError
<1>5. CASE NmapReturns(w)
  BY <1>5 DEF NmapReturns
<1>6. CASE NmapFails(w)
  BY <1>6 DEF NmapFails
<1>7. CASE Store(w)
  BY <1>7 DEF Store, Finish, Stored, ActiveStatuses, TerminalStatuses
<1>8. CASE StoreDeleted(w)
  BY <1>8 DEF StoreDeleted
<1>9. CASE StoreError(w)
  BY <1>9 DEF StoreError
<1>10. CASE Compare(w)
  BY <1>10 DEF Compare
<1>11. CASE LateError(w)
  BY <1>11 DEF LateError
<1>12. CASE MarkFailed(w)
  BY <1>12 DEF MarkFailed, Finish, ActiveStatuses
<1>13. CASE MarkFailedLost(w)
  BY <1>13 DEF MarkFailedLost
<1>14. CASE Ack(w)
  BY <1>14 DEF Ack, Release
<1>15. QED
  BY <1>1, <1>2, <1>3, <1>4, <1>5, <1>6, <1>7, <1>8, <1>9, <1>10, <1>11, <1>12, <1>13, <1>14
  DEF WorkerStep

LEMMA NextOwnership == TypeOK /\ Ownership /\ [Next]_vars => Ownership'
<1> SUFFICES ASSUME TypeOK, Ownership, [Next]_vars PROVE Ownership'
  OBVIOUS
<1> USE ConstantsAssumption DEF TypeOK, Ownership, SingleOwner
<1>1. ASSUME NEW s \in Scans,
             \/ Admit(s) \/ RefuseQuota(s) \/ RefuseTargets(s)
             \/ Create(s) \/ CreateWithoutTenant(s) \/ HandlerStep(s) \/ ApiCrash(s)
      PROVE  Ownership'
  BY <1>1, HandlerOwnership
<1>2. ASSUME NEW t \in Tenants, DeleteTenant(t) PROVE Ownership'
  BY <1>2 DEF DeleteTenant, workerVars
<1>3. ASSUME NEW w \in Workers, NEW s \in Scans, Receive(w, s) PROVE Ownership'
  BY <1>3 DEF Receive, WorkerMoves, dbVars
<1>4. ASSUME NEW w \in Workers, WorkerStep(w) PROVE Ownership'
  BY <1>4, WorkerOwnership
<1>5. ASSUME NEW w \in Workers, Kill(w) PROVE Ownership'
  BY <1>5 DEF Kill, Release, dbVars
<1>6. ASSUME NEW w \in Workers, VisibilityTimeout(w) PROVE Ownership'
  BY <1>6 DEF VisibilityTimeout, dbVars
<1>7. ASSUME NEW w \in Workers, HardTimeLimit(w) PROVE Ownership'
  BY <1>7 DEF HardTimeLimit, Release, dbVars
<1>8. CASE UNCHANGED vars
  BY <1>8 DEF vars, dbVars, workerVars
<1>9. QED
  BY <1>1, <1>2, <1>3, <1>4, <1>5, <1>6, <1>7, <1>8 DEF Next

\* The types and the ownership of claims are one inductive invariant.
THEOREM OwnershipInvariant == Spec => [](TypeOK /\ Ownership)
  BY InitType, InitOwnership, NextType, NextOwnership, PTL DEF Spec

\* Type correctness of the lifecycle: in particular no message count goes
\* below zero and no task runs without a scan.
THEOREM TypeCorrect == Spec => []TypeOK
  BY OwnershipInvariant, PTL

\* At most one task ever holds the claim of a scan, under every fault.
THEOREM OneOwner == Spec => []SingleOwner
<1>1. Ownership => SingleOwner
  BY DEF Ownership
<1>2. QED
  BY OwnershipInvariant, <1>1, PTL

(***************************************************************************)
(* Findings                                                                *)
(***************************************************************************)
\* One step of a task leaves stored findings alone: only Store writes, and the
\* task that reaches it finds none.
LEMMA StepKeepsFindings ==
  ASSUME TypeOK, Ownership, [Next]_vars, NEW s \in Scans, findings[s] # NoRun
  PROVE  findings'[s] = findings[s] \/ row'[s] = "deleted"
<1> USE DEF TypeOK, dbVars
<1>1. ASSUME NEW r \in Scans,
             \/ Admit(r) \/ RefuseQuota(r) \/ RefuseTargets(r)
             \/ Create(r) \/ CreateWithoutTenant(r) \/ HandlerStep(r) \/ ApiCrash(r)
      PROVE  findings' = findings
  BY <1>1 DEF Admit, RefuseQuota, RefuseTargets, Create, CreateWithoutTenant,
     HandlerStep, Dispatch, DispatchError, DispatchUncaught, FailUndispatched, RecordLaunch,
     ApiCrash
<1>2. ASSUME NEW t \in Tenants, DeleteTenant(t)
      PROVE  findings'[s] = findings[s] \/ row'[s] = "deleted"
  BY <1>2 DEF DeleteTenant, Ownership
<1>3. ASSUME NEW w \in Workers, NEW r \in Scans, Receive(w, r)
      PROVE  findings' = findings
  BY <1>3 DEF Receive
<1>4. ASSUME NEW w \in Workers, Store(w)
      PROVE  findings'[s] = findings[s]
  BY <1>4 DEF Store, WorkerMoves, Ownership
<1>5. ASSUME NEW w \in Workers, WorkerStep(w), ~Store(w)
      PROVE  findings' = findings
  BY <1>5 DEF WorkerStep, Claim, Skip, RejectTargets, ClaimError, NmapReturns,
     NmapFails, StoreDeleted, StoreError, Compare, LateError, MarkFailed,
     MarkFailedLost, Ack
<1>6. ASSUME NEW w \in Workers, Kill(w) \/ VisibilityTimeout(w) \/ HardTimeLimit(w)
      PROVE  findings' = findings
  BY <1>6 DEF Kill, VisibilityTimeout, HardTimeLimit
<1>7. CASE UNCHANGED vars
  BY <1>7 DEF vars
<1>8. QED
  BY <1>1, <1>2, <1>3, <1>4, <1>5, <1>6, <1>7 DEF Next

\* Findings, once stored, are final until their tenant is deleted.
THEOREM FindingsNeverReplaced == Spec => FindingsAreFinal
<1>1. TypeOK /\ Ownership /\ [Next]_vars =>
        [\A s \in Scans :
           findings[s] # NoRun => findings'[s] = findings[s] \/ row'[s] = "deleted"]_vars
  BY StepKeepsFindings
<1>2. QED
  BY OwnershipInvariant, <1>1, PTL DEF Spec, FindingsAreFinal

(***************************************************************************)
(* Rows and what hangs on them                                             *)
(***************************************************************************)
RowContents == CompletedHasFindings /\ DeletedLeavesNothing

LEMMA NextRowContents ==
  TypeOK /\ Ownership /\ RowContents /\ [Next]_vars => RowContents'
<1> SUFFICES ASSUME TypeOK, Ownership, RowContents, [Next]_vars PROVE RowContents'
  OBVIOUS
<1> USE ConstantsAssumption
    DEF TypeOK, Ownership, RowContents, CompletedHasFindings,
        DeletedLeavesNothing, Stored, ActiveStatuses, TerminalStatuses, dbVars
<1>1. ASSUME NEW s \in Scans, Create(s) \/ FailUndispatched(s) PROVE RowContents'
  BY <1>1 DEF Create, FailUndispatched, HandlerMoves
<1>2. ASSUME NEW s \in Scans,
             \/ Admit(s) \/ RefuseQuota(s) \/ RefuseTargets(s)
             \/ CreateWithoutTenant(s) \/ ApiCrash(s)
             \/ Dispatch(s) \/ DispatchError(s) \/ DispatchUncaught(s)
             \/ RecordLaunch(s)
      PROVE  RowContents'
  <2>1. UNCHANGED <<row, findings, stamped>>
    BY <1>2 DEF Admit, RefuseQuota, RefuseTargets, CreateWithoutTenant,
       ApiCrash, Dispatch, DispatchError, DispatchUncaught, RecordLaunch
  <2>2. QED
    BY <2>1
<1>3. ASSUME NEW t \in Tenants, DeleteTenant(t) PROVE RowContents'
  BY <1>3 DEF DeleteTenant
<1>4. ASSUME NEW w \in Workers, Claim(w) PROVE RowContents'
  BY <1>4 DEF Claim, Claimable, WorkerMoves
<1>5. ASSUME NEW w \in Workers, Store(w) PROVE RowContents'
  BY <1>5 DEF Store, Finish, WorkerMoves
<1>6. ASSUME NEW w \in Workers, MarkFailed(w) PROVE RowContents'
  BY <1>6 DEF MarkFailed, Finish, WorkerMoves
<1>7. ASSUME NEW w \in Workers,
             \/ WorkerStep(w) /\ ~Claim(w) /\ ~Store(w) /\ ~MarkFailed(w)
             \/ Kill(w) \/ VisibilityTimeout(w) \/ HardTimeLimit(w)
             \/ \E s \in Scans : Receive(w, s)
      PROVE  RowContents'
  <2>1. UNCHANGED <<row, findings, stamped>>
    BY <1>7 DEF WorkerStep, Skip, RejectTargets, ClaimError, NmapReturns,
       NmapFails, StoreDeleted, StoreError, Compare, LateError,
       MarkFailedLost, Ack, Kill, VisibilityTimeout, HardTimeLimit, Receive
  <2>2. QED
    BY <2>1
<1>8. CASE UNCHANGED vars
  BY <1>8 DEF vars
<1>9. QED
  BY <1>1, <1>2, <1>3, <1>4, <1>5, <1>6, <1>7, <1>8 DEF Next, HandlerStep

\* A COMPLETED row always has its findings, and a row that is gone has none.
THEOREM RowsAndFindings == Spec => [](CompletedHasFindings /\ DeletedLeavesNothing)
<1>1. Init => RowContents
  BY DEF Init, RowContents, CompletedHasFindings, DeletedLeavesNothing
<1>2. RowContents => CompletedHasFindings /\ DeletedLeavesNothing
  BY DEF RowContents
<1>3. QED
  BY OwnershipInvariant, <1>1, NextRowContents, <1>2, PTL DEF Spec

\* Nothing of a deleted tenant is left: no findings outlive the row they belong to,
\* whatever the task that was running then goes on to do (tenants.py, delete_tenant).
THEOREM NothingOfDeletedTenants == Spec => []DeletedLeavesNothing
  BY RowsAndFindings, PTL

(***************************************************************************)
(* No scan is forgotten                                                    *)
(***************************************************************************)
\* A task that has not claimed its scan has not outlived its delivery.
HeldByBroker == \A w \in Workers : phase[w] # "idle" /\ ~claimed[w] => leased[w]

NotForgotten == HeldByBroker /\ PendingIsQueued

LEMMA HandlerForgetsNothing ==
  ASSUME TypeOK, Ownership, NotForgotten, NEW s \in Scans,
         \/ Admit(s) \/ RefuseQuota(s) \/ RefuseTargets(s)
         \/ Create(s) \/ CreateWithoutTenant(s) \/ HandlerStep(s) \/ ApiCrash(s)
  PROVE  NotForgotten'
<1> USE ConstantsAssumption
    DEF TypeOK, Ownership, NotForgotten, HeldByBroker, PendingIsQueued, HandlerMoves,
        dbVars, workerVars
<1>1. CASE Admit(s)                BY <1>1 DEF Admit
<1>2. CASE RefuseQuota(s)          BY <1>2 DEF RefuseQuota
<1>3. CASE RefuseTargets(s)        BY <1>3 DEF RefuseTargets
<1>4. CASE Create(s)               BY <1>4 DEF Create
<1>5. CASE CreateWithoutTenant(s)  BY <1>5 DEF CreateWithoutTenant
<1>6. CASE Dispatch(s)
  <2>1. queue'[s] > 0 /\ \A r \in Scans : r # s => queue'[r] = queue[r]
    BY <1>6 DEF Dispatch
  <2>2. QED
    BY <1>6, <2>1 DEF Dispatch
<1>7. CASE DispatchError(s) \/ DispatchUncaught(s)
  BY <1>7 DEF DispatchError, DispatchUncaught, SendRaises
<1>8. CASE FailUndispatched(s)
  BY <1>8 DEF FailUndispatched, Stored, ActiveStatuses, TerminalStatuses
<1>9. CASE RecordLaunch(s)         BY <1>9 DEF RecordLaunch
<1>10. CASE ApiCrash(s)            BY <1>10 DEF ApiCrash
<1>11. QED
  BY <1>1, <1>2, <1>3, <1>4, <1>5, <1>6, <1>7, <1>8, <1>9, <1>10 DEF HandlerStep

\* A task leaves a PENDING row by its claim or by _mark_failed, which a database
\* that commits records.
LEMMA WorkerForgetsNothing ==
  ASSUME TypeOK, Ownership, NotForgotten, "db" \notin Faults,
         NEW w \in Workers, WorkerStep(w)
  PROVE  NotForgotten'
<1> USE ConstantsAssumption
    DEF TypeOK, Ownership, NotForgotten, HeldByBroker, PendingIsQueued, WorkerMoves, dbVars
<1>1. CASE Claim(w)           BY <1>1 DEF Claim
<1>2. CASE Skip(w)            BY <1>2 DEF Skip, Claimable
<1>3. CASE RejectTargets(w)   BY <1>3 DEF RejectTargets
<1>4. CASE ClaimError(w)      BY <1>4 DEF ClaimError
<1>5. CASE NmapReturns(w)     BY <1>5 DEF NmapReturns
<1>6. CASE NmapFails(w)       BY <1>6 DEF NmapFails
<1>7. CASE Store(w)
  BY <1>7 DEF Store, Finish, Stored, ActiveStatuses, TerminalStatuses
<1>8. CASE StoreDeleted(w)    BY <1>8 DEF StoreDeleted
<1>9. CASE StoreError(w)      BY <1>9 DEF StoreError
<1>10. CASE Compare(w)        BY <1>10 DEF Compare
<1>11. CASE LateError(w)      BY <1>11 DEF LateError
<1>12. CASE MarkFailed(w)     BY <1>12 DEF MarkFailed, Finish, ActiveStatuses
<1>13. CASE MarkFailedLost(w) BY <1>13 DEF MarkFailedLost
<1>14. CASE Ack(w)            BY <1>14 DEF Ack, Release
<1>15. QED
  BY <1>1, <1>2, <1>3, <1>4, <1>5, <1>6, <1>7, <1>8, <1>9, <1>10, <1>11, <1>12, <1>13, <1>14
  DEF WorkerStep

LEMMA NextForgetsNothing ==
  ASSUME Faults \cap {"db", "limit"} = {}
  PROVE  TypeOK /\ Ownership /\ NotForgotten /\ [Next]_vars => NotForgotten'
<1> SUFFICES ASSUME TypeOK, Ownership, NotForgotten, [Next]_vars
             PROVE  NotForgotten'
  OBVIOUS
<1> USE ConstantsAssumption
    DEF TypeOK, Ownership, NotForgotten, HeldByBroker, PendingIsQueued
<1>1. ASSUME NEW s \in Scans,
             \/ Admit(s) \/ RefuseQuota(s) \/ RefuseTargets(s)
             \/ Create(s) \/ CreateWithoutTenant(s) \/ HandlerStep(s) \/ ApiCrash(s)
      PROVE  NotForgotten'
  BY <1>1, HandlerForgetsNothing
<1>2. ASSUME NEW t \in Tenants, DeleteTenant(t) PROVE NotForgotten'
  BY <1>2 DEF DeleteTenant, workerVars
<1>3. ASSUME NEW w \in Workers, NEW s \in Scans, Receive(w, s) PROVE NotForgotten'
  BY <1>3 DEF Receive, WorkerMoves, dbVars
<1>4. ASSUME NEW w \in Workers, WorkerStep(w) PROVE NotForgotten'
  BY <1>4, WorkerForgetsNothing
<1>5. ASSUME NEW w \in Workers, Kill(w) PROVE NotForgotten'
  <2>1. phase[w] \in {"claiming", "failing"} /\ row[job[w]] = "PENDING" => queue'[job[w]] > 0
    BY <1>5 DEF Kill
  <2>2. \A s \in Scans : queue[s] > 0 => queue'[s] > 0
    BY <1>5 DEF Kill
  <2>3. QED
    BY <1>5, <2>1, <2>2 DEF Kill, Release, dbVars
<1>6. ASSUME NEW w \in Workers, VisibilityTimeout(w) PROVE NotForgotten'
  <2>1. \A s \in Scans : queue[s] > 0 => queue'[s] > 0
    BY <1>6 DEF VisibilityTimeout
  <2>2. QED
    BY <1>6, <2>1 DEF VisibilityTimeout, dbVars
<1>7. ASSUME NEW w \in Workers, HardTimeLimit(w) PROVE NotForgotten'
  BY <1>7 DEF HardTimeLimit
<1>8. CASE UNCHANGED vars
  BY <1>8 DEF vars, dbVars, workerVars
<1>9. QED
  BY <1>1, <1>2, <1>3, <1>4, <1>5, <1>6, <1>7, <1>8 DEF Next

\* A scan whose launch was answered is not forgotten while it is PENDING, though
\* the API dies, workers are killed, messages are delivered again and send_task
\* lies: of the faults only an aborted transaction and the hard time limit
\* acknowledge a message whose scan was not dealt with.
THEOREM LaunchedIsQueued ==
  ASSUME Faults \cap {"db", "limit"} = {}
  PROVE  Spec => []PendingIsQueued
<1>1. Init => NotForgotten
  BY DEF Init, NotForgotten, HeldByBroker, PendingIsQueued
<1>2. NotForgotten => PendingIsQueued
  BY DEF NotForgotten
<1>3. QED
  BY OwnershipInvariant, <1>1, NextForgetsNothing, <1>2, PTL DEF Spec

LEMMA WorkerFinishes ==
  ASSUME TypeOK, Ownership, RunningIsOwned, "db" \notin Faults,
         NEW w \in Workers, WorkerStep(w)
  PROVE  RunningIsOwned'
<1> USE ConstantsAssumption DEF TypeOK, Ownership, RunningIsOwned, WorkerMoves, dbVars
<1>1. CASE Claim(w)           BY <1>1 DEF Claim
<1>2. CASE Skip(w)            BY <1>2 DEF Skip
<1>3. CASE RejectTargets(w)   BY <1>3 DEF RejectTargets
<1>4. CASE ClaimError(w)      BY <1>4 DEF ClaimError
<1>5. CASE NmapReturns(w)     BY <1>5 DEF NmapReturns
<1>6. CASE NmapFails(w)       BY <1>6 DEF NmapFails
<1>7. CASE Store(w)           BY <1>7 DEF Store, Finish, ActiveStatuses
<1>8. CASE StoreDeleted(w)
  BY <1>8 DEF StoreDeleted, Stored, ActiveStatuses
<1>9. CASE StoreError(w)      BY <1>9 DEF StoreError
<1>10. CASE Compare(w)        BY <1>10 DEF Compare
<1>11. CASE LateError(w)      BY <1>11 DEF LateError
<1>12. CASE MarkFailed(w)     BY <1>12 DEF MarkFailed, Finish, ActiveStatuses
<1>13. CASE MarkFailedLost(w) BY <1>13 DEF MarkFailedLost
<1>14. CASE Ack(w)            BY <1>14 DEF Ack, Release
<1>15. QED
  BY <1>1, <1>2, <1>3, <1>4, <1>5, <1>6, <1>7, <1>8, <1>9, <1>10, <1>11, <1>12, <1>13, <1>14
  DEF WorkerStep

LEMMA NextFinishes ==
  ASSUME Faults \cap {"kill", "db", "limit"} = {}
  PROVE  TypeOK /\ Ownership /\ RunningIsOwned /\ [Next]_vars => RunningIsOwned'
<1> SUFFICES ASSUME TypeOK, Ownership, RunningIsOwned, [Next]_vars
             PROVE  RunningIsOwned'
  OBVIOUS
<1> USE ConstantsAssumption DEF TypeOK, Ownership, RunningIsOwned
<1>1. ASSUME NEW s \in Scans,
             \/ Admit(s) \/ RefuseQuota(s) \/ RefuseTargets(s)
             \/ Create(s) \/ CreateWithoutTenant(s) \/ HandlerStep(s) \/ ApiCrash(s)
      PROVE  RunningIsOwned'
  BY <1>1 DEF Admit, RefuseQuota, RefuseTargets, Create, CreateWithoutTenant,
     HandlerStep, Dispatch, DispatchError, DispatchUncaught, FailUndispatched, RecordLaunch,
     ApiCrash, dbVars, workerVars
<1>2. ASSUME NEW t \in Tenants, DeleteTenant(t) PROVE RunningIsOwned'
  BY <1>2 DEF DeleteTenant, workerVars
<1>3. ASSUME NEW w \in Workers, NEW s \in Scans, Receive(w, s) PROVE RunningIsOwned'
  BY <1>3 DEF Receive, WorkerMoves, dbVars
<1>4. ASSUME NEW w \in Workers, WorkerStep(w) PROVE RunningIsOwned'
  BY <1>4, WorkerFinishes
<1>5. ASSUME NEW w \in Workers, Kill(w) \/ HardTimeLimit(w) PROVE RunningIsOwned'
  BY <1>5 DEF Kill, HardTimeLimit
<1>6. ASSUME NEW w \in Workers, VisibilityTimeout(w) PROVE RunningIsOwned'
  BY <1>6 DEF VisibilityTimeout, dbVars
<1>7. CASE UNCHANGED vars
  BY <1>7 DEF vars, dbVars, workerVars
<1>8. QED
  BY <1>1, <1>2, <1>3, <1>4, <1>5, <1>6, <1>7 DEF Next

\* With workers that are not killed and a database that commits, a RUNNING row
\* always has the task that will finish it, redelivery, a send_task that lies and
\* an API that dies included.
THEOREM RunningHasItsTask ==
  ASSUME Faults \cap {"kill", "db", "limit"} = {}
  PROVE  Spec => []RunningIsOwned
<1>1. Init => RunningIsOwned
  BY DEF Init, RunningIsOwned
<1>2. QED
  BY OwnershipInvariant, <1>1, NextFinishes, PTL DEF Spec

(***************************************************************************)
(* The quota                                                               *)
(***************************************************************************)
LEMMA OneMore ==
  ASSUME NEW S, IsFiniteSet(S), NEW x
  PROVE  /\ Cardinality(S \cup {x}) \in Nat
         /\ Cardinality(S \cup {x}) <= Cardinality(S) + 1
<1>1. Cardinality(S) \in Nat
  BY FS_CardinalityType
<1>2. CASE x \in S
  <2>1. S \cup {x} = S
    BY <1>2
  <2>2. QED
    BY <1>1, <2>1
<1>3. CASE x \notin S
  <2>1. Cardinality(S \cup {x}) = Cardinality(S) + 1
    BY <1>3, FS_AddElement
  <2>2. QED
    BY <1>1, <2>1
<1>4. QED
  BY <1>2, <1>3

\* Fewer active rows and fewer admitted handlers keep the bound.
LEMMA FewerKeepsBound ==
  ASSUME NEW A, NEW D, NEW B, NEW C, A \subseteq Scans, D \subseteq Scans,
         B \subseteq A, C \subseteq D,
         Cardinality(A) + Cardinality(D) <= MaxConcurrent + MaxHandlers - 1
  PROVE  Cardinality(B) + Cardinality(C) <= MaxConcurrent + MaxHandlers - 1
<1>1. IsFiniteSet(A) /\ IsFiniteSet(D)
  BY FS_Subset, ConstantsAssumption
<1>2. /\ Cardinality(B) \in Nat /\ Cardinality(C) \in Nat
      /\ Cardinality(A) \in Nat /\ Cardinality(D) \in Nat
      /\ Cardinality(B) <= Cardinality(A)
      /\ Cardinality(C) <= Cardinality(D)
  BY <1>1, FS_Subset, FS_CardinalityType
<1>3. QED
  BY <1>2, ConstantsAssumption

\* The only steps that add to either set are Admit and Create.
LEMMA OnlyAdmitAndCreateAdd ==
  ASSUME TypeOK, Ownership, [Next]_vars, NEW t \in Tenants,
         ~ \E s \in Scans : Admit(s) \/ Create(s)
  PROVE  Active(t)' \subseteq Active(t) /\ Admitted(t)' \subseteq Admitted(t)
<1> USE ConstantsAssumption DEF Active, Admitted, ScansOf, ActiveStatuses, TypeOK, dbVars
<1>1. ASSUME NEW s \in Scans,
             \/ RefuseQuota(s) \/ RefuseTargets(s) \/ CreateWithoutTenant(s)
             \/ ApiCrash(s) \/ Dispatch(s) \/ DispatchError(s) \/ DispatchUncaught(s)
             \/ RecordLaunch(s)
             \/ FailUndispatched(s)
      PROVE  Active(t)' \subseteq Active(t) /\ Admitted(t)' \subseteq Admitted(t)
  BY <1>1 DEF RefuseQuota, RefuseTargets, CreateWithoutTenant, ApiCrash,
     Dispatch, DispatchError, DispatchUncaught, RecordLaunch, FailUndispatched, HandlerMoves
<1>2. ASSUME NEW u \in Tenants, DeleteTenant(u)
      PROVE  Active(t)' \subseteq Active(t) /\ Admitted(t)' \subseteq Admitted(t)
  BY <1>2 DEF DeleteTenant
<1>3. ASSUME NEW w \in Workers, Claim(w)
      PROVE  Active(t)' \subseteq Active(t) /\ Admitted(t)' \subseteq Admitted(t)
  BY <1>3 DEF Claim, Claimable
<1>4. ASSUME NEW w \in Workers, Store(w) \/ MarkFailed(w)
      PROVE  Active(t)' \subseteq Active(t) /\ Admitted(t)' \subseteq Admitted(t)
  BY <1>4 DEF Store, MarkFailed, Finish
<1>5. ASSUME NEW w \in Workers,
             \/ WorkerStep(w) /\ ~Claim(w) /\ ~Store(w) /\ ~MarkFailed(w)
             \/ Kill(w) \/ VisibilityTimeout(w) \/ HardTimeLimit(w)
             \/ \E s \in Scans : Receive(w, s)
      PROVE  Active(t)' \subseteq Active(t) /\ Admitted(t)' \subseteq Admitted(t)
  <2>1. UNCHANGED <<row, api>>
    BY <1>5 DEF WorkerStep, Skip, RejectTargets, ClaimError, NmapReturns,
       NmapFails, StoreDeleted, StoreError, Compare, LateError,
       MarkFailedLost, Ack, Kill, VisibilityTimeout, HardTimeLimit, Receive
  <2>2. QED
    BY <2>1
<1>6. CASE UNCHANGED vars
  BY <1>6 DEF vars
<1>7. QED
  BY <1>1, <1>2, <1>3, <1>4, <1>5, <1>6 DEF Next, HandlerStep

LEMMA NextQuota ==
  TypeOK /\ Ownership /\ QuotaOvershootBounded /\ [Next]_vars => QuotaOvershootBounded'
<1> SUFFICES ASSUME TypeOK, Ownership, QuotaOvershootBounded, [Next]_vars,
                    NEW t \in Tenants
             PROVE  Cardinality(Active(t)') + Cardinality(Admitted(t)')
                      <= MaxConcurrent + MaxHandlers - 1
  BY DEF QuotaOvershootBounded
<1>1. Active(t) \subseteq Scans /\ Admitted(t) \subseteq Scans
  BY DEF Active, Admitted, ScansOf
<1>2. /\ IsFiniteSet(Active(t)) /\ Cardinality(Active(t)) \in Nat
      /\ IsFiniteSet(Admitted(t)) /\ Cardinality(Admitted(t)) \in Nat
  BY <1>1, FS_Subset, FS_CardinalityType, ConstantsAssumption
<1>3. Cardinality(Active(t)) + Cardinality(Admitted(t)) <= MaxConcurrent + MaxHandlers - 1
  BY DEF QuotaOvershootBounded
<1>4. CASE ~ \E s \in Scans : Admit(s) \/ Create(s)
  BY <1>1, <1>3, <1>4, OnlyAdmitAndCreateAdd, FewerKeepsBound
<1>5. ASSUME NEW s \in Scans, Admit(s)
      PROVE  Cardinality(Active(t)') + Cardinality(Admitted(t)')
               <= MaxConcurrent + MaxHandlers - 1
  <2>1. Active(t)' = Active(t)
    BY <1>5 DEF Admit, Active, ScansOf, dbVars
  <2>2. CASE Owner[s] = t
    <3>1. Admitted(t)' = Admitted(t) \cup {s}
      BY <1>5, <2>2 DEF Admit, HandlerMoves, Admitted, ScansOf, TypeOK
    <3>2. /\ Cardinality(Admitted(t)') \in Nat
          /\ Cardinality(Admitted(t)') <= Cardinality(Admitted(t)) + 1
      BY <3>1, <1>2, OneMore
    <3>3. Cardinality(Active(t)) < MaxConcurrent /\ Cardinality(Admitted(t)) < MaxHandlers
      BY <1>5, <2>2 DEF Admit, UnderQuota
    <3>4. QED
      BY <2>1, <3>2, <3>3, <1>2, ConstantsAssumption
  <2>3. CASE Owner[s] # t
    <3>1. Admitted(t)' = Admitted(t)
      BY <1>5, <2>3 DEF Admit, HandlerMoves, Admitted, ScansOf, TypeOK
    <3>2. QED
      BY <2>1, <3>1, <1>3
  <2>4. QED
    BY <2>2, <2>3
<1>6. ASSUME NEW s \in Scans, Create(s)
      PROVE  Cardinality(Active(t)') + Cardinality(Admitted(t)')
               <= MaxConcurrent + MaxHandlers - 1
  <2>1. CASE Owner[s] = t
    <3>1. Active(t)' = Active(t) \cup {s}
      BY <1>6, <2>1 DEF Create, HandlerMoves, Active, ScansOf, ActiveStatuses, TypeOK
    <3>2. Admitted(t)' = Admitted(t) \ {s} /\ s \in Admitted(t)
      BY <1>6, <2>1 DEF Create, HandlerMoves, Admitted, ScansOf, TypeOK
    <3>3. /\ Cardinality(Active(t)') \in Nat
          /\ Cardinality(Active(t)') <= Cardinality(Active(t)) + 1
      BY <3>1, <1>2, OneMore
    <3>4. Cardinality(Admitted(t)') = Cardinality(Admitted(t)) - 1
      BY <3>2, <1>2, FS_RemoveElement
    <3>5. QED
      BY <3>3, <3>4, <1>2, <1>3, ConstantsAssumption
  <2>2. CASE Owner[s] # t
    <3>1. Active(t)' = Active(t) /\ Admitted(t)' = Admitted(t)
      BY <1>6, <2>2 DEF Create, HandlerMoves, Active, Admitted, ScansOf, TypeOK
    <3>2. QED
      BY <3>1, <1>3
  <2>3. QED
    BY <2>1, <2>2
<1>7. QED
  BY <1>4, <1>5, <1>6

\* Whatever the number of tenants, scans and workers and whatever fails, a
\* tenant's active scans exceed its quota by at most the handlers it has
\* between the check and the insert, less one.
THEOREM QuotaOvershoot == Spec => []QuotaOvershootBounded
<1>1. Init => QuotaOvershootBounded
  <2> SUFFICES ASSUME Init, NEW t \in Tenants
               PROVE  Cardinality(Active(t)) + Cardinality(Admitted(t))
                        <= MaxConcurrent + MaxHandlers - 1
    BY DEF QuotaOvershootBounded
  <2>1. Active(t) = {} /\ Admitted(t) = {}
    BY DEF Init, Active, Admitted, ScansOf, ActiveStatuses
  <2>2. QED
    BY <2>1, FS_EmptySet, ConstantsAssumption
<1>2. QED
  BY OwnershipInvariant, <1>1, NextQuota, PTL DEF Spec

(***************************************************************************)
(* The refinement                                                          *)
(***************************************************************************)
LEMMA HandlerTruthful ==
  ASSUME TypeOK, Ownership, TruthfulOwnership, Faults \subseteq TruthfulFaults,
         NEW s \in Scans,
         \/ Admit(s) \/ RefuseQuota(s) \/ RefuseTargets(s)
         \/ Create(s) \/ CreateWithoutTenant(s) \/ HandlerStep(s) \/ ApiCrash(s)
  PROVE  TruthfulOwnership'
<1>1. "send" \notin Faults
  BY DEF TruthfulFaults
<1> USE ConstantsAssumption
    DEF TypeOK, Ownership, TruthfulOwnership, HandlerMoves, dbVars, workerVars
<1>2. CASE Admit(s)
  BY <1>2 DEF Admit
<1>3. CASE RefuseQuota(s)
  BY <1>3 DEF RefuseQuota
<1>4. CASE RefuseTargets(s)
  BY <1>4 DEF RefuseTargets
<1>5. CASE Create(s)
  BY <1>5 DEF Create
<1>6. CASE CreateWithoutTenant(s)
  BY <1>6 DEF CreateWithoutTenant
<1>7. CASE Dispatch(s)
  BY <1>1, <1>7 DEF Dispatch
<1>8. CASE DispatchError(s) \/ DispatchUncaught(s)
  BY <1>1, <1>8 DEF DispatchError, DispatchUncaught, SendRaises
<1>9. CASE FailUndispatched(s)
  BY <1>9 DEF FailUndispatched, Stored, ActiveStatuses, TerminalStatuses
<1>10. CASE RecordLaunch(s)
  BY <1>10 DEF RecordLaunch
<1>11. CASE ApiCrash(s)
  BY <1>11 DEF ApiCrash
<1>12. QED
  BY <1>2, <1>3, <1>4, <1>5, <1>6, <1>7, <1>8, <1>9, <1>10, <1>11
  DEF HandlerStep

LEMMA WorkerTruthful ==
  ASSUME TypeOK, Ownership, TruthfulOwnership, Faults \subseteq TruthfulFaults,
         NEW w \in Workers, WorkerStep(w)
  PROVE  TruthfulOwnership'
<1>1. "db" \notin Faults
  BY DEF TruthfulFaults
<1> USE ConstantsAssumption
    DEF TypeOK, Ownership, SingleOwner, TruthfulOwnership, WorkerMoves, dbVars
<1>2. CASE Claim(w)
  BY <1>2 DEF Claim, Claimable
<1>3. CASE Skip(w)
  BY <1>3 DEF Skip, Claimable
<1>4. CASE RejectTargets(w)
  BY <1>4 DEF RejectTargets, Claimable
<1>5. CASE ClaimError(w)
  BY <1>1, <1>5 DEF ClaimError
<1>6. CASE NmapReturns(w)
  BY <1>6 DEF NmapReturns
<1>7. CASE NmapFails(w)
  BY <1>7 DEF NmapFails
<1>8. CASE Store(w)
  BY <1>8 DEF Store, Finish, Stored, ActiveStatuses, TerminalStatuses
<1>9. CASE StoreDeleted(w)
  BY <1>9 DEF StoreDeleted
<1>10. CASE StoreError(w)
  BY <1>1, <1>10 DEF StoreError
<1>11. CASE Compare(w)
  BY <1>11 DEF Compare
<1>12. CASE LateError(w)
  BY <1>12 DEF LateError
<1>13. CASE MarkFailed(w)
  <2>1. job[w] \in Scans
    BY <1>13 DEF MarkFailed
  <2>2. ASSUME NEW v \in Workers, phase[v] \in {"scanning", "storing"}
        PROVE  job[v] # job[w]
    <3>1. phase[w] = "failing" /\ claimed[v] /\ v # w
      BY <1>13, <2>2 DEF MarkFailed
    <3>2. CASE claimed[w]
      BY <3>1, <3>2
    <3>3. CASE ~claimed[w]
      BY <3>1, <3>3
    <3>4. QED
      BY <3>2, <3>3
  <2>3. QED
    BY <1>13, <2>1, <2>2 DEF MarkFailed, Finish, ActiveStatuses
<1>14. CASE MarkFailedLost(w)
  BY <1>1, <1>14 DEF MarkFailedLost
<1>15. CASE Ack(w)
  BY <1>15 DEF Ack, Release
<1>16. QED
  BY <1>2, <1>3, <1>4, <1>5, <1>6, <1>7, <1>8, <1>9, <1>10, <1>11, <1>12, <1>13, <1>14, <1>15
  DEF WorkerStep

LEMMA NextTruthful ==
  ASSUME Faults \subseteq TruthfulFaults
  PROVE  TypeOK /\ Ownership /\ TruthfulOwnership /\ [Next]_vars => TruthfulOwnership'
<1> SUFFICES ASSUME TypeOK, Ownership, TruthfulOwnership, [Next]_vars
             PROVE  TruthfulOwnership'
  OBVIOUS
<1> USE ConstantsAssumption DEF TypeOK, Ownership, TruthfulOwnership
<1>1. ASSUME NEW s \in Scans,
             \/ Admit(s) \/ RefuseQuota(s) \/ RefuseTargets(s)
             \/ Create(s) \/ CreateWithoutTenant(s) \/ HandlerStep(s) \/ ApiCrash(s)
      PROVE  TruthfulOwnership'
  BY <1>1, HandlerTruthful
<1>2. ASSUME NEW t \in Tenants, DeleteTenant(t) PROVE TruthfulOwnership'
  BY <1>2 DEF DeleteTenant, workerVars
<1>3. ASSUME NEW w \in Workers, NEW s \in Scans, Receive(w, s) PROVE TruthfulOwnership'
  BY <1>3 DEF Receive, WorkerMoves, dbVars
<1>4. ASSUME NEW w \in Workers, WorkerStep(w) PROVE TruthfulOwnership'
  BY <1>4, WorkerTruthful
<1>5. ASSUME NEW w \in Workers, Kill(w) PROVE TruthfulOwnership'
  BY <1>5 DEF Kill, Release, dbVars
<1>6. ASSUME NEW w \in Workers, VisibilityTimeout(w) PROVE TruthfulOwnership'
  BY <1>6 DEF VisibilityTimeout, dbVars
<1>7. ASSUME NEW w \in Workers, HardTimeLimit(w) PROVE TruthfulOwnership'
  BY <1>7 DEF HardTimeLimit, Release, dbVars
<1>8. CASE UNCHANGED vars
  BY <1>8 DEF vars, dbVars, workerVars
<1>9. QED
  BY <1>1, <1>2, <1>3, <1>4, <1>5, <1>6, <1>7, <1>8 DEF Next

\* Every step of the lifecycle is a step of ScanStatus, or changes nothing
\* that ScanStatus sees.
LEMMA StepRefines ==
  ASSUME Faults \subseteq TruthfulFaults
  PROVE  TypeOK /\ Ownership /\ TruthfulOwnership /\ [Next]_vars
           => [Abstract!Next]_(Abstract!statusVars)
<1> SUFFICES ASSUME TypeOK, Ownership, TruthfulOwnership, [Next]_vars
             PROVE  [Abstract!Next]_(Abstract!statusVars)
  OBVIOUS
<1> USE ConstantsAssumption
    DEF TypeOK, Ownership, TruthfulOwnership, Abstract!statusVars, Abstract!Active,
        ActiveStatuses, TerminalStatuses, Stored, dbVars
<1>1. ASSUME NEW s \in Scans, Create(s) PROVE Abstract!Next
  <2>1. Abstract!Launch(s)
    BY <1>1 DEF Create, HandlerMoves, Abstract!Launch
  <2>2. QED
    BY <2>1 DEF Abstract!Next
<1>2. ASSUME NEW s \in Scans, FailUndispatched(s)
      PROVE  Abstract!Next \/ UNCHANGED Abstract!statusVars
  <2>1. Abstract!Fail(s) \/ UNCHANGED Abstract!statusVars
    BY <1>2 DEF FailUndispatched, HandlerMoves, Abstract!Fail
  <2>2. QED
    BY <2>1 DEF Abstract!Next
<1>3. ASSUME NEW t \in Tenants, DeleteTenant(t) PROVE Abstract!Next
  <2>1. Abstract!Remove(ScansOf(t)) /\ ScansOf(t) \in SUBSET Scans
    BY <1>3 DEF DeleteTenant, ScansOf, Abstract!Remove
  <2>2. QED
    BY <2>1 DEF Abstract!Next
<1>4. ASSUME NEW w \in Workers, Claim(w) PROVE Abstract!Next
  <2>1. job[w] \in Scans
    BY <1>4 DEF Claim, WorkerMoves
  <2>2. Abstract!Claim(job[w])
    BY <1>4, <2>1 DEF Claim, Claimable, Abstract!Claim
  <2>3. QED
    BY <2>1, <2>2 DEF Abstract!Next
<1>5. ASSUME NEW w \in Workers, Store(w) PROVE Abstract!Next
  <2>1. job[w] \in Scans
    BY <1>5 DEF Store, WorkerMoves
  <2>2. row[job[w]] = "RUNNING"
    BY <1>5 DEF Store, WorkerMoves
  <2>3. Abstract!Complete(job[w])
    BY <1>5, <2>1, <2>2 DEF Store, Finish, Abstract!Complete
  <2>4. \E s \in Scans : Abstract!Complete(s)
    BY <2>1, <2>3 DEF Abstract!Complete
  <2>5. QED
    BY <2>4 DEF Abstract!Next
<1>6. ASSUME NEW w \in Workers, MarkFailed(w)
      PROVE  Abstract!Next \/ UNCHANGED Abstract!statusVars
  <2>1. job[w] \in Scans
    BY <1>6 DEF MarkFailed, WorkerMoves
  <2>2. Abstract!Fail(job[w]) \/ UNCHANGED Abstract!statusVars
    BY <1>6, <2>1 DEF MarkFailed, Finish, Abstract!Fail
  <2>3. QED
    BY <2>1, <2>2 DEF Abstract!Next
<1>7. ASSUME NEW s \in Scans,
             \/ Admit(s) \/ RefuseQuota(s) \/ RefuseTargets(s)
             \/ CreateWithoutTenant(s) \/ ApiCrash(s)
             \/ Dispatch(s) \/ DispatchError(s) \/ DispatchUncaught(s)
             \/ RecordLaunch(s)
      PROVE  UNCHANGED Abstract!statusVars
  <2>1. UNCHANGED <<row, findings>>
    BY <1>7 DEF Admit, RefuseQuota, RefuseTargets, CreateWithoutTenant,
       ApiCrash, Dispatch, DispatchError, DispatchUncaught, RecordLaunch
  <2>2. QED
    BY <2>1
<1>8. ASSUME NEW w \in Workers,
             \/ WorkerStep(w) /\ ~Claim(w) /\ ~Store(w) /\ ~MarkFailed(w)
             \/ Kill(w) \/ VisibilityTimeout(w) \/ HardTimeLimit(w)
             \/ \E s \in Scans : Receive(w, s)
      PROVE  UNCHANGED Abstract!statusVars
  <2>1. UNCHANGED <<row, findings>>
    BY <1>8 DEF WorkerStep, Skip, RejectTargets, ClaimError, NmapReturns,
       NmapFails, StoreDeleted, StoreError, Compare, LateError,
       MarkFailedLost, Ack, Kill, VisibilityTimeout, HardTimeLimit, Receive
  <2>2. QED
    BY <2>1
<1>9. CASE UNCHANGED vars
  BY <1>9 DEF vars
<1>10. Next \/ UNCHANGED vars
  OBVIOUS
<1>11. QED
  BY <1>1, <1>2, <1>3, <1>4, <1>5, <1>6, <1>7, <1>8, <1>9, <1>10
  DEF Next, HandlerStep

\* Under crashes, kills, redelivery and time limits the lifecycle implements
\* the documented progression of a scan, its findings included.
THEOREM LifecycleImplementsStatus ==
  ASSUME Faults \subseteq TruthfulFaults
  PROVE  Spec => ImplementsScanStatus
<1>1. Init => TruthfulOwnership
  BY ConstantsAssumption DEF Init, TruthfulOwnership
<1>2. Init => Abstract!Init
  BY DEF Init, Abstract!Init
<1>3. QED
  BY OwnershipInvariant, <1>1, NextTruthful, <1>2, StepRefines, PTL
  DEF Spec, ImplementsScanStatus, Abstract!Spec

(***************************************************************************)
(* What the code does not keep, and what it takes to break it              *)
(***************************************************************************)
\* QuotaRespected: with one request of a tenant at a time between the count and
\* the insert, no tenant ever has more active scans than its quota.  The race
\* of two is all that breaks it.
THEOREM QuotaHoldsOneAtATime ==
  ASSUME MaxHandlers = 1
  PROVE  Spec => []QuotaRespected
<1>1. QuotaOvershootBounded => QuotaRespected
  <2> SUFFICES ASSUME QuotaOvershootBounded, NEW t \in Tenants
               PROVE  Cardinality(Active(t)) <= MaxConcurrent
    BY DEF QuotaRespected
  <2>1. Active(t) \subseteq Scans /\ Admitted(t) \subseteq Scans
    BY DEF Active, Admitted, ScansOf
  <2>2. Cardinality(Active(t)) \in Nat /\ Cardinality(Admitted(t)) \in Nat
    BY <2>1, FS_Subset, FS_CardinalityType, ConstantsAssumption
  <2>3. Cardinality(Active(t)) + Cardinality(Admitted(t)) <= MaxConcurrent + 1 - 1
    BY DEF QuotaOvershootBounded
  <2>4. QED
    BY <2>2, <2>3, ConstantsAssumption
<1>2. QED
  BY <1>1, QuotaOvershoot, PTL

\* The requests that have left no message: those that did not call send_task, and
\* those it answered with an exception that was the truth.
Unsent(s) ==
  \/ api[s] \in {"idle", "admitted", "created"}
  \/ api[s] = "undispatched" /\ "send" \notin Faults

\* Whatever the database does, no worker knows such a scan or touched its row.
UntouchedUntilSent ==
  \A s \in Scans :
    Unsent(s) => /\ queue[s] = 0
                 /\ \A w \in Workers : job[w] # s
                 /\ api[s] \in {"created", "undispatched"} =>
                      row[s] \in {"PENDING", "deleted"}

\* Only a worker whose own policy accepts the targets makes a scan RUNNING.
RunningIsScannable == \A s \in Scans : row[s] = "RUNNING" => s \in Scannable

LEMMA NextUntouched ==
  ASSUME TypeOK, Ownership, UntouchedUntilSent, [Next]_vars
  PROVE  UntouchedUntilSent'
<1> USE ConstantsAssumption DEF TypeOK, Ownership, UntouchedUntilSent, Unsent, HandlerMoves, dbVars
<1>1. ASSUME NEW s \in Scans,
             \/ Admit(s) \/ RefuseQuota(s) \/ RefuseTargets(s) \/ CreateWithoutTenant(s)
             \/ ApiCrash(s) \/ RecordLaunch(s)
      PROVE  UntouchedUntilSent'
  BY <1>1 DEF Admit, RefuseQuota, RefuseTargets, CreateWithoutTenant, ApiCrash,
     RecordLaunch, workerVars
<1>2. ASSUME NEW s \in Scans, Create(s) PROVE UntouchedUntilSent'
  BY <1>2 DEF Create, workerVars
<1>3. ASSUME NEW s \in Scans, Dispatch(s) \/ DispatchError(s) \/ DispatchUncaught(s)
      PROVE  UntouchedUntilSent'
  BY <1>3 DEF Dispatch, DispatchError, DispatchUncaught, SendRaises, workerVars
<1>4. ASSUME NEW s \in Scans, FailUndispatched(s) PROVE UntouchedUntilSent'
  BY <1>4 DEF FailUndispatched, Stored, ActiveStatuses, TerminalStatuses, workerVars
<1>5. ASSUME NEW t \in Tenants, DeleteTenant(t) PROVE UntouchedUntilSent'
  BY <1>5 DEF DeleteTenant, workerVars
<1>6. ASSUME NEW w \in Workers, NEW s \in Scans, Receive(w, s) PROVE UntouchedUntilSent'
  BY <1>6 DEF Receive, WorkerMoves
<1>7. ASSUME NEW w \in Workers, Claim(w) \/ Store(w) \/ MarkFailed(w)
      PROVE  UntouchedUntilSent'
  <2>1. job[w] \in Scans /\ UNCHANGED <<api, queue, job>>
    BY <1>7 DEF Claim, Store, MarkFailed, WorkerMoves
  <2>2. \A s \in Scans : s # job[w] => row'[s] = row[s]
    BY <1>7, <2>1 DEF Claim, Store, MarkFailed, Finish
  <2>3. QED
    BY <2>1, <2>2
<1>8. ASSUME NEW w \in Workers, WorkerStep(w), ~Claim(w), ~Store(w), ~MarkFailed(w)
      PROVE  UntouchedUntilSent'
  <2>1. CASE Ack(w)
    BY <2>1 DEF Ack, Release
  <2>2. CASE ~Ack(w)
    <3>1. UNCHANGED <<api, queue, job, row>>
      BY <1>8, <2>2 DEF WorkerStep, Skip, RejectTargets, ClaimError, NmapReturns,
         NmapFails, StoreDeleted, StoreError, Compare, LateError, MarkFailedLost
    <3>2. QED
      BY <3>1
  <2>3. QED
    BY <2>1, <2>2
<1>9. ASSUME NEW w \in Workers, Kill(w) \/ VisibilityTimeout(w) \/ HardTimeLimit(w)
      PROVE  UntouchedUntilSent'
  BY <1>9 DEF Kill, VisibilityTimeout, HardTimeLimit, Release
<1>10. CASE UNCHANGED vars
  BY <1>10 DEF vars, workerVars
<1>11. QED
  BY <1>1, <1>2, <1>3, <1>4, <1>5, <1>6, <1>7, <1>8, <1>9, <1>10 DEF Next, HandlerStep

\* The rows that a step may change, and how.
LEMMA RowSteps ==
  ASSUME TypeOK, Ownership, [Next]_vars, NEW s \in Scans, row'[s] # row[s]
  PROVE  \/ row'[s] = "deleted"
         \/ row[s] = "none" /\ row'[s] = "PENDING" /\ Create(s)
         \/ /\ row[s] = "PENDING" /\ row'[s] = "RUNNING" /\ s \in Scannable
            /\ \E w \in Workers : job[w] = s
         \/ row'[s] = "FAILED" /\ FailUndispatched(s)
         \/ /\ row[s] \in ActiveStatuses /\ row'[s] = "COMPLETED"
            /\ \E w \in Workers : job[w] = s
         \/ /\ row[s] \in ActiveStatuses /\ row'[s] = "FAILED"
            /\ \E w \in Workers : job[w] = s /\ MarkFailed(w)
<1> USE ConstantsAssumption DEF TypeOK, Ownership, HandlerMoves, dbVars
<1>1. ASSUME NEW r \in Scans, Create(r) PROVE r = s /\ row[s] = "none" /\ row'[s] = "PENDING"
  BY <1>1 DEF Create
<1>2. ASSUME NEW r \in Scans, FailUndispatched(r) PROVE r = s /\ row'[s] = "FAILED"
  BY <1>2 DEF FailUndispatched
<1>3. ASSUME NEW r \in Scans,
             \/ Admit(r) \/ RefuseQuota(r) \/ RefuseTargets(r) \/ CreateWithoutTenant(r)
             \/ ApiCrash(r) \/ Dispatch(r) \/ DispatchError(r) \/ DispatchUncaught(r)
             \/ RecordLaunch(r)
      PROVE  FALSE
  BY <1>3 DEF Admit, RefuseQuota, RefuseTargets, CreateWithoutTenant, ApiCrash, Dispatch,
     DispatchError, DispatchUncaught, RecordLaunch
<1>4. ASSUME NEW t \in Tenants, DeleteTenant(t) PROVE row'[s] = "deleted"
  BY <1>4 DEF DeleteTenant
<1>5. ASSUME NEW w \in Workers, Claim(w)
      PROVE  row[s] = "PENDING" /\ row'[s] = "RUNNING" /\ s \in Scannable /\ job[w] = s
  BY <1>5 DEF Claim, Claimable
<1>6. ASSUME NEW w \in Workers, Store(w)
      PROVE  row[s] \in ActiveStatuses /\ row'[s] = "COMPLETED" /\ job[w] = s
  BY <1>6 DEF Store, Finish
<1>7. ASSUME NEW w \in Workers, MarkFailed(w)
      PROVE  row[s] \in ActiveStatuses /\ row'[s] = "FAILED" /\ job[w] = s
  BY <1>7 DEF MarkFailed, Finish
<1>8. ASSUME NEW w \in Workers,
             \/ WorkerStep(w) /\ ~Claim(w) /\ ~Store(w) /\ ~MarkFailed(w)
             \/ Kill(w) \/ VisibilityTimeout(w) \/ HardTimeLimit(w)
             \/ \E r \in Scans : Receive(w, r)
      PROVE  FALSE
  BY <1>8 DEF WorkerStep, Skip, RejectTargets, ClaimError, NmapReturns, NmapFails,
     StoreDeleted, StoreError, Compare, LateError, MarkFailedLost, Ack, Kill,
     VisibilityTimeout, HardTimeLimit, Receive
<1>9. ~ UNCHANGED vars
  BY DEF vars
<1>10. QED
  BY <1>1, <1>2, <1>3, <1>4, <1>5, <1>6, <1>7, <1>8, <1>9 DEF Next, HandlerStep

\* TerminalIsFinal: with a send_task that tells the truth a COMPLETED or FAILED
\* row changes no more, even when transactions of the workers are aborted,
\* messages delivered twice and processes killed: only the 503 path overwrites.
THEOREM TerminalStatesAreFinal ==
  ASSUME "send" \notin Faults
  PROVE  Spec => TerminalIsFinal
<1>1. Init => UntouchedUntilSent
  BY ConstantsAssumption DEF Init, UntouchedUntilSent
<1>2. TypeOK /\ Ownership /\ UntouchedUntilSent /\ [Next]_vars => UntouchedUntilSent'
  BY NextUntouched
<1>3. TypeOK /\ Ownership /\ UntouchedUntilSent /\ [Next]_vars =>
        [\A s \in Scans : row[s] \in TerminalStatuses => row'[s] \in {row[s], "deleted"}]_vars
  <2> SUFFICES ASSUME TypeOK, Ownership, UntouchedUntilSent, [Next]_vars,
                      NEW s \in Scans, row[s] \in TerminalStatuses,
                      row'[s] # row[s], row'[s] # "deleted"
               PROVE  FALSE
    OBVIOUS
  <2>1. row[s] \notin ActiveStatuses \cup {"none", "PENDING", "deleted"}
    BY DEF TerminalStatuses, ActiveStatuses
  <2>2. FailUndispatched(s)
    BY <2>1, RowSteps
  <2>3. row[s] \in {"PENDING", "deleted"}
    BY <2>2 DEF FailUndispatched, HandlerMoves, UntouchedUntilSent, Unsent
  <2>4. QED
    BY <2>1, <2>3
<1>4. QED
  BY <1>1, <1>2, <1>3, OwnershipInvariant, PTL DEF Spec, TerminalIsFinal

\* OnlyOwnerFails: when send_task and the database tell the truth, a running scan
\* is failed by nobody but the task that claimed it, however often its message
\* is delivered beside it.
THEOREM OthersDoNotFail ==
  ASSUME Faults \subseteq TruthfulFaults
  PROVE  Spec => OnlyOwnerFails
<1>1. Init => TruthfulOwnership /\ RunningIsScannable
  BY ConstantsAssumption DEF Init, TruthfulOwnership, RunningIsScannable
<1>2. TypeOK /\ Ownership /\ RunningIsScannable /\ [Next]_vars => RunningIsScannable'
  <2> SUFFICES ASSUME TypeOK, Ownership, RunningIsScannable, [Next]_vars,
                      NEW s \in Scans, row'[s] = "RUNNING"
               PROVE  s \in Scannable
    BY DEF RunningIsScannable
  <2>1. CASE row'[s] = row[s]
    BY <2>1 DEF RunningIsScannable
  <2>2. CASE row'[s] # row[s]
    BY <2>2, RowSteps
  <2>3. QED
    BY <2>1, <2>2
<1>3. TypeOK /\ Ownership /\ TruthfulOwnership /\ RunningIsScannable /\ [Next]_vars =>
        [\A s \in Scans :
           row[s] = "RUNNING" /\ row'[s] = "FAILED" =>
             \E w \in Workers : job[w] = s /\ claimed[w] /\ phase[w] = "failing"]_vars
  <2> SUFFICES ASSUME TypeOK, Ownership, TruthfulOwnership, RunningIsScannable, [Next]_vars,
                      NEW s \in Scans, row[s] = "RUNNING", row'[s] = "FAILED"
               PROVE  \E w \in Workers : job[w] = s /\ claimed[w] /\ phase[w] = "failing"
    OBVIOUS
  <2>1. ~FailUndispatched(s)
    BY DEF FailUndispatched, HandlerMoves, TruthfulOwnership
  <2>2. PICK w \in Workers : job[w] = s /\ MarkFailed(w)
    BY <2>1, RowSteps
  <2>3. phase[w] = "failing"
    BY <2>2 DEF MarkFailed, WorkerMoves
  <2>4. claimed[w]
    BY <2>2, <2>3 DEF TruthfulOwnership, RunningIsScannable, TypeOK
  <2>5. QED
    BY <2>2, <2>3, <2>4
<1>4. QED
  BY <1>1, <1>2, <1>3, NextTruthful, OwnershipInvariant, PTL DEF Spec, OnlyOwnerFails

\* NeverPendingForever, refuted for good: an orphan stays one until its tenant is
\* deleted.  No request, message, worker or fault of the environment ends its
\* wait, so it holds a slot of its tenant's quota for as long.
LEMMA OrphanStays ==
  ASSUME TypeOK, Ownership, [Next]_vars, NEW s \in Scans, Orphaned(s)
  PROVE  Orphaned(s)' \/ row'[s] = "deleted"
<1> USE ConstantsAssumption DEF TypeOK, Ownership, Orphaned
<1>1. row'[s] = row[s] \/ row'[s] = "deleted"
  <2>1. ~Create(s) /\ ~FailUndispatched(s)
    BY DEF Create, FailUndispatched, HandlerMoves
  <2>2. QED
    BY <2>1, RowSteps
<1> DEFINE Unknown == queue[s] = 0 /\ \A w \in Workers : job[w] # s
<1>2. api'[s] = "gone" /\ Unknown'
  <2>1. ASSUME NEW r \in Scans,
               \/ Admit(r) \/ RefuseQuota(r) \/ RefuseTargets(r) \/ Create(r)
               \/ CreateWithoutTenant(r) \/ HandlerStep(r) \/ ApiCrash(r)
        PROVE  api'[s] = "gone" /\ Unknown'
    BY <2>1 DEF Admit, RefuseQuota, RefuseTargets, Create, CreateWithoutTenant,
       HandlerStep, Dispatch, DispatchError, DispatchUncaught, SendRaises,
       FailUndispatched, RecordLaunch, ApiCrash, HandlerMoves, workerVars
  <2>2. ASSUME NEW t \in Tenants, DeleteTenant(t) PROVE api'[s] = "gone" /\ Unknown'
    BY <2>2 DEF DeleteTenant, workerVars
  <2>3. ASSUME NEW w \in Workers, NEW r \in Scans, Receive(w, r)
        PROVE  api'[s] = "gone" /\ Unknown'
    BY <2>3 DEF Receive, WorkerMoves
  <2>4. ASSUME NEW w \in Workers, WorkerStep(w) PROVE api'[s] = "gone" /\ Unknown'
    <3>1. api' = api /\ queue' = queue /\ (job' = job \/ job' = [job EXCEPT ![w] = NoScan])
      BY <2>4 DEF WorkerStep, Claim, Skip, RejectTargets, ClaimError, NmapReturns,
         NmapFails, Store, StoreDeleted, StoreError, Compare, LateError, MarkFailed,
         MarkFailedLost, Ack, Release
    <3>2. QED
      BY <3>1
  <2>5. ASSUME NEW w \in Workers, Kill(w) \/ VisibilityTimeout(w) \/ HardTimeLimit(w)
        PROVE  api'[s] = "gone" /\ Unknown'
    BY <2>5 DEF Kill, VisibilityTimeout, HardTimeLimit, Release
  <2>6. CASE UNCHANGED vars
    BY <2>6 DEF vars, workerVars
  <2>7. QED
    BY <2>1, <2>2, <2>3, <2>4, <2>5, <2>6 DEF Next
<1>3. QED
  BY <1>1, <1>2

\* The same of every behaviour, under every fault.
THEOREM OrphansWaitForever ==
  Spec => [][\A s \in Scans : Orphaned(s) => Orphaned(s)' \/ row'[s] = "deleted"]_vars
<1>1. TypeOK /\ Ownership /\ [Next]_vars =>
        [\A s \in Scans : Orphaned(s) => Orphaned(s)' \/ row'[s] = "deleted"]_vars
  BY OrphanStays
<1>2. QED
  BY OwnershipInvariant, <1>1, PTL DEF Spec

\* A request that has ended without an event has left no row behind, or one that
\* nothing will pick up.
Audited ==
  \A s \in Scans :
    /\ api[s] = "done" => s \in trail
    /\ api[s] = "gone" => row[s] \in {"none", "deleted"} \/ Orphaned(s)

\* CompletedIsAudited: a scan that has run to completion after its request ended
\* has its event, although the event is committed after the scan was dispatched,
\* as long as no API process dies in between and send_task does not raise an
\* exception that escapes the handler over a message that did arrive.
THEOREM CompletedScansAreAudited ==
  ASSUME "api" \notin Faults, ~({"send", "broker"} \subseteq Faults)
  PROVE  Spec => []CompletedIsAudited
<1>1. Init => Audited /\ UntouchedUntilSent
  BY ConstantsAssumption DEF Init, Audited, UntouchedUntilSent
<1>2. TypeOK /\ Ownership /\ UntouchedUntilSent /\ [Next]_vars => UntouchedUntilSent'
  BY NextUntouched
<1>3. TypeOK /\ Ownership /\ UntouchedUntilSent /\ Audited /\ [Next]_vars => Audited'
  <2> SUFFICES ASSUME TypeOK, Ownership, UntouchedUntilSent, Audited, [Next]_vars,
                      NEW s \in Scans
               PROVE  /\ api'[s] = "done" => s \in trail'
                      /\ api'[s] = "gone" =>
                           row'[s] \in {"none", "deleted"} \/ Orphaned(s)'
    BY DEF Audited
  <2>1. trail \subseteq trail'
    BY DEF Next, vars, dbVars, Admit, RefuseQuota, RefuseTargets, Create, CreateWithoutTenant,
       HandlerStep, Dispatch, DispatchError, DispatchUncaught, FailUndispatched, RecordLaunch,
       ApiCrash,
       DeleteTenant, Receive, WorkerStep, Claim, Skip, RejectTargets, ClaimError,
       NmapReturns, NmapFails, Store, StoreDeleted, StoreError, Compare, LateError,
       MarkFailed, MarkFailedLost, Ack, Kill, VisibilityTimeout, HardTimeLimit
  <2>2. CASE api'[s] = api[s]
    <3>1. ASSUME api[s] = "gone"
          PROVE  row'[s] \in {"none", "deleted"} \/ Orphaned(s)'
      <4>1. CASE Orphaned(s)
        BY <4>1, OrphanStays
      <4>2. CASE row[s] \in {"none", "deleted"}
        <5>1. ~Create(s) /\ ~FailUndispatched(s)
          BY <3>1 DEF Create, FailUndispatched, HandlerMoves
        <5>2. QED
          BY <4>2, <5>1, RowSteps DEF ActiveStatuses
      <4>3. QED
        BY <3>1, <4>1, <4>2 DEF Audited
    <3>2. QED
      BY <2>1, <2>2, <3>1 DEF Audited
  <2>3. CASE api'[s] # api[s]
    <3>1. \/ Admit(s) \/ RefuseQuota(s) \/ RefuseTargets(s)
          \/ Create(s) \/ CreateWithoutTenant(s) \/ HandlerStep(s)
      BY <2>3 DEF Next, vars, Admit, RefuseQuota, RefuseTargets, Create, CreateWithoutTenant,
         HandlerStep, Dispatch, DispatchError, DispatchUncaught, FailUndispatched, RecordLaunch,
         ApiCrash,
         HandlerMoves, TypeOK, dbVars,
         DeleteTenant, Receive, WorkerStep, Claim, Skip, RejectTargets, ClaimError,
         NmapReturns, NmapFails, Store, StoreDeleted, StoreError, Compare, LateError,
         MarkFailed, MarkFailedLost, Ack, Kill, VisibilityTimeout, HardTimeLimit
    <3>2. CASE \/ Admit(s) \/ RefuseQuota(s) \/ RefuseTargets(s)
               \/ Create(s) \/ Dispatch(s) \/ DispatchError(s)
      BY <3>2 DEF Admit, RefuseQuota, RefuseTargets, Create, Dispatch, DispatchError,
         HandlerMoves, TypeOK
    <3>3. CASE CreateWithoutTenant(s)
      BY <3>3 DEF CreateWithoutTenant, HandlerMoves, TypeOK, Ownership, dbVars
    <3>4. CASE DispatchUncaught(s)
      <4>1. "send" \notin Faults /\ api[s] = "created"
        BY <3>4 DEF DispatchUncaught, HandlerMoves
      <4>2. /\ row[s] \in {"PENDING", "deleted"}
            /\ \A w \in Workers : job[w] # s
        BY <4>1 DEF UntouchedUntilSent, Unsent
      <4>3. queue'[s] = 0
        BY <3>4, <4>1, ConstantsAssumption DEF DispatchUncaught, SendRaises, TypeOK
      <4>4. api'[s] = "gone" /\ row' = row /\ job' = job
        BY <3>4 DEF DispatchUncaught, HandlerMoves, TypeOK, dbVars, workerVars
      <4>5. QED
        BY <4>2, <4>3, <4>4 DEF Orphaned
    <3>5. CASE FailUndispatched(s)
      BY <3>5 DEF FailUndispatched, HandlerMoves, TypeOK, Statuses, Stored
    <3>6. CASE RecordLaunch(s)
      BY <3>6 DEF RecordLaunch, HandlerMoves, TypeOK
    <3>7. QED
      BY <3>1, <3>2, <3>3, <3>4, <3>5, <3>6 DEF HandlerStep
  <2>4. QED
    BY <2>2, <2>3
<1>4. Audited => CompletedIsAudited
  BY DEF Audited, CompletedIsAudited, Orphaned
<1>5. QED
  BY <1>1, <1>2, <1>3, <1>4, OwnershipInvariant, PTL DEF Spec
=============================================================================
