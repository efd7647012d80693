---------------------------- MODULE ScanReports ----------------------------
(***************************************************************************)
(* What a tenant is told about its network: the summary a worker computes  *)
(* at the end of a scan, against a baseline it read when it claimed it,    *)
(* and the report the API derives on every read, in up to five statements  *)
(* of READ COMMITTED isolation, while scans complete and tenants go.       *)
(*                                                                         *)
(* Who claims a scan and how it fails is the subject of ScanLifecycle,     *)
(* where a scan is shown to have one owner: here a scan is its own worker. *)
(***************************************************************************)
EXTENDS ScanDiff, Naturals, FiniteSets

CONSTANTS
  Scans, Tenants, Owner,
  MaxActive,    \* scans of one tenant that are pending or running at once
  Networks,     \* the states a tenant's network can be in, see IsNetwork
  Down,         \* the state of a host that does not answer
  NoScan        \* no previous scan

\* A host that answers has a set of open ports, which may be empty.
IsNetwork(n) == n \in [Hosts -> HostSnapshots \cup {Down}]

ASSUME ReportsAssumption ==
  /\ Owner \in [Scans -> Tenants]
  /\ MaxActive \in Nat \ {0}
  /\ \A n \in Networks : IsNetwork(n)
  /\ Networks # {}
  /\ NoScan \notin Scans

VARIABLES
  tenants,   \* tenants that exist
  network,   \* [Tenants -> Networks]
  status,    \* [Scans -> Statuses]
  task,      \* [Scans -> Tasks]: how far the worker of the scan has got
  base,      \* [Scans -> Scans or NoScan]: the scan whose results are its baseline
  baseline,  \* [Scans -> Snapshots or NoBaseline]: those results, as read
  seen,      \* [Scans -> Networks]: the network when Nmap looked at it
  clock,     \* finish times given so far
  finished,  \* [Scans -> 0..clock]: scans.finished_at, 0 for NULL
  stored,    \* [Scans -> Snapshots]: scan_results
  reader     \* a request for the report of one scan

scanVars == <<tenants, network, status, task, base, baseline, seen, clock, finished, stored>>
vars     == <<scanVars, reader>>

Statuses == {"none", "PENDING", "RUNNING", "COMPLETED", "FAILED", "deleted"}
Tasks    == {"waiting", "scanning", "seen", "writing", "over"}
Empty    == [h \in {} |-> h]   \* the snapshot without hosts

Phases == {"idle", "results", "current", "previous", "baseline", "done"}
Reader == [phase    : Phases,
           scan     : Scans \cup {NoScan},
           status   : Statuses,
           results  : Snapshots,
           current  : Snapshots,
           previous : Scans \cup {NoScan},
           before   : Snapshots]

NoReport == [phase |-> "idle", scan |-> NoScan, status |-> "none", results |-> Empty,
             current |-> Empty, previous |-> NoScan, before |-> Empty]

TypeOK ==
  /\ tenants \subseteq Tenants
  /\ network \in [Tenants -> Networks]
  /\ status \in [Scans -> Statuses]
  /\ task \in [Scans -> Tasks]
  /\ base \in [Scans -> Scans \cup {NoScan}]
  /\ baseline \in [Scans -> Snapshots \cup {NoBaseline}]
  /\ seen \in [Scans -> Networks]
  /\ clock \in Nat
  /\ finished \in [Scans -> 0..clock]
  /\ stored \in [Scans -> Snapshots]
  /\ reader \in Reader

Init ==
  /\ tenants = Tenants
  /\ network \in [Tenants -> Networks]
  /\ status = [s \in Scans |-> "none"]
  /\ task = [s \in Scans |-> "waiting"]
  /\ base = [s \in Scans |-> NoScan]
  /\ baseline = [s \in Scans |-> NoBaseline]
  /\ seen = [s \in Scans |-> CHOOSE n \in Networks : TRUE]
  /\ clock = 0
  /\ finished = [s \in Scans |-> 0]
  /\ stored = [s \in Scans |-> Empty]
  /\ reader = NoReport

ScansOf(t) == {s \in Scans : Owner[s] = t}
Active(t)  == {s \in ScansOf(t) : status[s] \in {"PENDING", "RUNNING"}}

\* parse_nmap_xml keeps hosts that are up and have an open port; the list of
\* quiet hosts it also makes goes no further than the task's return value.
Answering(n) == {h \in Hosts : n[h] # Down}
Quiet(n)     == {h \in Answering(n) : DOMAIN n[h] = {}}

\* Mutant of Findings: hosts that do not answer are kept too.
FindingsOfAll(n) == Restrict(n, Hosts \ Quiet(n))

Findings(n) == Restrict(n, Answering(n) \ Quiet(n))

\* Mutant of Candidates: a scan may be compared with itself.
CandidatesWithSelf(s) == {c \in ScansOf(Owner[s]) : status[c] = "COMPLETED"}

\* Mutant of Candidates: a scan that has not completed is a baseline too.
CandidatesInAnyState(s) == {c \in ScansOf(Owner[s]) : status[c] # "none"} \ {s}

\* Completed scans of the same tenant, this one excepted ...
Candidates(s) == CandidatesWithSelf(s) \ {s}

\* Mutant of Previous: the order is the wrong way round.
Oldest(s) ==
  IF Candidates(s) = {} THEN NoScan
  ELSE CHOOSE c \in Candidates(s) : \A d \in Candidates(s) : finished[c] <= finished[d]

\* ... of which the one that finished last is the previous scan.
Previous(s) ==
  IF Candidates(s) = {} THEN NoScan
  ELSE CHOOSE c \in Candidates(s) : \A d \in Candidates(s) : finished[d] <= finished[c]

(***************************************************************************)
(* The network and the scans                                               *)
(***************************************************************************)
NetworkChanges(t) ==
  /\ \E n \in Networks \ {network[t]} : network' = [network EXCEPT ![t] = n]
  /\ UNCHANGED <<tenants, status, task, base, baseline, seen, clock, finished, stored, reader>>

Launch(s) ==
  /\ status[s] = "none"
  /\ Owner[s] \in tenants
  /\ Cardinality(Active(Owner[s])) < MaxActive
  /\ status' = [status EXCEPT ![s] = "PENDING"]
  /\ UNCHANGED <<tenants, network, task, base, baseline, seen, clock, finished, stored, reader>>

\* The first transaction of the task claims the row and reads the baseline.
Claim(s) ==
  /\ status[s] = "PENDING"
  /\ status' = [status EXCEPT ![s] = "RUNNING"]
  /\ task' = [task EXCEPT ![s] = "scanning"]
  /\ base' = [base EXCEPT ![s] = Previous(s)]
  /\ baseline' = [baseline EXCEPT ![s] = IF Previous(s) = NoScan THEN NoBaseline
                                         ELSE stored[Previous(s)]]
  /\ UNCHANGED <<tenants, network, seen, clock, finished, stored, reader>>

\* run_nmap, outside any transaction.
Nmap(s) ==
  /\ task[s] = "scanning"
  /\ task' = [task EXCEPT ![s] = "seen"]
  /\ seen' = [seen EXCEPT ![s] = network[Owner[s]]]
  /\ UNCHANGED <<tenants, network, status, base, baseline, clock, finished, stored, reader>>

\* Mutant of Write: the status is committed before the findings.
WriteStatusFirst(s) ==
  /\ task[s] = "seen"
  /\ status[s] = "RUNNING"
  /\ task' = [task EXCEPT ![s] = "writing"]
  /\ clock' = clock + 1
  /\ finished' = [finished EXCEPT ![s] = clock + 1]
  /\ status' = [status EXCEPT ![s] = "COMPLETED"]
  /\ UNCHANGED <<tenants, network, base, baseline, seen, stored, reader>>

\* The statements of the second transaction, which take the finish time; the
\* row stays locked, and what they wrote invisible, until the commit.
Write(s) ==
  /\ task[s] = "seen"
  /\ status[s] = "RUNNING"
  /\ task' = [task EXCEPT ![s] = "writing"]
  /\ clock' = clock + 1
  /\ finished' = [finished EXCEPT ![s] = clock + 1]
  /\ UNCHANGED <<tenants, network, status, base, baseline, seen, stored, reader>>

\* The findings and the status that announces them become visible together.
Commit(s) ==
  /\ task[s] = "writing"
  /\ task' = [task EXCEPT ![s] = "over"]
  /\ status' = [status EXCEPT ![s] = "COMPLETED"]
  /\ stored' = [stored EXCEPT ![s] = Findings(seen[s])]
  /\ UNCHANGED <<tenants, network, base, baseline, seen, clock, finished, reader>>

\* The dispatch failed: the API fails the row and leaves its finish time NULL.
FailUndispatched(s) ==
  /\ status[s] = "PENDING"
  /\ status' = [status EXCEPT ![s] = "FAILED"]
  /\ UNCHANGED <<tenants, network, task, base, baseline, seen, clock, finished, stored, reader>>

\* Any exception of the task, in its first transaction, in Nmap or, with a
\* rollback of what was written, in the second.
Fail(s) ==
  /\ status[s] \in {"PENDING", "RUNNING"}
  /\ status' = [status EXCEPT ![s] = "FAILED"]
  /\ task' = [task EXCEPT ![s] = "over"]
  /\ clock' = clock + 1
  /\ finished' = [finished EXCEPT ![s] = clock + 1]
  /\ UNCHANGED <<tenants, network, base, baseline, seen, stored, reader>>

\* The cascade waits for the lock of a row that is being written; a task of a
\* deleted scan goes on but has nothing left to write to.
DeleteTenant(t) ==
  /\ t \in tenants
  /\ \A s \in ScansOf(t) : task[s] # "writing"
  /\ tenants' = tenants \ {t}
  /\ status' = [s \in Scans |-> IF Owner[s] = t /\ status[s] # "none" THEN "deleted" ELSE status[s]]
  /\ task' = [s \in Scans |-> IF Owner[s] = t THEN "over" ELSE task[s]]
  /\ stored' = [s \in Scans |-> IF Owner[s] = t THEN Empty ELSE stored[s]]
  /\ UNCHANGED <<network, base, baseline, seen, clock, finished, reader>>

(***************************************************************************)
(* The report of one scan, statement by statement                          *)
(***************************************************************************)
\* get_scan; a scan that is gone is a 404.
Open(s) ==
  /\ reader.phase \in {"idle", "done"}
  /\ status[s] \notin {"none", "deleted"}
  /\ reader' = [NoReport EXCEPT !.phase = "results", !.scan = s, !.status = status[s]]
  /\ UNCHANGED scanVars

\* list_scan_results for the body; only a COMPLETED scan is compared.
ReadResults ==
  /\ reader.phase = "results"
  /\ reader' = [reader EXCEPT !.results = stored[reader.scan],
                              !.phase = IF reader.status = "COMPLETED" THEN "current" ELSE "done"]
  /\ UNCHANGED scanVars

\* The same statement again, in _build_diff.
ReadCurrent ==
  /\ reader.phase = "current"
  /\ reader' = [reader EXCEPT !.current = stored[reader.scan], !.phase = "previous"]
  /\ UNCHANGED scanVars

ReadPrevious ==
  /\ reader.phase = "previous"
  /\ reader' = [reader EXCEPT !.previous = Previous(reader.scan),
                              !.phase = IF Previous(reader.scan) = NoScan THEN "done" ELSE "baseline"]
  /\ UNCHANGED scanVars

ReadBaseline ==
  /\ reader.phase = "baseline"
  /\ reader' = [reader EXCEPT !.before = stored[reader.previous], !.phase = "done"]
  /\ UNCHANGED scanVars

Next ==
  \/ \E t \in Tenants : NetworkChanges(t) \/ DeleteTenant(t)
  \/ \E s \in Scans : Launch(s) \/ Claim(s) \/ Nmap(s) \/ Write(s) \/ Commit(s)
  \/ \E s \in Scans : FailUndispatched(s) \/ Fail(s)
  \/ \E s \in Scans : Open(s)
  \/ ReadResults \/ ReadCurrent \/ ReadPrevious \/ ReadBaseline

Spec == Init /\ [][Next]_vars

\* compare_scans at the end of the task: a function of what the task holds.
Summary(s) == CompareScans(baseline[s], Findings(seen[s]))

Compared == reader.phase = "done" /\ reader.status = "COMPLETED"

\* The comparison in the report, as _build_diff returns it.
ReportDiff ==
  CompareScans(IF reader.previous = NoScan THEN NoBaseline ELSE reader.before, reader.current)

(***************************************************************************)
(* However many scans of a tenant run at once                              *)
(***************************************************************************)
\* The summary of a task and the results it stored tell the same story: with
\* the baseline as it is stored, the summary reproduces the results, and a
\* first scan reports no change; and a summary without changes means equal
\* results.  The baseline was read before Nmap ran and is used after the commit.
SummaryIsExact ==
  \A s \in Scans :
    status[s] = "COMPLETED" =>
      IF base[s] = NoScan
      THEN ~HasChanges(Summary(s))
      ELSE LET before == stored[base[s]]
               new    == DOMAIN stored[s] \ DOMAIN before
           IN  /\ Replay(before, Summary(s), Restrict(stored[s], new)) = stored[s]
               /\ HasChanges(Summary(s)) <=> before # stored[s]

\* A scan is compared with one of its own tenant that had finished before it
\* did, never with itself and never with one that is yet to finish.
BaselineIsEarlier ==
  \A s \in Scans :
    base[s] # NoScan =>
      /\ Owner[base[s]] = Owner[s]
      /\ status[base[s]] \in {"COMPLETED", "deleted"}
      /\ status[s] = "COMPLETED" => finished[base[s]] < finished[s]

\* The five statements of a report see the database at five moments.  Unless
\* the tenant goes in between, a report that says COMPLETED still has all the
\* findings of its scan, twice the same, compared with all the findings of
\* another completed scan of the tenant.
ReportIsWhole ==
  Compared /\ status[reader.scan] = "COMPLETED" =>
    /\ reader.results = stored[reader.scan]
    /\ reader.current = stored[reader.scan]
    /\ reader.previous # NoScan =>
         /\ reader.previous \in Candidates(reader.scan)
         /\ reader.before = stored[reader.previous]

\* What makes the three of them inductive.  A task that may still store holds
\* the row; a baseline outlives every scan compared with it, because only the
\* deletion of their common tenant takes a completed scan away, and it was
\* stored, and had its finish time, before the scan it serves takes its own.
History ==
  \A s \in Scans :
    /\ task[s] \in {"scanning", "seen", "writing"} => status[s] = "RUNNING"
    /\ status[s] = "COMPLETED" => stored[s] = Findings(seen[s])
    /\ base[s] = NoScan => baseline[s] = NoBaseline
    /\ base[s] # NoScan =>
         /\ Owner[base[s]] = Owner[s]
         /\ status[s] \notin {"none", "PENDING"}
         /\ \/ /\ status[base[s]] = "COMPLETED"
               /\ baseline[s] = stored[base[s]]
            \/ status[base[s]] = "deleted" /\ status[s] = "deleted"
         /\ status[s] = "COMPLETED" \/ task[s] = "writing" =>
              finished[base[s]] < finished[s]

\* What a request has read so far, as long as the tenant of its scan exists.
Reading ==
  /\ reader.phase \in {"current", "previous", "baseline"} => reader.status = "COMPLETED"
  /\ reader.phase # "idle" /\ reader.status = "COMPLETED" =>
       status[reader.scan] \in {"COMPLETED", "deleted"}
  /\ reader.phase # "idle" /\ reader.status = "COMPLETED" /\ status[reader.scan] = "COMPLETED" =>
       /\ reader.phase # "results" => reader.results = stored[reader.scan]
       /\ reader.phase \notin {"results", "current"} => reader.current = stored[reader.scan]
       /\ reader.phase \in {"baseline", "done"} /\ reader.previous # NoScan =>
            reader.previous \in Candidates(reader.scan)
       /\ reader.phase = "done" /\ reader.previous # NoScan =>
            reader.before = stored[reader.previous]

(***************************************************************************)
(* One scan of a tenant at a time                                          *)
(***************************************************************************)
\* Completed scans of the same tenant that finished before this one.
Before(s) == {c \in ScansOf(Owner[s]) : status[c] = "COMPLETED" /\ finished[c] < finished[s]}

\* "Every scan is compared against the tenant's last completed scan": the
\* summaries form a chain, so a change between two scans is reported once.
ConsecutiveBaselines ==
  \A s \in Scans :
    status[s] = "COMPLETED" =>
      IF Before(s) = {} THEN base[s] = NoScan
      ELSE base[s] \in Before(s) /\ \A c \in Before(s) : finished[c] <= finished[base[s]]

\* "A comparison can be recomputed at any time": as long as no later scan has
\* completed, the report of a scan shows the changes its task announced.
LatestReportAgrees ==
  /\ Compared
  /\ status[reader.scan] = "COMPLETED"
  /\ \A c \in ScansOf(Owner[reader.scan]) :
       status[c] = "COMPLETED" => finished[c] <= finished[reader.scan]
  => ReportDiff = Summary(reader.scan)

(***************************************************************************)
(* What the documentation says and the code does not keep                  *)
(***************************************************************************)
\* "A host with every port closed still exists, and is reported that way."
QuietIsNotGone ==
  \A s \in Scans :
    status[s] = "COMPLETED" => Quiet(seen[s]) \cap Summary(s).gone = {}
=============================================================================
