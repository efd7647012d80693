------------------------- MODULE ScanReportsProofs -------------------------
(***************************************************************************)
(* What the comparison of two scans promises, for all hosts, ports and     *)
(* services: it loses nothing, and it invents nothing.  Then what holds of *)
(* ScanReports for any number of scans, tenants, hosts and networks,       *)
(* however many scans of a tenant run at once, then with one at a time,    *)
(* and that its scans keep the contract of ScanStatus.                     *)
(***************************************************************************)
EXTENDS ScanReports, FiniteSetTheorems, WellFoundedInduction, TLAPS

(***************************************************************************)
(* The comparison                                                          *)
(***************************************************************************)
\* A snapshot's host and a host's port have the types their names say.
LEMMA SnapshotType ==
  ASSUME NEW snap \in Snapshots
  PROVE  /\ snap = [h \in DOMAIN snap |-> snap[h]]
         /\ \A h \in DOMAIN snap : snap[h] \in HostSnapshots
BY DEF Snapshots

LEMMA HostSnapshotType ==
  ASSUME NEW host \in HostSnapshots
  PROVE  /\ host = [k \in DOMAIN host |-> host[k]]
         /\ \A k \in DOMAIN host : host[k] \in Services
BY DEF HostSnapshots

\* Two entries of a port are equal when neither its service nor its version
\* moved: OpenPort has no other attribute.
LEMMA UnmovedIsEqual ==
  ASSUME NEW x \in Services, NEW y \in Services, ~ServiceMoved(x, y)
  PROVE  x = y
BY DEF Services, ServiceMoved

\* The differences of one host, applied to its earlier ports, give the later.
LEMMA ReplayHostRestores ==
  ASSUME NEW b \in HostSnapshots, NEW a \in HostSnapshots
  PROVE  ReplayHost(b, HostDiff(b, a)) = a
<1> DEFINE d == HostDiff(b, a)
<1> DEFINE r == ReplayHost(b, d)
<1>1. DOMAIN d.opened = DOMAIN a \ DOMAIN b /\ DOMAIN d.closed = DOMAIN b \ DOMAIN a
  BY DEF HostDiff, Restrict
<1>2. DOMAIN r = DOMAIN a
  BY <1>1 DEF ReplayHost
<1>3. ASSUME NEW k \in DOMAIN a
      PROVE  r[k] = a[k]
  <2>1. CASE k \notin DOMAIN b
    BY <1>1, <1>2, <2>1 DEF ReplayHost, HostDiff, Restrict
  <2>2. CASE k \in DOMAIN b /\ ServiceMoved(b[k], a[k])
    <3>1. k \in DOMAIN d.changed /\ d.changed[k].current = a[k]
      BY <2>2 DEF HostDiff, ChangedPorts
    <3>2. r[k] = d.changed[k].current
      BY <1>1, <1>2, <2>2, <3>1 DEF ReplayHost
    <3> QED BY <3>1, <3>2
  <2>3. CASE k \in DOMAIN b /\ ~ServiceMoved(b[k], a[k])
    <3>1. k \notin DOMAIN d.changed
      BY <2>3 DEF HostDiff, ChangedPorts
    <3>2. r[k] = b[k]
      BY <1>1, <1>2, <2>3, <3>1 DEF ReplayHost
    <3> QED BY <2>3, <3>2, HostSnapshotType, UnmovedIsEqual
  <2> QED BY <2>1, <2>2, <2>3
<1>4. r = [k \in DOMAIN r |-> r[k]]
  BY DEF ReplayHost
<1> QED BY <1>2, <1>3, <1>4, HostSnapshotType

\* A host is listed as changed exactly when its ports differ.
LEMMA HostChangesAreReal ==
  ASSUME NEW b \in HostSnapshots, NEW a \in HostSnapshots
  PROVE  HostHasChanges(HostDiff(b, a)) <=> b # a
<1> DEFINE d == HostDiff(b, a)
<1>1. ASSUME ~HostHasChanges(d) PROVE b = a
  <2>1. DOMAIN b = DOMAIN a
    BY <1>1 DEF HostHasChanges, HostDiff, Restrict
  <2>2. \A k \in DOMAIN a : ~ServiceMoved(b[k], a[k])
    BY <1>1, <2>1 DEF HostHasChanges, HostDiff, ChangedPorts
  <2>3. \A k \in DOMAIN a : b[k] = a[k]
    BY <2>1, <2>2, HostSnapshotType, UnmovedIsEqual
  <2> QED BY <2>1, <2>3, HostSnapshotType
<1>2. ASSUME b = a PROVE ~HostHasChanges(d)
  BY <1>2 DEF HostHasChanges, HostDiff, ChangedPorts, ServiceMoved, Restrict
<1> QED BY <1>1, <1>2

\* The host part of a comparison, without its LET.
LEMMA HostDiffsOf ==
  ASSUME NEW b \in Snapshots, NEW a \in Snapshots
  PROVE  HostDiffs(b, a) = [h \in {h \in DOMAIN b \cap DOMAIN a : b[h] # a[h]} |->
                              HostDiff(b[h], a[h])]
<1> DEFINE both == DOMAIN b \cap DOMAIN a
<1>1. \A h \in both : HostHasChanges(HostDiff(b[h], a[h])) <=> b[h] # a[h]
  BY SnapshotType, HostChangesAreReal
<1>2. HostDiffs(b, a) = [h \in {h \in both : HostHasChanges(HostDiff(b[h], a[h]))} |->
                           HostDiff(b[h], a[h])]
  BY DEF HostDiffs, Restrict
<1> QED BY <1>1, <1>2

LEMMA BaselineIsSnapshot ==
  ASSUME NEW b \in Snapshots, NEW a \in Snapshots
  PROVE  CompareScans(b, a) = [hasBaseline |-> TRUE,
                               new   |-> DOMAIN a \ DOMAIN b,
                               gone  |-> DOMAIN b \ DOMAIN a,
                               hosts |-> HostDiffs(b, a)]
BY NoBaselineAssumption DEF CompareScans

\* A comparison loses nothing: the earlier snapshot, the differences and the
\* ports of the new hosts give the later snapshot.  It is what makes a chain
\* of summaries a complete history of a network (compare_scans, diff.py).
THEOREM DiffRestores ==
  ASSUME NEW b \in Snapshots, NEW a \in Snapshots
  PROVE  ReplayRestores(b, a)
<1> DEFINE d == CompareScans(b, a)
<1> DEFINE f == Restrict(a, DOMAIN a \ DOMAIN b)
<1> DEFINE r == Replay(b, d, f)
<1>1. /\ d.new = DOMAIN a \ DOMAIN b
      /\ d.gone = DOMAIN b \ DOMAIN a
      /\ d.hosts = HostDiffs(b, a)
  BY BaselineIsSnapshot
<1>2. /\ DOMAIN d.hosts = {h \in DOMAIN b \cap DOMAIN a : b[h] # a[h]}
      /\ \A h \in DOMAIN d.hosts : d.hosts[h] = HostDiff(b[h], a[h])
  <2>1. d.hosts = [h \in {h \in DOMAIN b \cap DOMAIN a : b[h] # a[h]} |->
                     HostDiff(b[h], a[h])]
    BY <1>1, HostDiffsOf
  <2> HIDE DEF d
  <2> QED BY <2>1
<1> HIDE DEF d
<1>3. r = [h \in (DOMAIN b \ d.gone) \cup d.new |->
             IF h \in d.new THEN f[h]
             ELSE IF h \in DOMAIN d.hosts THEN ReplayHost(b[h], d.hosts[h]) ELSE b[h]]
  BY DEF Replay
<1>4. (DOMAIN b \ d.gone) \cup d.new = DOMAIN a
  BY <1>1
<1>5. ASSUME NEW h \in DOMAIN a PROVE r[h] = a[h]
  <2>1. CASE h \notin DOMAIN b
    BY <1>1, <1>3, <1>4, <2>1 DEF Restrict
  <2>2. CASE h \in DOMAIN b /\ b[h] # a[h]
    <3>1. h \in DOMAIN d.hosts /\ d.hosts[h] = HostDiff(b[h], a[h])
      BY <1>2, <2>2
    <3>2. ReplayHost(b[h], HostDiff(b[h], a[h])) = a[h]
      BY <2>2, SnapshotType, ReplayHostRestores
    <3>3. h \notin d.new
      BY <1>1, <2>2
    <3> QED BY <1>3, <1>4, <3>1, <3>2, <3>3
  <2>3. CASE h \in DOMAIN b /\ b[h] = a[h]
    <3>1. h \notin DOMAIN d.hosts /\ h \notin d.new
      BY <1>1, <1>2, <2>3
    <3> QED BY <1>3, <1>4, <2>3, <3>1
  <2> QED BY <2>1, <2>2, <2>3
<1>6. r = a
  <2>1. r = [h \in DOMAIN a |-> a[h]]
    BY <1>3, <1>4, <1>5
  <2> QED BY <2>1, SnapshotType
<1> QED BY <1>6 DEF ReplayRestores, d

\* A comparison invents nothing: it announces a change exactly when the two
\* snapshots differ, so an unchanged network never raises an alert.
THEOREM DiffIsReal ==
  ASSUME NEW b \in Snapshots, NEW a \in Snapshots
  PROVE  ChangesAreReal(b, a)
<1> DEFINE d == CompareScans(b, a)
<1>1. /\ d.new = DOMAIN a \ DOMAIN b
      /\ d.gone = DOMAIN b \ DOMAIN a
      /\ d.hosts = HostDiffs(b, a)
  BY BaselineIsSnapshot
<1>2. /\ DOMAIN d.hosts = {h \in DOMAIN b \cap DOMAIN a : b[h] # a[h]}
      /\ \A h \in DOMAIN d.hosts : d.hosts[h] = HostDiff(b[h], a[h])
  <2>1. d.hosts = [h \in {h \in DOMAIN b \cap DOMAIN a : b[h] # a[h]} |->
                     HostDiff(b[h], a[h])]
    BY <1>1, HostDiffsOf
  <2> HIDE DEF d
  <2> QED BY <2>1
<1> HIDE DEF d
<1>3. ASSUME ~HasChanges(d) PROVE b = a
  <2>1. DOMAIN b = DOMAIN a
    BY <1>1, <1>3 DEF HasChanges
  <2>2. \A h \in DOMAIN a : b[h] = a[h]
    BY <1>2, <1>3, <2>1 DEF HasChanges
  <2> QED BY <2>1, <2>2, SnapshotType
<1>4. ASSUME b = a PROVE ~HasChanges(d)
  BY <1>1, <1>2, <1>4 DEF HasChanges
<1> QED BY <1>3, <1>4 DEF ChangesAreReal, d

(***************************************************************************)
(* The operators                                                           *)
(***************************************************************************)
LEMMA EmptyIsSnapshot == Empty \in Snapshots
<1>1. Empty \in [{} -> HostSnapshots]
  BY DEF Empty
<1> QED BY <1>1 DEF Snapshots

\* What is stored of a network is a snapshot.
LEMMA FindingsType ==
  ASSUME NEW n \in Networks
  PROVE  Findings(n) \in Snapshots
<1> DEFINE H == Answering(n) \ Quiet(n)
<1>1. H \in SUBSET Hosts
  BY DEF Answering
<1>2. \A h \in H : n[h] \in HostSnapshots
  BY ReportsAssumption DEF Answering, IsNetwork
<1>3. Findings(n) \in [H -> HostSnapshots]
  BY <1>2 DEF Findings, Restrict
<1> QED BY <1>1, <1>3 DEF Snapshots

\* A set of scans that is not empty has one that finished last.
LEMMA LastFinished ==
  ASSUME TypeOK, NEW S \in SUBSET Scans, S # {}
  PROVE  \E c \in S : \A d \in S : finished[d] <= finished[c]
<1> DEFINE T == {clock - finished[c] : c \in S}
<1>1. clock \in Nat /\ \A c \in S : finished[c] \in 0..clock
  BY DEF TypeOK
<1>2. T \subseteq Nat /\ T # {}
  BY <1>1
<1>3. \E x \in T : \A y \in T : ~ (<<y, x>> \in OpToRel(<, Nat))
  BY <1>2, NatLessThanWellFounded, WFMin
<1>4. PICK x \in T : \A y \in T : ~ (y < x)
  BY <1>2, <1>3 DEF OpToRel
<1>5. PICK c \in S : x = clock - finished[c]
  BY <1>4
<1>6. \A d \in S : finished[d] <= finished[c]
  BY <1>1, <1>4, <1>5
<1> QED BY <1>6

\* The CHOOSE of Previous always finds a scan when there is a candidate.
LEMMA PreviousIsCandidate ==
  ASSUME TypeOK, NEW s \in Scans
  PROVE  Previous(s) = NoScan \/ Previous(s) \in Candidates(s)
<1>1. Candidates(s) \subseteq Scans
  BY DEF Candidates, CandidatesWithSelf, ScansOf
<1>2. CASE Candidates(s) = {}
  BY <1>2 DEF Previous
<1>3. CASE Candidates(s) # {}
  <2>1. \E c \in Candidates(s) : \A d \in Candidates(s) : finished[d] <= finished[c]
    BY <1>1, <1>3, LastFinished
  <2> QED BY <1>3, <2>1 DEF Previous
<1> QED BY <1>2, <1>3

LEMMA CandidateMeans ==
  ASSUME NEW s \in Scans, NEW c
  PROVE  c \in Candidates(s) <=>
           /\ c \in Scans /\ c # s
           /\ Owner[c] = Owner[s] /\ status[c] = "COMPLETED"
BY DEF Candidates, CandidatesWithSelf, ScansOf

(***************************************************************************)
(* Types                                                                   *)
(***************************************************************************)
LEMMA InitType == Init => TypeOK
<1> SUFFICES ASSUME Init PROVE TypeOK
  OBVIOUS
<1>1. seen \in [Scans -> Networks]
  BY ReportsAssumption DEF Init
<1>2. reader \in Reader
  BY EmptyIsSnapshot DEF Init, NoReport, Reader, Phases, Statuses
<1> QED BY <1>1, <1>2, EmptyIsSnapshot DEF Init, TypeOK, Statuses, Tasks

LEMMA ScanType ==
  ASSUME TypeOK, NEW s \in Scans,
         \/ Launch(s) \/ Claim(s) \/ Nmap(s) \/ Write(s) \/ Commit(s)
         \/ FailUndispatched(s) \/ Fail(s)
  PROVE  TypeOK'
<1> USE DEF TypeOK, Statuses, Tasks
<1>1. CASE Launch(s)            BY <1>1 DEF Launch
<1>2. CASE Claim(s)
  <2>1. Previous(s) \in Scans \cup {NoScan}
    BY PreviousIsCandidate, CandidateMeans
  <2>2. Previous(s) # NoScan => stored[Previous(s)] \in Snapshots
    BY <2>1
  <2> QED BY <1>2, <2>1, <2>2 DEF Claim
<1>3. CASE Nmap(s)
  BY <1>3, ReportsAssumption DEF Nmap
<1>4. CASE Write(s)             BY <1>4 DEF Write
<1>5. CASE Commit(s)
  <2>1. Findings(seen[s]) \in Snapshots
    BY FindingsType
  <2> QED BY <1>5, <2>1 DEF Commit
<1>6. CASE FailUndispatched(s)  BY <1>6 DEF FailUndispatched
<1>7. CASE Fail(s)              BY <1>7 DEF Fail
<1> QED BY <1>1, <1>2, <1>3, <1>4, <1>5, <1>6, <1>7

LEMMA TenantType ==
  ASSUME TypeOK, NEW t \in Tenants, NetworkChanges(t) \/ DeleteTenant(t)
  PROVE  TypeOK'
<1>1. CASE NetworkChanges(t)  BY <1>1 DEF NetworkChanges, TypeOK
<1>2. CASE DeleteTenant(t)
  BY <1>2, EmptyIsSnapshot DEF DeleteTenant, TypeOK, Statuses, Tasks
<1> QED BY <1>1, <1>2

ReaderStep ==
  \/ \E s \in Scans : Open(s)
  \/ ReadResults \/ ReadCurrent \/ ReadPrevious \/ ReadBaseline

\* A request that is reading names a scan, and after the list of candidates
\* a previous one.
ReaderKnows ==
  /\ reader.phase # "idle" => reader.scan \in Scans
  /\ reader.phase = "baseline" => reader.previous \in Scans

LEMMA ReaderType ==
  ASSUME TypeOK, ReaderKnows, ReaderStep
  PROVE  TypeOK' /\ ReaderKnows'
<1>1. UNCHANGED scanVars
  BY DEF ReaderStep, Open, ReadResults, ReadCurrent, ReadPrevious, ReadBaseline
<1>2. reader' \in Reader /\ ReaderKnows'
  <2> USE DEF TypeOK, Reader, ReaderKnows, Phases
  <2>1. ASSUME NEW s \in Scans, Open(s)
        PROVE  reader' \in Reader /\ ReaderKnows'
    <3>1. reader' = [phase |-> "results", scan |-> s, status |-> status[s],
                     results |-> Empty, current |-> Empty,
                     previous |-> NoScan, before |-> Empty]
      BY <2>1 DEF Open, NoReport
    <3>2. status[s] \in Statuses
      OBVIOUS
    <3> HIDE DEF TypeOK
    <3> QED BY <3>1, <3>2, EmptyIsSnapshot
  <2>2. CASE ReadResults  BY <2>2 DEF ReadResults
  <2>3. CASE ReadCurrent  BY <2>3 DEF ReadCurrent
  <2>4. CASE ReadPrevious
    <3>1. reader.scan \in Scans
      BY <2>4 DEF ReadPrevious
    <3>2. Previous(reader.scan) = NoScan \/ Previous(reader.scan) \in Scans
      BY <3>1, PreviousIsCandidate, CandidateMeans
    <3> QED BY <2>4, <3>1, <3>2 DEF ReadPrevious
  <2>5. CASE ReadBaseline  BY <2>5 DEF ReadBaseline
  <2> QED BY <2>1, <2>2, <2>3, <2>4, <2>5 DEF ReaderStep
<1> QED BY <1>1, <1>2 DEF TypeOK, scanVars

Typed == TypeOK /\ ReaderKnows

LEMMA TypedInductive ==
  ASSUME Typed, [Next]_vars
  PROVE  Typed'
<1> USE DEF Typed
<1>1. ASSUME NEW s \in Scans,
             \/ Launch(s) \/ Claim(s) \/ Nmap(s) \/ Write(s) \/ Commit(s)
             \/ FailUndispatched(s) \/ Fail(s)
      PROVE  Typed'
  <2>1. UNCHANGED reader
    BY <1>1 DEF Launch, Claim, Nmap, Write, Commit, FailUndispatched, Fail
  <2> QED BY <1>1, <2>1, ScanType DEF ReaderKnows
<1>2. ASSUME NEW t \in Tenants, NetworkChanges(t) \/ DeleteTenant(t)
      PROVE  Typed'
  <2>1. UNCHANGED reader
    BY <1>2 DEF NetworkChanges, DeleteTenant
  <2> QED BY <1>2, <2>1, TenantType DEF ReaderKnows
<1>3. CASE ReaderStep
  BY <1>3, ReaderType
<1>4. CASE UNCHANGED vars
  BY <1>4 DEF vars, scanVars, TypeOK, ReaderKnows
<1> QED BY <1>1, <1>2, <1>3, <1>4 DEF Next, ReaderStep

\* The type invariant of the reports, and that a report in the making always
\* names an existing scan.
THEOREM ReportsTypeCorrect == Spec => [](TypeOK /\ ReaderKnows)
<1>1. Init => Typed
  BY InitType DEF Init, NoReport, ReaderKnows, Typed
<1>2. Typed /\ [Next]_vars => Typed'
  BY TypedInductive
<1> QED BY <1>1, <1>2, PTL DEF Spec, Typed

(***************************************************************************)
(* Baselines                                                               *)
(***************************************************************************)
LEMMA InitHistory == Init => History
  BY DEF Init, History

\* A step of one scan.  A scan that may serve as a baseline is COMPLETED, and
\* no scan step changes one that is.
LEMMA ScanHistory ==
  ASSUME TypeOK, History, NEW s \in Scans,
         \/ Launch(s) \/ Claim(s) \/ Nmap(s) \/ Write(s) \/ Commit(s)
         \/ FailUndispatched(s) \/ Fail(s)
  PROVE  History'
<1> USE ReportsAssumption DEF TypeOK
<1>1. CASE Launch(s)            BY <1>1 DEF Launch, History
<1>2. CASE Claim(s)
  <2>1. Previous(s) = NoScan \/
          /\ Previous(s) \in Scans /\ Previous(s) # s
          /\ Owner[Previous(s)] = Owner[s] /\ status[Previous(s)] = "COMPLETED"
    BY PreviousIsCandidate, CandidateMeans
  <2>2. base[s] = NoScan /\ task[s] \notin {"scanning", "seen", "writing"}
    BY <1>2 DEF Claim, History
  <2> QED BY <1>2, <2>1, <2>2 DEF Claim, History
<1>3. CASE Nmap(s)              BY <1>3 DEF Nmap, History
<1>4. CASE Write(s)             BY <1>4 DEF Write, History
<1>5. CASE Commit(s)            BY <1>5 DEF Commit, History
<1>6. CASE FailUndispatched(s)  BY <1>6 DEF FailUndispatched, History
<1>7. CASE Fail(s)              BY <1>7 DEF Fail, History
<1> QED BY <1>1, <1>2, <1>3, <1>4, <1>5, <1>6, <1>7

\* The cascade takes a scan and its baseline together.
LEMMA TenantHistory ==
  ASSUME TypeOK, History, NEW t \in Tenants, NetworkChanges(t) \/ DeleteTenant(t)
  PROVE  History'
<1> USE ReportsAssumption DEF TypeOK
<1>1. CASE NetworkChanges(t)  BY <1>1 DEF NetworkChanges, History
<1>2. CASE DeleteTenant(t)    BY <1>2 DEF DeleteTenant, History
<1> QED BY <1>1, <1>2

LEMMA HistoryInductive ==
  ASSUME Typed, History, [Next]_vars
  PROVE  History'
<1>1. ASSUME NEW s \in Scans,
             \/ Launch(s) \/ Claim(s) \/ Nmap(s) \/ Write(s) \/ Commit(s)
             \/ FailUndispatched(s) \/ Fail(s)
      PROVE  History'
  BY <1>1, ScanHistory DEF Typed
<1>2. ASSUME NEW t \in Tenants, NetworkChanges(t) \/ DeleteTenant(t)
      PROVE  History'
  BY <1>2, TenantHistory DEF Typed
<1>3. CASE ReaderStep \/ UNCHANGED vars
  <2>1. UNCHANGED scanVars
    BY <1>3 DEF ReaderStep, Open, ReadResults, ReadCurrent, ReadPrevious,
                ReadBaseline, vars
  <2> QED BY <2>1 DEF scanVars, History
<1> QED BY <1>1, <1>2, <1>3 DEF Next, ReaderStep

LEMMA HistoryInvariant == Spec => [](Typed /\ History)
<1>1. Init => Typed /\ History
  BY InitType, InitHistory DEF Init, NoReport, ReaderKnows, Typed
<1>2. Typed /\ History /\ [Next]_vars => Typed' /\ History'
  BY TypedInductive, HistoryInductive
<1> QED BY <1>1, <1>2, PTL DEF Spec

\* A scan is compared with an earlier one of its own tenant, for any number
\* of scans running at once.
THEOREM BaselinesAreEarlier == Spec => []BaselineIsEarlier
<1>1. Typed /\ History => BaselineIsEarlier
  BY DEF Typed, History, BaselineIsEarlier, TypeOK
<1> QED BY <1>1, HistoryInvariant, PTL

\* The summary of every completed scan, computed from a baseline that was
\* read long before, reproduces its stored results from the stored baseline.
THEOREM SummariesAreExact == Spec => []SummaryIsExact
<1>1. ASSUME Typed, History, NEW s \in Scans, status[s] = "COMPLETED", base[s] = NoScan
      PROVE  ~HasChanges(Summary(s))
  <2>1. Summary(s) = FirstDiff
    BY <1>1 DEF History, Summary, CompareScans
  <2> QED BY <2>1 DEF FirstDiff, HasChanges
<1>2. ASSUME Typed, History, NEW s \in Scans, status[s] = "COMPLETED", base[s] # NoScan
      PROVE  /\ Replay(stored[base[s]], Summary(s),
                       Restrict(stored[s], DOMAIN stored[s] \ DOMAIN stored[base[s]])) = stored[s]
             /\ HasChanges(Summary(s)) <=> stored[base[s]] # stored[s]
  <2>1. stored[s] \in Snapshots /\ stored[base[s]] \in Snapshots
    BY <1>2 DEF Typed, TypeOK
  <2>2. Summary(s) = CompareScans(stored[base[s]], stored[s])
    BY <1>2 DEF History, Summary
  <2>3. /\ ReplayRestores(stored[base[s]], stored[s])
        /\ ChangesAreReal(stored[base[s]], stored[s])
    BY <2>1, DiffRestores, DiffIsReal
  <2> QED BY <2>2, <2>3 DEF ReplayRestores, ChangesAreReal
<1>3. Typed /\ History => SummaryIsExact
  BY <1>1, <1>2 DEF SummaryIsExact
<1> QED BY <1>3, HistoryInvariant, PTL

(***************************************************************************)
(* Reports                                                                 *)
(***************************************************************************)
\* A completed scan stays as it is until its tenant is deleted.
LEMMA CompletedStays ==
  ASSUME Typed, History, [Next]_vars, NEW s \in Scans, status[s] = "COMPLETED",
         status'[s] = "COMPLETED"
  PROVE  /\ stored'[s] = stored[s]
         /\ \A c \in Candidates(s) : c \in Candidates(s)' /\ stored'[c] = stored[c]
<1> USE ReportsAssumption DEF Typed, TypeOK
<1>1. ASSUME NEW x \in Scans,
             \/ Launch(x) \/ Claim(x) \/ Nmap(x) \/ Write(x) \/ Commit(x)
             \/ FailUndispatched(x) \/ Fail(x)
      PROVE  \A c \in Scans : status[c] = "COMPLETED" =>
               status'[c] = "COMPLETED" /\ stored'[c] = stored[c]
  BY <1>1 DEF History, Launch, Claim, Nmap, Write, Commit, FailUndispatched, Fail
<1>2. ASSUME NEW t \in Tenants, NetworkChanges(t) \/ DeleteTenant(t)
      PROVE  \A c \in Scans : status[c] = "COMPLETED" /\ Owner[c] = Owner[s] =>
               status'[c] = "COMPLETED" /\ stored'[c] = stored[c]
  BY <1>2 DEF NetworkChanges, DeleteTenant
<1>3. ASSUME ReaderStep \/ UNCHANGED vars
      PROVE  status' = status /\ stored' = stored
  BY <1>3 DEF ReaderStep, Open, ReadResults, ReadCurrent, ReadPrevious,
              ReadBaseline, vars, scanVars
<1>4. \A c \in Scans : status[c] = "COMPLETED" /\ Owner[c] = Owner[s] =>
        status'[c] = "COMPLETED" /\ stored'[c] = stored[c]
  BY <1>1, <1>2, <1>3 DEF Next, ReaderStep
<1>5. ASSUME NEW c \in Candidates(s)
      PROVE  c \in Candidates(s)' /\ stored'[c] = stored[c]
  <2>1. c \in Scans /\ c # s /\ Owner[c] = Owner[s] /\ status[c] = "COMPLETED"
    BY CandidateMeans
  <2>2. status'[c] = "COMPLETED" /\ stored'[c] = stored[c]
    BY <1>4, <2>1
  <2> QED BY <2>1, <2>2 DEF Candidates, CandidatesWithSelf, ScansOf
<1> QED BY <1>4, <1>5

\* ... and one that was completed is completed or deleted ever after.
LEMMA CompletedThenDeleted ==
  ASSUME Typed, History, [Next]_vars, NEW s \in Scans,
         status[s] \in {"COMPLETED", "deleted"}
  PROVE  /\ status'[s] \in {"COMPLETED", "deleted"}
         /\ status'[s] = "COMPLETED" => status[s] = "COMPLETED"
<1> USE DEF Typed, TypeOK
<1>1. ASSUME NEW x \in Scans,
             \/ Launch(x) \/ Claim(x) \/ Nmap(x) \/ Write(x) \/ Commit(x)
             \/ FailUndispatched(x) \/ Fail(x)
      PROVE  status'[s] = status[s]
  BY <1>1 DEF History, Launch, Claim, Nmap, Write, Commit, FailUndispatched, Fail
<1>2. ASSUME NEW t \in Tenants, NetworkChanges(t) \/ DeleteTenant(t)
      PROVE  status'[s] = status[s] \/ status'[s] = "deleted"
  BY <1>2 DEF NetworkChanges, DeleteTenant
<1>3. CASE ReaderStep \/ UNCHANGED vars
  BY <1>3 DEF ReaderStep, Open, ReadResults, ReadCurrent, ReadPrevious,
              ReadBaseline, vars, scanVars
<1> QED BY <1>1, <1>2, <1>3 DEF Next, ReaderStep

LEMMA ReadingInductive ==
  ASSUME Typed, History, Reading, [Next]_vars
  PROVE  Reading'
<1>1. CASE UNCHANGED reader
  <2>1. CASE reader.phase = "idle"
    BY <1>1, <2>1 DEF Reading
  <2>2. CASE reader.phase # "idle" /\ reader.status # "COMPLETED"
    BY <1>1, <2>2 DEF Reading
  <2>3. CASE reader.phase # "idle" /\ reader.status = "COMPLETED"
    <3>1. PICK x \in Scans : x = reader.scan /\ status[x] \in {"COMPLETED", "deleted"}
      BY <2>3 DEF Reading, Typed, ReaderKnows
    <3>2. /\ status'[x] \in {"COMPLETED", "deleted"}
          /\ status'[x] = "COMPLETED" => status[x] = "COMPLETED"
      BY <3>1, CompletedThenDeleted
    <3>3. status'[x] = "COMPLETED" =>
            /\ stored'[x] = stored[x]
            /\ \A c \in Candidates(x) : c \in Candidates(x)' /\ stored'[c] = stored[c]
      BY <3>1, <3>2, CompletedStays
    <3>4. Candidates(reader.scan)' = Candidates(x)'
      BY <1>1, <3>1 DEF Candidates, CandidatesWithSelf, ScansOf
    <3> QED BY <1>1, <2>3, <3>1, <3>2, <3>3, <3>4 DEF Reading
  <2> QED BY <2>1, <2>2, <2>3
<1>2. CASE ReaderStep
  <2>1. UNCHANGED scanVars
    BY <1>2 DEF ReaderStep, Open, ReadResults, ReadCurrent, ReadPrevious, ReadBaseline
  <2>2. \A x \in Scans : Candidates(x)' = Candidates(x)
    BY <2>1 DEF scanVars, Candidates, CandidatesWithSelf, ScansOf
  <2> USE DEF Typed, ReaderKnows, TypeOK, Reader, Phases, Reading
  <2>3. ASSUME NEW s \in Scans, Open(s) PROVE Reading'
    BY <2>1, <2>3 DEF scanVars, Open, NoReport
  <2>4. CASE ReadResults  BY <2>1, <2>4 DEF scanVars, ReadResults
  <2>5. CASE ReadCurrent  BY <2>1, <2>5 DEF scanVars, ReadCurrent
  <2>6. CASE ReadPrevious
    <3>1. reader.scan \in Scans
      BY <2>6 DEF ReadPrevious
    <3>2. Previous(reader.scan) = NoScan \/ Previous(reader.scan) \in Candidates(reader.scan)
      BY <3>1, PreviousIsCandidate
    <3> QED BY <2>1, <2>2, <2>6, <3>1, <3>2 DEF scanVars, ReadPrevious
  <2>7. CASE ReadBaseline
    BY <2>1, <2>2, <2>7 DEF scanVars, ReadBaseline
  <2> QED BY <1>2, <2>3, <2>4, <2>5, <2>6, <2>7 DEF ReaderStep
<1>3. UNCHANGED reader \/ ReaderStep
  BY DEF Next, ReaderStep, vars, Launch, Claim, Nmap, Write, Commit,
         FailUndispatched, Fail, NetworkChanges, DeleteTenant
<1> QED BY <1>1, <1>2, <1>3

\* A report assembled from five statements is one of a single moment, unless
\* the tenant was deleted while it was read.
THEOREM ReportsAreWhole == Spec => []ReportIsWhole
<1>1. Init => Reading
  BY DEF Init, NoReport, Reading
<1>2. Typed /\ History /\ Reading /\ [Next]_vars => Reading'
  BY ReadingInductive
<1>3. Reading => ReportIsWhole
  BY DEF Reading, ReportIsWhole, Compared
<1> QED BY <1>1, <1>2, <1>3, HistoryInvariant, PTL DEF Spec

(***************************************************************************)
(* One scan of a tenant at a time                                          *)
(***************************************************************************)
\* A previous scan, when there is one, finished last.
LEMMA PreviousIsLast ==
  ASSUME TypeOK, NEW s \in Scans, NEW c \in Candidates(s)
  PROVE  /\ Previous(s) \in Scans /\ Previous(s) # NoScan
         /\ finished[c] <= finished[Previous(s)]
<1>1. Candidates(s) \subseteq Scans
  BY DEF Candidates, CandidatesWithSelf, ScansOf
<1>2. \E x \in Candidates(s) : \A d \in Candidates(s) : finished[d] <= finished[x]
  BY <1>1, LastFinished
<1> QED BY <1>1, <1>2, ReportsAssumption DEF Previous

OneAtATime ==
  \A r, s \in Scans :
    /\ Owner[r] = Owner[s]
    /\ status[r] \in {"PENDING", "RUNNING"} /\ status[s] \in {"PENDING", "RUNNING"}
    => r = s

\* Why the summaries form a chain: while a scan runs no other of its tenant
\* completes, so its baseline stays the last; it takes its finish time after all
\* of them; and no scan that completes later gets between.
Chain ==
  \A s, c \in Scans :
    c # s /\ Owner[c] = Owner[s] /\ status[c] = "COMPLETED" =>
      /\ status[s] = "RUNNING" => base[s] # NoScan /\ finished[c] <= finished[base[s]]
      /\ task[s] = "writing" => finished[c] < finished[s]
      /\ status[s] = "COMPLETED" => finished[c] # finished[s]
      /\ status[s] = "COMPLETED" /\ finished[c] < finished[s] =>
           base[s] # NoScan /\ finished[c] <= finished[base[s]]

\* The count of the quota, for a quota of one.
LEMMA NoneActive ==
  ASSUME MaxActive = 1, IsFiniteSet(Scans), NEW t, Cardinality(Active(t)) < MaxActive
  PROVE  Active(t) = {}
<1>1. Active(t) \in SUBSET Scans
  BY DEF Active, ScansOf
<1>2. IsFiniteSet(Active(t))
  BY <1>1, FS_Subset
<1>3. Cardinality(Active(t)) = 0
  BY <1>2, FS_CardinalityType
<1> QED BY <1>2, <1>3, FS_EmptySet

LEMMA LaunchOne ==
  ASSUME MaxActive = 1, IsFiniteSet(Scans), Typed, OneAtATime, NEW x \in Scans, Launch(x)
  PROVE  OneAtATime'
<1>1. \A r \in Scans : Owner[r] = Owner[x] => status[r] \notin {"PENDING", "RUNNING"}
  BY NoneActive DEF Launch, Active, ScansOf
<1> QED BY <1>1 DEF Launch, OneAtATime, Typed, TypeOK

LEMMA OneAtATimeInductive ==
  ASSUME MaxActive = 1, IsFiniteSet(Scans), Typed, OneAtATime, [Next]_vars
  PROVE  OneAtATime'
<1> USE DEF Typed, TypeOK, OneAtATime
<1>1. ASSUME NEW x \in Scans,
             Claim(x) \/ Nmap(x) \/ Write(x) \/ Commit(x) \/ FailUndispatched(x) \/ Fail(x)
      PROVE  OneAtATime'
  BY <1>1 DEF Claim, Nmap, Write, Commit, FailUndispatched, Fail
<1>2. ASSUME NEW t \in Tenants, NetworkChanges(t) \/ DeleteTenant(t)
      PROVE  OneAtATime'
  BY <1>2 DEF NetworkChanges, DeleteTenant
<1>3. CASE ReaderStep \/ UNCHANGED vars
  BY <1>3 DEF ReaderStep, Open, ReadResults, ReadCurrent, ReadPrevious,
              ReadBaseline, vars, scanVars
<1>4. ASSUME NEW x \in Scans, Launch(x) PROVE OneAtATime'
  BY <1>4, LaunchOne
<1> QED BY <1>1, <1>2, <1>3, <1>4 DEF Next, ReaderStep

\* A step of one scan.
LEMMA ScanChain ==
  ASSUME Typed, History, OneAtATime, Chain, NEW x \in Scans,
         \/ Launch(x) \/ Claim(x) \/ Nmap(x) \/ Write(x) \/ Commit(x)
         \/ FailUndispatched(x) \/ Fail(x)
  PROVE  Chain'
<1> USE ReportsAssumption DEF Typed, TypeOK
<1>1. CASE Launch(x)            BY <1>1 DEF Launch, Chain
<1>2. CASE Claim(x)
  <2>1. ASSUME NEW c \in Scans, c # x, Owner[c] = Owner[x], status[c] = "COMPLETED"
        PROVE  Previous(x) # NoScan /\ finished[c] <= finished[Previous(x)]
    BY <2>1, CandidateMeans, PreviousIsLast
  <2>2. task[x] # "writing"
    BY <1>2 DEF Claim, History
  <2> QED BY <1>2, <2>1, <2>2 DEF Claim, Chain
<1>3. CASE Nmap(x)              BY <1>3 DEF Nmap, Chain
<1>4. CASE Write(x)
  <2>1. \A s \in Scans : base[s] # NoScan /\ status[s] \in {"RUNNING", "COMPLETED"} => base[s] # x
    BY <1>4 DEF Write, History
  <2>2. \A c \in Scans : finished[c] \in Nat /\ finished[c] <= clock
    OBVIOUS
  <2>3. \A s \in Scans : base[s] # NoScan => base[s] \in Scans
    OBVIOUS
  <2> QED BY <1>4, <2>1, <2>2, <2>3 DEF Write, Chain
<1>5. CASE Commit(x)
  <2>1. \A s \in Scans : s # x /\ Owner[s] = Owner[x] =>
          status[s] # "RUNNING" /\ task[s] # "writing"
    BY <1>5 DEF Commit, History, OneAtATime
  <2>2. \A c \in Scans : c # x /\ Owner[c] = Owner[x] /\ status[c] = "COMPLETED" =>
          /\ finished[c] < finished[x] /\ base[x] # NoScan
          /\ finished[c] <= finished[base[x]]
    BY <1>5 DEF Commit, History, Chain
  <2>3. \A c \in Scans : finished[c] \in Nat
    OBVIOUS
  <2>4. UNCHANGED <<finished, base>> /\ status'[x] = "COMPLETED" /\ task'[x] = "over"
    BY <1>5 DEF Commit
  <2>5. \A s \in Scans \ {x} : status'[s] = status[s] /\ task'[s] = task[s]
    BY <1>5 DEF Commit
  <2> HIDE DEF Typed, TypeOK
  <2> QED BY <2>1, <2>2, <2>3, <2>4, <2>5 DEF Chain
<1>6. CASE FailUndispatched(x)
  BY <1>6 DEF FailUndispatched, Chain
<1>7. CASE Fail(x)
  <2>1. \A s \in Scans : base[s] # NoScan /\ status[s] \in {"RUNNING", "COMPLETED"} => base[s] # x
    BY <1>7 DEF Fail, History
  <2>2. \A s \in Scans : base[s] # NoScan => base[s] \in Scans
    OBVIOUS
  <2> QED BY <1>7, <2>1, <2>2 DEF Fail, Chain
<1> QED BY <1>1, <1>2, <1>3, <1>4, <1>5, <1>6, <1>7

LEMMA ChainInductive ==
  ASSUME Typed, History, OneAtATime, Chain, [Next]_vars
  PROVE  Chain'
<1>1. ASSUME NEW x \in Scans,
             \/ Launch(x) \/ Claim(x) \/ Nmap(x) \/ Write(x) \/ Commit(x)
             \/ FailUndispatched(x) \/ Fail(x)
      PROVE  Chain'
  BY <1>1, ScanChain
<1>2. ASSUME NEW t \in Tenants, NetworkChanges(t) \/ DeleteTenant(t)
      PROVE  Chain'
  BY <1>2, ReportsAssumption DEF NetworkChanges, DeleteTenant, Chain, Typed, TypeOK
<1>3. CASE ReaderStep \/ UNCHANGED vars
  <2>1. UNCHANGED scanVars
    BY <1>3 DEF ReaderStep, Open, ReadResults, ReadCurrent, ReadPrevious,
                ReadBaseline, vars
  <2> QED BY <2>1 DEF scanVars, Chain
<1> QED BY <1>1, <1>2, <1>3 DEF Next, ReaderStep

Serial == Typed /\ History /\ OneAtATime /\ Chain

LEMMA SerialInvariant ==
  ASSUME MaxActive = 1, IsFiniteSet(Scans)
  PROVE  Spec => []Serial
<1>1. Init => OneAtATime /\ Chain
  BY DEF Init, OneAtATime, Chain
<1>2. Typed /\ History /\ OneAtATime /\ Chain /\ [Next]_vars => OneAtATime' /\ Chain'
  BY OneAtATimeInductive, ChainInductive
<1> QED BY HistoryInvariant, <1>1, <1>2, PTL DEF Spec, Serial

\* With one scan of a tenant at a time every scan is compared with the last that
\* completed before it: no change is announced twice, and none is missed.
THEOREM SummariesFormAChain ==
  ASSUME MaxActive = 1, IsFiniteSet(Scans)
  PROVE  Spec => []ConsecutiveBaselines
<1>1. Serial => ConsecutiveBaselines
  <2> SUFFICES ASSUME Serial, NEW s \in Scans, status[s] = "COMPLETED"
               PROVE  IF Before(s) = {} THEN base[s] = NoScan
                      ELSE base[s] \in Before(s) /\ \A c \in Before(s) : finished[c] <= finished[base[s]]
    BY DEF ConsecutiveBaselines
  <2> USE ReportsAssumption DEF Serial
  <2>1. base[s] # NoScan => base[s] \in Before(s)
    BY DEF Typed, TypeOK, History, Before, ScansOf
  <2>2. \A c \in Before(s) : base[s] # NoScan /\ finished[c] <= finished[base[s]]
    BY DEF Typed, TypeOK, Chain, Before, ScansOf
  <2> QED BY <2>1, <2>2
<1> QED BY <1>1, SerialInvariant, PTL

\* A request that has read which scan is the previous one knows the last of
\* those that finished before its own.
ReadingLast ==
  /\ reader.phase \in {"baseline", "done"} /\ reader.status = "COMPLETED"
  /\ status[reader.scan] = "COMPLETED"
  => \A c \in Before(reader.scan) :
       reader.previous # NoScan /\ finished[c] <= finished[reader.previous]

\* What finished before a completed scan was there when it completed.
LEMMA BeforeStays ==
  ASSUME Serial, Serial', [Next]_vars, NEW s \in Scans,
         status[s] = "COMPLETED", status'[s] = "COMPLETED"
  PROVE  /\ \A c \in Scans : c \in Before(s)' => c \in Before(s)
         /\ \A c \in Scans : status[c] = "COMPLETED" => finished'[c] = finished[c]
<1> USE ReportsAssumption DEF Serial, Typed, TypeOK
<1>1. ASSUME NEW x \in Scans,
             \/ Launch(x) \/ Claim(x) \/ Nmap(x) \/ Write(x)
             \/ FailUndispatched(x) \/ Fail(x)
      PROVE  /\ \A c \in Scans : status'[c] = "COMPLETED" => status[c] = "COMPLETED"
             /\ \A c \in Scans : status[c] = "COMPLETED" => finished'[c] = finished[c]
  BY <1>1 DEF Launch, Claim, Nmap, Write, FailUndispatched, Fail
<1>2. ASSUME NEW t \in Tenants, NetworkChanges(t) \/ DeleteTenant(t)
      PROVE  /\ \A c \in Scans : status'[c] = "COMPLETED" => status[c] = "COMPLETED"
             /\ finished' = finished
  BY <1>2 DEF NetworkChanges, DeleteTenant
<1>3. ASSUME ReaderStep \/ UNCHANGED vars
      PROVE  UNCHANGED <<status, finished>>
  BY <1>3 DEF ReaderStep, Open, ReadResults, ReadCurrent, ReadPrevious,
              ReadBaseline, vars, scanVars
<1>4. ASSUME NEW x \in Scans, Commit(x)
      PROVE  /\ \A c \in Scans \ {x} : status'[c] = status[c]
             /\ finished' = finished
             /\ Owner[x] = Owner[s] => ~(finished[x] < finished[s])
  <2>1. task[x] = "writing" /\ x # s
    BY <1>4 DEF Commit, History
  <2>2. Owner[x] = Owner[s] => finished[s] < finished[x]
    BY <2>1 DEF Chain
  <2>3. finished[s] \in Nat /\ finished[x] \in Nat
    OBVIOUS
  <2> QED BY <1>4, <2>2, <2>3 DEF Commit
<1>5. ASSUME NEW x \in Scans, Commit(x)
      PROVE  \A c \in Scans : c \in Before(s)' => c \in Before(s)
  BY <1>4, <1>5 DEF Before, ScansOf
<1>6. ASSUME /\ \A c \in Scans : status'[c] = "COMPLETED" => status[c] = "COMPLETED"
             /\ \A c \in Scans : status[c] = "COMPLETED" => finished'[c] = finished[c]
      PROVE  \A c \in Scans : c \in Before(s)' => c \in Before(s)
  BY <1>6 DEF Before, ScansOf
<1>7. Next \/ UNCHANGED vars
  OBVIOUS
<1> HIDE DEF Serial, Typed, TypeOK
<1> QED BY <1>1, <1>2, <1>3, <1>4, <1>5, <1>6, <1>7 DEF Next, ReaderStep

LEMMA ReadingLastInductive ==
  ASSUME Serial, Serial', Reading, ReadingLast, [Next]_vars
  PROVE  ReadingLast'
<1> USE DEF Serial
<1>1. CASE UNCHANGED reader
  <2> SUFFICES ASSUME reader.phase \in {"baseline", "done"}, reader.status = "COMPLETED",
                      status'[reader.scan] = "COMPLETED", NEW c \in Before(reader.scan)'
               PROVE  reader.previous # NoScan /\ finished'[c] <= finished'[reader.previous]
    BY <1>1 DEF ReadingLast
  <2>1. PICK s \in Scans : s = reader.scan
    BY DEF Typed, ReaderKnows
  <2>2. status[s] = "COMPLETED"
    BY <2>1, CompletedThenDeleted DEF Reading
  <2>3. c \in Scans /\ c \in Before(s)'
    BY <1>1, <2>1 DEF Before, ScansOf
  <2>4. c \in Before(s) /\ finished'[c] = finished[c]
    BY <2>1, <2>2, <2>3, BeforeStays DEF Before
  <2>5. reader.previous # NoScan /\ finished[c] <= finished[reader.previous]
    BY <2>1, <2>2, <2>4 DEF ReadingLast
  <2>6. reader.previous \in Scans /\ status[reader.previous] = "COMPLETED"
    BY <2>1, <2>2, <2>5, CandidateMeans DEF Reading
  <2>7. finished'[reader.previous] = finished[reader.previous]
    BY <2>1, <2>2, <2>6, BeforeStays
  <2> QED BY <2>4, <2>5, <2>7
<1>2. CASE ReaderStep
  <2>1. UNCHANGED scanVars
    BY <1>2 DEF ReaderStep, Open, ReadResults, ReadCurrent, ReadPrevious, ReadBaseline
  <2> USE DEF Typed, ReaderKnows, TypeOK, Reader, Phases, Reading, ReadingLast
  <2>2. ASSUME NEW s \in Scans, Open(s) PROVE ReadingLast'
    BY <2>2 DEF Open, NoReport
  <2>3. CASE ReadResults  BY <2>3 DEF ReadResults
  <2>4. CASE ReadCurrent  BY <2>4 DEF ReadCurrent
  <2>5. CASE ReadPrevious
    <3>1. reader.scan \in Scans
      BY <2>5 DEF ReadPrevious
    <3>2. ASSUME NEW c \in Before(reader.scan)
          PROVE  Previous(reader.scan) # NoScan /\ finished[c] <= finished[Previous(reader.scan)]
      <4>1. c \in Candidates(reader.scan)
        BY <3>1 DEF Before, Candidates, CandidatesWithSelf, ScansOf
      <4> QED BY <3>1, <4>1, PreviousIsLast
    <3>3. Before(reader.scan)' = Before(reader.scan)
      BY <2>1, <2>5 DEF scanVars, ReadPrevious, Before, ScansOf
    <3>4. reader'.previous = Previous(reader.scan) /\ finished' = finished
      BY <2>1, <2>5 DEF scanVars, ReadPrevious
    <3> QED BY <3>2, <3>3, <3>4
  <2>6. CASE ReadBaseline
    <3>1. Before(reader.scan)' = Before(reader.scan)
      BY <2>1, <2>6 DEF scanVars, ReadBaseline, Before, ScansOf
    <3>2. /\ reader'.previous = reader.previous /\ reader'.scan = reader.scan
          /\ reader'.status = reader.status /\ reader.phase = "baseline"
      BY <2>6 DEF ReadBaseline
    <3> QED BY <2>1, <3>1, <3>2 DEF scanVars
  <2> QED BY <1>2, <2>2, <2>3, <2>4, <2>5, <2>6 DEF ReaderStep
<1>3. UNCHANGED reader \/ ReaderStep
  BY DEF Next, ReaderStep, vars, Launch, Claim, Nmap, Write, Commit,
         FailUndispatched, Fail, NetworkChanges, DeleteTenant
<1> QED BY <1>1, <1>2, <1>3

\* With one scan of a tenant at a time the report of its latest scan, recomputed
\* from five statements, shows the changes that the task announced.
THEOREM LatestReportIsTheSummary ==
  ASSUME MaxActive = 1, IsFiniteSet(Scans)
  PROVE  Spec => []LatestReportAgrees
<1>1. Init => Reading /\ ReadingLast
  BY DEF Init, NoReport, Reading, ReadingLast
<1>2. Serial /\ Serial' /\ Reading /\ ReadingLast /\ [Next]_vars => Reading' /\ ReadingLast'
  BY ReadingInductive, ReadingLastInductive DEF Serial
<1>3. Serial /\ Reading /\ ReadingLast => LatestReportAgrees
  <2> SUFFICES ASSUME Serial, Reading, ReadingLast, Compared,
                      status[reader.scan] = "COMPLETED",
                      \A c \in ScansOf(Owner[reader.scan]) :
                        status[c] = "COMPLETED" => finished[c] <= finished[reader.scan]
               PROVE  ReportDiff = Summary(reader.scan)
    BY DEF LatestReportAgrees
  <2> USE ReportsAssumption DEF Serial
  <2>1. PICK s \in Scans : s = reader.scan
    BY DEF Compared, Typed, ReaderKnows
  <2>2. reader.current = stored[s] /\ stored[s] = Findings(seen[s])
    BY <2>1 DEF Compared, Reading, History
  <2>3. ASSUME NEW c \in Scans, c \in Candidates(s) PROVE c \in Before(s)
    <3>1. c # s /\ Owner[c] = Owner[s] /\ status[c] = "COMPLETED"
      BY <2>3, CandidateMeans
    <3>2. finished[c] <= finished[s]
      BY <2>1, <3>1 DEF ScansOf
    <3>3. finished[c] # finished[s]
      BY <2>1, <3>1 DEF Chain
    <3>4. finished[c] \in Nat /\ finished[s] \in Nat
      BY DEF Typed, TypeOK
    <3> QED BY <3>1, <3>2, <3>3, <3>4 DEF Before, ScansOf
  <2>4. \A c \in Before(s) : c \in Scans /\ c # s /\ Owner[c] = Owner[s] /\ status[c] = "COMPLETED"
    BY DEF Before, ScansOf, Typed, TypeOK
  <2>5. base[s] # NoScan => base[s] \in Before(s) /\ baseline[s] = stored[base[s]]
    BY <2>1 DEF History, Before, ScansOf, Typed, TypeOK
  <2>6. \A c \in Before(s) : base[s] # NoScan /\ finished[c] <= finished[base[s]]
    BY <2>1, <2>4 DEF Chain, Before
  <2>7. \A c \in Before(s) : reader.previous # NoScan /\ finished[c] <= finished[reader.previous]
    BY <2>1 DEF Compared, ReadingLast
  <2>8. reader.previous # NoScan => reader.previous \in Before(s) /\ reader.before = stored[reader.previous]
    BY <2>1, <2>3, CandidateMeans DEF Compared, Reading
  <2>9. CASE reader.previous = NoScan
    BY <2>1, <2>2, <2>5, <2>7, <2>9 DEF ReportDiff, Summary, History
  <2>10. CASE reader.previous # NoScan
    <3>1. base[s] \in Before(s) /\ reader.previous \in Before(s)
      BY <2>5, <2>6, <2>8, <2>10
    <3>2. finished[base[s]] = finished[reader.previous]
      BY <2>4, <2>6, <2>7, <3>1 DEF Typed, TypeOK
    <3>3. base[s] = reader.previous
      BY <2>4, <3>1, <3>2 DEF Chain
    <3> QED BY <2>1, <2>2, <2>5, <2>8, <2>10, <3>3, <2>6, <3>1 DEF ReportDiff, Summary
  <2> QED BY <2>9, <2>10
<1> QED BY SerialInvariant, <1>1, <1>2, <1>3, PTL DEF Spec

(***************************************************************************)
(* The refinement                                                          *)
(***************************************************************************)
\* The contract that ScanLifecycle implements too.  A scan without a single open
\* port has no row of its own in scan_results, so that findings are visible is
\* read off the status; that nothing is visible otherwise is OnlyCompleted.
Contract == INSTANCE ScanStatus WITH hasFindings <- [s \in Scans |-> status[s] = "COMPLETED"]

OnlyCompleted == \A s \in Scans : stored[s] # Empty => status[s] = "COMPLETED"

LEMMA OnlyCompletedInductive ==
  ASSUME Typed, History, OnlyCompleted, [Next]_vars
  PROVE  OnlyCompleted'
<1> USE DEF Typed, TypeOK, OnlyCompleted
<1>1. ASSUME NEW s \in Scans, Launch(s) \/ Claim(s) \/ FailUndispatched(s) \/ Fail(s)
      PROVE  OnlyCompleted'
  <2>1. stored' = stored /\ status[s] # "COMPLETED"
    BY <1>1 DEF Launch, Claim, FailUndispatched, Fail
  <2>2. \A r \in Scans : r # s => status'[r] = status[r]
    BY <1>1 DEF Launch, Claim, FailUndispatched, Fail
  <2>3. QED
    BY <2>1, <2>2
<1>2. ASSUME NEW s \in Scans, Nmap(s) \/ Write(s) PROVE OnlyCompleted'
  BY <1>2 DEF Nmap, Write
<1>3. ASSUME NEW s \in Scans, Commit(s) PROVE OnlyCompleted'
  BY <1>3 DEF Commit
<1>4. ASSUME NEW t \in Tenants, NetworkChanges(t) PROVE OnlyCompleted'
  BY <1>4 DEF NetworkChanges
<1>5. ASSUME NEW t \in Tenants, DeleteTenant(t) PROVE OnlyCompleted'
  BY <1>5 DEF DeleteTenant
<1>6. CASE ReaderStep \/ UNCHANGED vars
  <2>1. UNCHANGED scanVars
    BY <1>6 DEF ReaderStep, Open, ReadResults, ReadCurrent, ReadPrevious, ReadBaseline, vars
  <2>2. QED
    BY <2>1 DEF scanVars
<1>7. QED
  BY <1>1, <1>2, <1>3, <1>4, <1>5, <1>6 DEF Next, ReaderStep

LEMMA StepIsOfContract ==
  ASSUME Typed, History, [Next]_vars
  PROVE  [Contract!Next]_(Contract!statusVars)
<1> USE DEF Typed, TypeOK, Contract!statusVars
<1>1. ASSUME NEW s \in Scans, Launch(s) PROVE Contract!Next
  <2>1. Contract!Launch(s)
    BY <1>1 DEF Launch, Contract!Launch
  <2>2. QED
    BY <2>1 DEF Contract!Next
<1>2. ASSUME NEW s \in Scans, Claim(s) PROVE Contract!Next
  <2>1. Contract!Claim(s)
    BY <1>2 DEF Claim, Contract!Claim
  <2>2. QED
    BY <2>1 DEF Contract!Next
<1>3. ASSUME NEW s \in Scans, Commit(s) PROVE Contract!Next
  <2>1. status[s] = "RUNNING"
    BY <1>3 DEF Commit, History
  <2>2. Contract!Complete(s)
    BY <1>3, <2>1 DEF Commit, Contract!Complete
  <2>3. QED
    BY <2>2 DEF Contract!Next
<1>4. ASSUME NEW s \in Scans, FailUndispatched(s) \/ Fail(s) PROVE Contract!Next
  <2>1. Contract!Fail(s)
    BY <1>4 DEF FailUndispatched, Fail, Contract!Fail, Contract!Active
  <2>2. QED
    BY <2>1 DEF Contract!Next
<1>5. ASSUME NEW t \in Tenants, DeleteTenant(t) PROVE Contract!Next
  <2>1. Contract!Remove(ScansOf(t)) /\ ScansOf(t) \in SUBSET Scans
    BY <1>5 DEF DeleteTenant, ScansOf, Contract!Remove
  <2>2. QED
    BY <2>1 DEF Contract!Next
<1>6. ASSUME NEW s \in Scans, Nmap(s) \/ Write(s) PROVE UNCHANGED Contract!statusVars
  BY <1>6 DEF Nmap, Write
<1>7. ASSUME NEW t \in Tenants, NetworkChanges(t) PROVE UNCHANGED Contract!statusVars
  BY <1>7 DEF NetworkChanges
<1>8. CASE ReaderStep \/ UNCHANGED vars
  <2>1. UNCHANGED status
    BY <1>8 DEF ReaderStep, Open, ReadResults, ReadCurrent, ReadPrevious, ReadBaseline,
                vars, scanVars
  <2>2. QED
    BY <2>1
<1>9. QED
  BY <1>1, <1>2, <1>3, <1>4, <1>5, <1>6, <1>7, <1>8 DEF Next, ReaderStep

\* Scans as the reports see them, each its own worker, keep the contract that
\* the lifecycle of ScanLifecycle keeps with its workers and messages: what the
\* baseline, the summary and the report are computed from is a progression that
\* the platform documents, and nothing but a completed scan has results.
THEOREM ReportsImplementStatus == Spec => Contract!Spec /\ []OnlyCompleted
<1>1. Init => OnlyCompleted
  BY DEF Init, OnlyCompleted
<1>2. Init => Contract!Init
  BY DEF Init, Contract!Init
<1>3. Typed /\ History /\ OnlyCompleted /\ [Next]_vars => OnlyCompleted'
  BY OnlyCompletedInductive
<1>4. Typed /\ History /\ [Next]_vars => [Contract!Next]_(Contract!statusVars)
  BY StepIsOfContract
<1>5. QED
  BY <1>1, <1>2, <1>3, <1>4, HistoryInvariant, PTL DEF Spec, Contract!Spec
=============================================================================
