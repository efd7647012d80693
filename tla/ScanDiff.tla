------------------------------ MODULE ScanDiff ------------------------------
(***************************************************************************)
(* The comparison of a scan with its predecessor (compare_scans): a pure   *)
(* function of two snapshots.  A snapshot maps the hosts a scan stored to  *)
(* their open ports, and a port, identified by protocol and number, to the *)
(* service and version found there.  The sorting of hosts and ports for    *)
(* display is left out, and so are hosts listed twice, which the database  *)
(* refuses, and ports listed twice, which Nmap does not report.            *)
(***************************************************************************)
EXTENDS Functions

CONSTANTS
  Hosts,       \* host addresses
  Ports,       \* (protocol, port) pairs
  Names,       \* service names, the absent one included
  Versions,    \* service versions, the absent one included
  NoBaseline   \* the snapshot of a tenant that never completed a scan

Services      == [service : Names, version : Versions]
HostSnapshots == UNION {[K -> Services] : K \in SUBSET Ports}
Snapshots     == UNION {[H -> HostSnapshots] : H \in SUBSET Hosts}

ASSUME NoBaselineAssumption == NoBaseline \notin Snapshots

\* Mutant of ServiceMoved: a new version of the same service goes unnoticed.
OnlyServiceMoved(before, after) == before.service # after.service

ServiceMoved(before, after) ==
  before.service # after.service \/ before.version # after.version

\* _changed_ports: the ports open in both scans whose service moved.
ChangedPorts(before, after) ==
  [k \in {k \in DOMAIN before \cap DOMAIN after : ServiceMoved(before[k], after[k])} |->
     [previous |-> before[k], current |-> after[k]]]

HostDiff(before, after) ==
  [opened  |-> Restrict(after, DOMAIN after \ DOMAIN before),
   closed  |-> Restrict(before, DOMAIN before \ DOMAIN after),
   changed |-> ChangedPorts(before, after)]

HostHasChanges(d) ==
  DOMAIN d.opened # {} \/ DOMAIN d.closed # {} \/ DOMAIN d.changed # {}

\* Hosts present in both scans, those without a change omitted.
HostDiffs(before, after) ==
  LET diff == [h \in DOMAIN before \cap DOMAIN after |-> HostDiff(before[h], after[h])]
  IN  Restrict(diff, {h \in DOMAIN diff : HostHasChanges(diff[h])})

\* Without a baseline nothing is new: a first scan reports no change.
FirstDiff == [hasBaseline |-> FALSE, new |-> {}, gone |-> {},
              hosts |-> [h \in {} |-> h]]

CompareScans(before, after) ==
  IF before = NoBaseline
  THEN FirstDiff
  ELSE [hasBaseline |-> TRUE,
        new   |-> DOMAIN after \ DOMAIN before,
        gone  |-> DOMAIN before \ DOMAIN after,
        hosts |-> HostDiffs(before, after)]

HasChanges(d) == d.new # {} \/ d.gone # {} \/ DOMAIN d.hosts # {}

(***************************************************************************)
(* Reference: what a reader of a difference can reconstruct.               *)
(***************************************************************************)
\* The ports of a host after its differences are applied to what they were.
ReplayHost(before, d) ==
  [k \in (DOMAIN before \ DOMAIN d.closed) \cup DOMAIN d.opened |->
     IF k \in DOMAIN d.opened THEN d.opened[k]
     ELSE IF k \in DOMAIN d.changed THEN d.changed[k].current
     ELSE before[k]]

\* The whole snapshot; the ports of a new host come from the scan's results.
Replay(before, d, found) ==
  [h \in (DOMAIN before \ d.gone) \cup d.new |->
     IF h \in d.new THEN found[h]
     ELSE IF h \in DOMAIN d.hosts THEN ReplayHost(before[h], d.hosts[h])
     ELSE before[h]]

\* A difference loses nothing: with the earlier snapshot and the ports of the
\* new hosts it gives the later snapshot back.
ReplayRestores(before, after) ==
  Replay(before, CompareScans(before, after),
         Restrict(after, DOMAIN after \ DOMAIN before)) = after

\* ... and invents nothing: it is empty exactly when nothing differs.
ChangesAreReal(before, after) ==
  HasChanges(CompareScans(before, after)) <=> before # after
=============================================================================
