--------------------------- MODULE MCScanReports ---------------------------
(***************************************************************************)
(* Instances of ScanReports for TLC: two hosts, two ports and two versions *)
(* of one service are enough for a host to appear, to go quiet, to go down *)
(* and to change, and three scans for a baseline to be the wrong one.      *)
(***************************************************************************)
EXTENDS ScanReports

CONSTANTS s1, s2, s3, s4, t1, t2, h1, h2, p1, p2

OwnerOne == [s \in Scans |-> t1]
OwnerTwo == [s \in Scans |-> IF s = s4 THEN t2 ELSE t1]

Ssh(v) == [service |-> "ssh", version |-> v]

\* h1 is upgraded and opens a port while h2 appears; h1 answers with every
\* port closed.
Calm      == [h \in Hosts |-> IF h = h1 THEN [p \in {p1} |-> Ssh("8.4")] ELSE Down]
Upgraded  == [h \in Hosts |-> IF h = h1 THEN [p \in {p1, p2} |-> Ssh("9.6")]
                              ELSE [p \in {p1} |-> Ssh("8.4")]]
WentQuiet == [h \in Hosts |-> IF h = h1 THEN [p \in {} |-> p] ELSE Down]

ThreeNetworks == {Calm, Upgraded, WentQuiet}
TwoNetworks   == {Calm, Upgraded}
=============================================================================
