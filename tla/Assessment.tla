------------------------------ MODULE Assessment ------------------------------
(***************************************************************************)
(* From the report of Nmap to what an operator reads: which hosts and ports *)
(* of a report are kept, how bad each is, and how a scan sums up.  Reports  *)
(* are sequences of host elements as Nmap orders them.                     *)
(***************************************************************************)
EXTENDS Naturals, Sequences, SequencesExt

CONSTANTS
  Mentions,     \* <<service, keyword>>: the service's name has the keyword in it
  MaxNotable    \* _MAX_NOTABLE

ASSUME NotableAssumption == MaxNotable \in Nat \ {0}

\* Severity, an IntEnum: INFO, LOW, MEDIUM, HIGH, CRITICAL.
Severities == 0..4
Info == 0
Low == 1
Medium == 2
High == 3
Critical == 4

MaxPort == 65535

(***************************************************************************)
(* Sequences                                                               *)
(***************************************************************************)
RangeOf(s) == {s[i] : i \in DOMAIN s}

\* The elements at some indices, in their order.
Subsequence(s, I) ==
  LET Nth(k) == CHOOSE i \in I : Cardinality({j \in I : j < i}) = k - 1
  IN  [k \in 1..Cardinality(I) |-> s[Nth(k)]]

Kept(s, Test(_)) == Subsequence(s, {i \in DOMAIN s : Test(s[i])})

\* list.sort: nothing comes after what it is before.
InOrder(s, Before(_, _)) ==
  LET order == CHOOSE p \in Bijection(DOMAIN s, DOMAIN s) :
                 \A i, j \in DOMAIN s : i < j => ~Before(s[p[j]], s[p[i]])
  IN  [i \in DOMAIN s |-> s[order[i]]]

(***************************************************************************)
(* Parsing                                                                 *)
(***************************************************************************)
Protocols == {"tcp", "udp", "sctp"}
Rank(protocol) == CASE protocol = "sctp" -> 1 [] protocol = "tcp" -> 2 [] protocol = "udp" -> 3

\* What is read of a host in a report.  0 is an address that is none.
PortElements == [port : Nat, protocol : STRING, service : STRING, open : BOOLEAN]
HostElements == [host : Nat, up : BOOLEAN, ports : Seq(PortElements)]

\* An open port with a number and a protocol that are kept.
Reportable(p) == p.open /\ p.port \in 1..MaxPort /\ p.protocol \in Protocols

PortBefore(p, q) ==
  \/ Rank(p.protocol) < Rank(q.protocol)
  \/ p.protocol = q.protocol /\ p.port < q.port

\* _open_ports: sorted by protocol and port.
OpenPorts(element) ==
  LET kept == Kept(element.ports, Reportable)
  IN  InOrder([i \in DOMAIN kept |->
                 [port |-> kept[i].port, protocol |-> kept[i].protocol,
                  service |-> kept[i].service]],
              PortBefore)

\* A host that answered, with an address that can be read.
Answered(element) == element.up /\ element.host # 0

HostBefore(h, g) == h.host < g.host

\* parse_nmap_xml: hosts with open ports, by address.  Quiet hosts go to the
\* task's result only.
Parsed(report) ==
  LET up  == Kept(report, Answered)
      all == [i \in DOMAIN up |-> [host |-> up[i].host, ports |-> OpenPorts(up[i])]]
  IN  InOrder(Kept(all, LAMBDA h : h.ports # <<>>), HostBefore)

\* uq_scan_results_scan_id_host_ip.
Storable(findings) ==
  \A i, j \in DOMAIN findings : findings[i].host = findings[j].host => i = j

(***************************************************************************)
(* Assessment                                                              *)
(***************************************************************************)
\* _PORT_RULES, as the ports of each severity.
PortsRated ==
  [s \in Low..Critical |->
     CASE s = Critical -> {23, 512, 513, 514, 445, 3389, 2375, 1433, 3306, 5432, 6379, 9200, 27017}
       [] s = High     -> {11211, 21, 69, 161, 1723, 137, 139, 389}
       [] s = Medium   -> {22, 80, 8080, 8000, 8443, 8888, 5000}
       [] s = Low      -> {443, 993, 995, 465}]

\* _SERVICE_KEYWORDS, in the order in which they are tried.
Keywords ==
  << <<"telnet", Critical>>, <<"mysql", Critical>>, <<"postgres", Critical>>,
     <<"mongo", Critical>>, <<"redis", Critical>>, <<"ms-sql", Critical>>, <<"vnc", Critical>>,
     <<"rdp", Critical>>, <<"ftp", High>>, <<"snmp", High>>, <<"smb", Critical>>,
     <<"http", Medium>> >>

\* assess_port: the rule of the port, else the first keyword in the service.
Verdict(p) ==
  IF \E s \in DOMAIN PortsRated : p.port \in PortsRated[s]
  THEN CHOOSE s \in DOMAIN PortsRated : p.port \in PortsRated[s]
  ELSE LET hits == {k \in DOMAIN Keywords : <<p.service, Keywords[k][1]>> \in Mentions}
       IN  IF hits = {} THEN Info
           ELSE Keywords[CHOOSE k \in hits : \A j \in hits : k <= j][2]

WorseFirst(f, g) ==
  \/ f.severity > g.severity
  \/ f.severity = g.severity /\ f.host < g.host
  \/ f.severity = g.severity /\ f.host = g.host /\ f.port < g.port

\* Every port of a scan with its host and its severity.
Judged(results) ==
  FlattenSeq([i \in DOMAIN results |-> [j \in DOMAIN results[i].ports |->
    [host |-> results[i].host, port |-> results[i].ports[j].port,
     protocol |-> results[i].ports[j].protocol, severity |-> Verdict(results[i].ports[j])]]])

Nothing == [counts |-> [s \in Severities |-> 0], highest |-> Info, notable |-> <<>>]

\* One iteration of the loop of _assess_results.
Count(summary, f) ==
  [counts  |-> [summary.counts EXCEPT ![f.severity] = @ + 1],
   highest |-> IF f.severity > summary.highest THEN f.severity ELSE summary.highest,
   notable |-> IF f.severity >= High THEN Append(summary.notable, f) ELSE summary.notable]

FirstOf(s, n) == SubSeq(s, 1, IF Len(s) < n THEN Len(s) ELSE n)

\* Mutant of Summary: the notable findings are cut before they are sorted.
SummaryCutFirst(results) ==
  LET whole == FoldLeft(Count, Nothing, Judged(results))
  IN  [whole EXCEPT !.notable = InOrder(FirstOf(@, MaxNotable), WorseFirst)]

\* _assess_results: worst first, then by host and port, and the first of them.
Summary(results) ==
  LET whole == FoldLeft(Count, Nothing, Judged(results))
  IN  [whole EXCEPT !.notable = FirstOf(InOrder(@, WorseFirst), MaxNotable)]
=============================================================================
