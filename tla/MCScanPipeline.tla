---------------------------- MODULE MCScanPipeline ----------------------------
(***************************************************************************)
(* An instance of ScanPipeline for TLC: eight addresses of each version,   *)
(* two deployments, three ranges a tenant may register, every list of up   *)
(* to three of eight texts, and reports of up to two of seven host         *)
(* elements.                                                               *)
(***************************************************************************)
EXTENDS ScanPipeline, TLC

V4(first, size) == [version |-> 4, first |-> first, size |-> size]
V6(first, size) == [version |-> 6, first |-> first, size |-> size]

PrivateDef == {V4(4, 4)}

AlwaysForbiddenDef == {V4(0, 1)}

\* A generous deployment, and a strict one that denies an address.
PoliciesDef ==
  {[denylist |-> {}, allowPrivate |-> TRUE, ceiling |-> 5],
   [denylist |-> {V4(2, 1)}, allowPrivate |-> FALSE, ceiling |-> 3]}

\* The profile's ports, explicit ones over those of a profile, and ports that
\* the worker refuses.
OptionsDef ==
  {[profile |-> "fast", ports |-> "none"], [profile |-> "thorough", ports |-> "explicit"],
   [profile |-> "balanced", ports |-> "malformed"]}

RegistrableDef == {V4(4, 4), V4(2, 2), V6(4, 2)}

Bare(n) == n @@ [prefixed |-> FALSE]
Cidr(n) == n @@ [prefixed |-> TRUE]

\* A host inside the private block in its two forms, the private block, one
\* that reaches into the forbidden address, one with host bits set, two of
\* the other version, one of them too large for any deployment, and a string
\* that is no address.
TextsDef ==
  {Bare(V4(5, 1)), Cidr(V4(5, 1)), Cidr(V4(4, 4)), Cidr(V4(0, 4)), Cidr(V4(3, 2)),
   Cidr(V6(4, 2)), Cidr(V6(0, 8)), Invalid}

RequestedDef == UNION {[1..n -> TextsDef] : n \in 1..3}

\* A service in which two keywords occur, and one with one.
MentionsDef == {<<"ftp-http", "ftp">>, <<"ftp-http", "http">>, <<"http", "http">>}

Tcp(port, service) == [port |-> port, protocol |-> "tcp", service |-> service, open |-> TRUE]
Udp(port) == [port |-> port, protocol |-> "udp", service |-> "none", open |-> TRUE]
Closed(port) == [port |-> port, protocol |-> "tcp", service |-> "none", open |-> FALSE]

Element(host, ports) == [host |-> host, up |-> TRUE, ports |-> ports]

\* Ports of four severities and without a rule.  Address 0 cannot be read.
ElementsDef ==
  {Element(1, <<Udp(69), Tcp(80, "http")>>), Element(2, <<Tcp(23, "none"), Closed(80)>>),
   Element(1, <<Tcp(9999, "ftp-http"), Tcp(70000, "http")>>), Element(2, <<Closed(80)>>),
   Element(3, <<Tcp(8081, "http"), Tcp(1, "none")>>), Element(0, <<Tcp(23, "none")>>),
   [Element(3, <<Tcp(23, "none")>>) EXCEPT !.up = FALSE]}

ReportsDef == UNION {[1..n -> ElementsDef] : n \in 0..2}
=============================================================================
