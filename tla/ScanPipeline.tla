----------------------------- MODULE ScanPipeline -----------------------------
(***************************************************************************)
(* One scan from the request to its summary: which targets a caller may     *)
(* name, how policy and the ceiling filter them in the API and once more in *)
(* the worker, what Nmap is given, and what of its report is stored and      *)
(* shown.  Meanwhile the tenant's ranges change, and a deployment may change *)
(* the settings while the job is in the queue.  Faults of the job itself    *)
(* are in ScanLifecycle.                                                   *)
(***************************************************************************)
EXTENDS TargetPolicy, Assessment, FiniteSets

CONSTANTS
  Policies,    \* the settings that deployments use
  Registrable, \* blocks that the tenant registers at times
  Requested,   \* the lists of inline targets that callers type
  Options,     \* the profiles and ports that callers ask for
  Reports      \* reports of Nmap

\* ScanProfile, of which BALANCED is the default, and port_range: one that only
\* looks like ports passes the API.
Profiles  == {"fast", "balanced", "thorough"}
PortSpecs == {"none", "explicit", "malformed"}
Default   == [profile |-> "balanced", ports |-> "none"]

ASSUME PipelineAssumption ==
  /\ Policies \subseteq PolicyType
  /\ Registrable \subseteq Blocks /\ IsFiniteSet(Registrable)
  /\ Requested \subseteq Seq(Texts)
  /\ Options \subseteq [profile : Profiles, ports : PortSpecs]
  /\ Reports \subseteq Seq(HostElements)

VARIABLES
  registered,  \* SUBSET Registrable, the tenant's ranges
  policy,      \* the settings
  phase,
  member,      \* the caller is a user of the tenant, not an administrator
  options,     \* the profile and the ports of the request
  allowed,     \* what was registered when the targets were resolved
  asked,       \* the targets of this selection
  todo,        \* those the loop of select_scannable_targets has not seen
  accepted,    \* those it accepted
  total,       \* their addresses
  answered,    \* what the API accepted and put in the message
  decided,     \* the settings the API decided under
  command,     \* what Nmap was given
  results      \* findings stored

selection == <<asked, todo, accepted, total>>
decision  == <<member, options, allowed, answered, decided>>
outcome   == <<command, results>>
vars == <<registered, policy, phase, decision, selection, outcome>>

Phases == {"idle", "selecting", "refused", "queued", "reselecting", "scanning",
           "completed", "failed"}

\* Flags of build_scan_command.  An explicit port_range wins over the profile.
DetectsVersions(profile) == profile # "fast"

PortSelection(o) ==
  IF o.ports # "none" THEN "explicit"
  ELSE IF o.profile = "thorough" THEN "registered" ELSE "common"

NoCommand == [targets |-> <<>>, versions |-> FALSE, ports |-> "common"]

TypeOK ==
  /\ registered \subseteq Registrable
  /\ policy \in Policies /\ decided \in Policies
  /\ phase \in Phases
  /\ member \in BOOLEAN
  /\ options \in [profile : Profiles, ports : PortSpecs]
  /\ command \in [targets : Seq(Blocks), versions : BOOLEAN,
                  ports : {"explicit", "registered", "common"}]
  /\ allowed \subseteq Registrable
  /\ asked \subseteq Blocks
  /\ todo \in Seq(Blocks) /\ accepted \in Seq(Blocks) /\ answered \in Seq(Blocks)
  /\ total \in Nat

Init ==
  /\ registered = {}
  /\ policy \in Policies /\ decided = policy
  /\ phase = "idle"
  /\ member = FALSE
  /\ allowed = {} /\ asked = {}
  /\ todo = <<>> /\ accepted = <<>> /\ answered = <<>>
  /\ total = 0
  /\ options = Default
  /\ command = NoCommand
  /\ results = <<>>

(***************************************************************************)
(* The launch                                                              *)
(***************************************************************************)
\* Mutant of Select: the addresses of the API's selection are counted on.
SelectOnTop(list) ==
  /\ asked' = RangeOf(list)
  /\ todo' = list
  /\ accepted' = <<>>
  /\ UNCHANGED total

\* select_scannable_targets begins.
Select(list) ==
  /\ asked' = RangeOf(list)
  /\ todo' = list
  /\ accepted' = <<>>
  /\ total' = 0

\* Without inline targets the tenant's ranges, which the query does not order.
LaunchRegistered(list) ==
  /\ phase = "idle"
  /\ RangeOf(list) = registered /\ Len(list) = Cardinality(registered)
  /\ phase' = "selecting"
  /\ member' \in BOOLEAN
  /\ options' \in Options
  /\ allowed' = registered
  /\ Select(list)
  /\ decided' = policy
  /\ UNCHANGED <<registered, policy, answered, outcome>>

\* _validate_targets: a list with one invalid target is refused, and a target
\* that was typed twice is kept once, at its first place.
Canonical(texts) == [i \in DOMAIN texts |-> Normalise(texts[i])]

Distinct(list) ==
  Subsequence(list, {i \in DOMAIN list : \A j \in DOMAIN list : j < i => list[j] # list[i]})

\* Mutant of MayName: a member may name a block that contains a registered one.
MayNameAround(n, isMember) ==
  isMember => \E r \in registered : ContainedIn(n, r) \/ ContainedIn(r, n)

\* A member stays inside what is registered; an administrator need not.
MayName(n, isMember) == isMember => \E r \in registered : ContainedIn(n, r)

LaunchInline(texts, isMember) ==
  /\ phase = "idle"
  /\ texts # <<>> /\ Invalid \notin RangeOf(Canonical(texts))
  /\ \A n \in RangeOf(Canonical(texts)) : MayName(n, isMember)
  /\ phase' = "selecting"
  /\ member' = isMember
  /\ options' \in Options
  /\ allowed' = registered
  /\ Select(Distinct(Canonical(texts)))
  /\ decided' = policy
  /\ UNCHANGED <<registered, policy, answered, outcome>>

Fits(n) == total + n.size <= policy.ceiling

\* Mutant of Consider: what does not fit ends the loop.
ConsiderUntilFull ==
  /\ phase \in {"selecting", "reselecting"} /\ todo # <<>>
  /\ LET n == Head(todo)
     IN  IF Permitted(policy, n) /\ Fits(n)
         THEN accepted' = Append(accepted, n) /\ total' = total + n.size /\ todo' = Tail(todo)
         ELSE /\ todo' = IF Permitted(policy, n) THEN <<>> ELSE Tail(todo)
              /\ UNCHANGED <<accepted, total>>
  /\ UNCHANGED <<registered, policy, phase, decision, asked, outcome>>

\* One iteration of the loop, in the API or the worker: a target that policy
\* refuses or that does not fit any more is left out, and the loop goes on.
Consider ==
  /\ phase \in {"selecting", "reselecting"} /\ todo # <<>>
  /\ LET n == Head(todo)
     IN  IF Permitted(policy, n) /\ Fits(n)
         THEN accepted' = Append(accepted, n) /\ total' = total + n.size
         ELSE UNCHANGED <<accepted, total>>
  /\ todo' = Tail(todo)
  /\ UNCHANGED <<registered, policy, phase, decision, asked, outcome>>

\* 422 when nothing is left.
Refuse ==
  /\ phase = "selecting" /\ todo = <<>> /\ accepted = <<>>
  /\ phase' = "refused"
  /\ UNCHANGED <<registered, policy, decision, selection, outcome>>

\* The scan is created, and its message has the accepted targets.
Enqueue ==
  /\ phase = "selecting" /\ todo = <<>> /\ accepted # <<>>
  /\ phase' = "queued"
  /\ answered' = accepted
  /\ UNCHANGED <<registered, policy, member, options, allowed, decided, selection, outcome>>

(***************************************************************************)
(* The worker                                                              *)
(***************************************************************************)
\* Mutant of Claim: the worker trusts the message.
ClaimTrusting ==
  /\ phase = "queued"
  /\ phase' = "reselecting"
  /\ asked' = RangeOf(answered) /\ todo' = <<>>
  /\ UNCHANGED <<registered, policy, decision, accepted, total, outcome>>

\* _execute_scan: the targets of the message go through policy again.
Claim ==
  /\ phase = "queued"
  /\ phase' = "reselecting"
  /\ Select(answered)
  /\ UNCHANGED <<registered, policy, decision, outcome>>

\* Every target was refused, or _validate_port_range refuses the ports, which
\* the API only looked at character by character.
Reject ==
  /\ phase = "reselecting" /\ todo = <<>>
  /\ accepted = <<>> \/ options.ports = "malformed"
  /\ phase' = "failed"
  /\ UNCHANGED <<registered, policy, decision, selection, outcome>>

\* build_scan_command, and Nmap starts.
Build ==
  /\ phase = "reselecting" /\ todo = <<>> /\ accepted # <<>>
  /\ options.ports # "malformed"
  /\ phase' = "scanning"
  /\ command' = [targets |-> accepted, versions |-> DetectsVersions(options.profile),
                 ports |-> PortSelection(options)]
  /\ UNCHANGED <<registered, policy, decision, selection, results>>

\* run_nmap raises, or the report cannot be read.
NmapFails ==
  /\ phase = "scanning"
  /\ phase' = "failed"
  /\ UNCHANGED <<registered, policy, decision, selection, outcome>>

Forget ==
  /\ asked' = {} /\ todo' = <<>> /\ accepted' = <<>> /\ total' = 0
  /\ member' = FALSE /\ options' = Default
  /\ allowed' = {} /\ answered' = <<>> /\ decided' = policy
  /\ command' = NoCommand

\* replace_scan_results: all findings, or none when the index refuses one.
Store(report) ==
  /\ phase = "scanning"
  /\ IF Storable(Parsed(report))
     THEN phase' = "completed" /\ results' = Parsed(report)
     ELSE phase' = "failed" /\ results' = <<>>
  /\ Forget
  /\ UNCHANGED <<registered, policy>>

(***************************************************************************)
(* Meanwhile                                                               *)
(***************************************************************************)
\* The next request.
Leave ==
  /\ phase \in {"refused", "completed", "failed"}
  /\ phase' = "idle"
  /\ results' = <<>>
  /\ Forget
  /\ UNCHANGED <<registered, policy>>

\* Somebody edits the tenant's ranges.
Register(n) ==
  /\ registered' = IF n \in registered THEN registered \ {n} ELSE registered \cup {n}
  /\ UNCHANGED <<policy, phase, decision, selection, outcome>>

\* A deployment between the API's decision and the worker's.
Deploy(p) ==
  /\ phase = "queued"
  /\ policy' = p
  /\ UNCHANGED <<registered, phase, decision, selection, outcome>>

Launch ==
  \/ \E list \in [1..Cardinality(registered) -> registered] : LaunchRegistered(list)
  \/ \E texts \in Requested, isMember \in BOOLEAN : LaunchInline(texts, isMember)

Work ==
  \/ Consider \/ Refuse \/ Enqueue
  \/ Claim \/ Reject \/ Build \/ NmapFails
  \/ \E report \in Reports : Store(report)

Next ==
  \/ Launch \/ Work \/ Leave
  \/ \E n \in Registrable : Register(n)
  \/ \E p \in Policies : Deploy(p)

Spec == Init /\ [][Next]_vars

(***************************************************************************)
(* Properties                                                              *)
(***************************************************************************)
\* Nothing that policy refuses is ever accepted, in the API or in the worker,
\* and never more addresses than the ceiling of the moment of the decision:
\* Nmap is given nothing that the settings of the worker forbid.
SelectionObeysPolicy ==
  phase \in {"selecting", "reselecting", "scanning"} =>
    /\ \A n \in RangeOf(accepted) :
         /\ \A m \in Forbidden(policy) : Covers(n) \cap Covers(m) = {}
         /\ policy.allowPrivate \/ \A p \in Private : ~(Covers(n) \subseteq Covers(p))
    /\ total <= policy.ceiling

\* A member's scan stays inside the ranges registered when it was launched,
\* from the launch to Nmap, and no target appears on the way.
StaysInside ==
  /\ phase \in {"selecting", "reselecting", "scanning"} =>
       RangeOf(todo) \cup RangeOf(accepted) \subseteq asked
  /\ phase \in {"reselecting", "scanning"} => RangeOf(accepted) \subseteq RangeOf(answered)
  /\ member => \A n \in asked : \E r \in allowed : Covers(n) \subseteq Covers(r)

\* A launch is refused only when no target of it could have been scanned
\* alone: "one misconfigured range must not prevent an ISP from auditing the
\* rest of its estate".
RefusedOnlyIfHopeless ==
  phase = "refused" =>
    \A n \in asked : ~Permitted(policy, n) \/ n.size > policy.ceiling

\* The worker decides again, and under the same settings it decides the same:
\* what the launch was answered and what the trail says is scanned is what
\* Nmap is given, with the ports that were asked for, and the addresses are
\* those of the targets.
WorkerAgrees ==
  phase = "scanning" /\ policy = decided =>
    /\ command.targets = answered
    /\ command.ports = "explicit" <=> options.ports = "explicit"
    /\ total = FoldLeft(LAMBDA sum, n : sum + n.size, 0, answered)

\* What a report shows is true of what was stored: a host appears once, the
\* counts are those of all open ports, and the notable findings are the worst
\* there are, none cut that is worse than one shown.
SummaryIsTrue ==
  LET judged  == Judged(results)
      summary == Summary(results)
      shown   == RangeOf(summary.notable)
      notable == {f \in RangeOf(judged) : f.severity >= High}
  IN  phase = "completed" =>
        /\ \A i, j \in DOMAIN results : results[i].host = results[j].host => i = j
        /\ \A s \in Severities :
             summary.counts[s] = Cardinality({i \in DOMAIN judged : judged[i].severity = s})
        /\ \A f \in RangeOf(judged) : f.severity <= summary.highest
        /\ summary.highest >= High => summary.notable[1].severity = summary.highest
        /\ shown \subseteq notable
        /\ \A f \in notable \ shown : \A g \in shown : f.severity <= g.severity
=============================================================================
