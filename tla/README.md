# NetShield-ISP in TLA+

NetShield-ISP scans the networks of an ISP's customers: operators launch Nmap
scans from a web console, a FastAPI service stores them in PostgreSQL and sends
a Celery task over Redis, and worker processes run Nmap and store the findings.
This directory holds TLA+ models of that code, the TLC configurations that
check them on small instances and TLAPS proofs of what holds for every
instance. Paths below are relative to `src/`.

## Inventory

| Component | Source | State | Operations | What is hard | What makes it correct |
|---|---|---|---|---|---|
| Launch API | `backend/app/api/v1/endpoints/scans.py`, `repositories/scan.py`, `db/session.py` | rows of `scans`, events of `audit_events` | quota check, target check, insert, dispatch, dispatch failure, audit | four transactions and a broker call in one request; requests of one tenant race; the process can die between any two | quota, no orphaned row, every launch audited |
| Scan task and worker pool | `workers/tasks/scanning.py`, `workers/scanning/repository.py`, `workers/celery_app.py` | row status, finish time, findings; the broker's messages and leases | claim, run, store, finish, mark failed, ack | at-least-once delivery, worker loss, time limits, failure while recording a failure | one owner per scan, findings written once and together with COMPLETED, every scan finishes |
| Tenants and workspaces | `api/v1/endpoints/tenants.py`, `repositories/tenant.py` | `tenants` and all that cascades from it | create, rename, delete; an operator's ad-hoc workspace is created on first use | deletion under a running scan or an insert; check-then-insert | a deleted tenant leaves nothing, one workspace per operator, a true trail |
| Targets | `api/v1/endpoints/targets.py`, `repositories/network_target.py` | ranges registered for a tenant | add, edit, remove | check-then-insert; edits that overlap; a check that reads one page | no duplicate range, an edit keeps what it omits |
| Target policy | `workers/scanning/command.py`, `core/network.py` | the settings of a process | which targets may be scanned | decided twice, by processes that may have different settings; ceilings, overlap | nothing outside the permitted ranges reaches Nmap, and the second decision is the first |
| Runner and parser | `workers/scanning/runner.py`, `parser.py` | a subprocess | run, time out, parse | bounded output, duplicate hosts | a report or an error, never half of one |
| Comparison and report | `workers/scanning/diff.py`, `repositories/scan.py`, report part of `endpoints/scans.py` | reads only | pick the baseline, diff, assess | two clocks order scans; a baseline deleted meanwhile | a change reported once, and only if it is one |
| Risk | `core/risk.py` | none (pure) | severity of ports, sum of a scan | more findings than are shown | counts are true and nothing worse than what is shown is cut |
| Sign-in throttle | `core/ratelimit.py`, `endpoints/auth.py` | counters with expiry in Redis | check, record, reset | check and record are separate, INCR and EXPIRE too; Redis may not answer | failed attempts in a window are bounded, and counters clear |
| Accounts and tokens | `core/security.py`, `endpoints/users.py`, `api/dependencies.py`, `diagnostics/create_admin.py` | `users` | create, delete, set a password, issue and check a token | last-administrator check against concurrent requests; rows read by one statement and written by another | there is always an administrator, addresses are unique, members stay inside their tenant |
| Audit trail | `models/audit.py`, `repositories/audit.py` | `audit_events` | append, page | own transaction | every action recorded |
| Console | `frontend/src/components/console/use-scan-progress.ts`, `lib/actions.ts` | state of one page | launch, poll, refresh, time out | polls that overlap, late answers, renders in between | the page ends on the final state and polling ends |
| Health, migrations, logging | `workers/tasks/system.py`, `alembic/`, `core/logging.py`, `main.py` | none | probes | none | not modelled |

The parts meet at four places. The API and the workers share the database:
the status column is the only lock between them. The API hands work to the
workers through a broker that may deliver it more than once. The API processes
share the counters of the sign-in throttle in Redis. The console only polls the
API.

## Modules

| Module | Models | Kind |
|---|---|---|
| `ScanStatus` | what the platform promises about one scan (`models/enums.py`) | abstract specification |
| `ScanLifecycle` | launch handler, broker and worker task together | detailed specification, refines `ScanStatus` |
| `ScanDiff` | the comparison of two scans (`workers/scanning/diff.py`) | pure operators and a reference |
| `ScanReports` | a changing network, scans that observe it, the summary of each task and the report of the API; extends `ScanDiff` | detailed specification |
| `TargetPolicy` | addresses, blocks, normalisation and what may be scanned (`core/network.py`, `workers/scanning/command.py`) | pure operators |
| `Assessment` | what is kept of an Nmap report, severities, the sum of a scan (`parser.py`, `core/risk.py`) | pure operators |
| `ScanPipeline` | the content of one scan from the request to its summary; extends `TargetPolicy` and `Assessment` | detailed specification |
| `LoginThrottle` | the limiter of failed sign-ins (`core/ratelimit.py`) | detailed specification |
| `Accounts` | accounts and the handlers that create, remove and re-key them | detailed specification |
| `Directory` | tenants, workspaces and registered ranges | detailed specification |
| `ScanPage` | the console's page that launches and follows scans, over `INSTANCE ScanStatus` | composition with the abstract specification |

`MC<module>` has the instance for TLC, `<module>Proofs` the theorems.
`ScanStatus` is what they have in common: `ScanLifecycle` and `ScanReports` are
shown to implement it, and `ScanPage` takes it for the server it polls.
`ScanLifecycle` says who runs a scan and what becomes of it; `ScanPipeline` says
what is scanned and stored; `ScanReports` says what a tenant is told of several
scans. They share the sequence of the task and nothing else, so that each stays
small enough to check.

### ScanLifecycle

One action is one transaction or one interaction with the broker, because that
is the granularity at which the processes see each other. `row[s]` is the
status column of scan `s` ("none": not inserted yet; "deleted": gone with its
tenant), `stamped` whether `finished_at` is set, `findings` which worker's run
wrote `scan_results`, `trail` the scans with a `SCAN_LAUNCHED` event. `api[s]`
is the position in `launch_scan` of the request that creates `s`; a worker has
a position in the task (`phase`), its `job`, whether its own claim committed
(`claimed`) and whether the broker still holds its delivery (`leased`).

| Code | Actions |
|---|---|
| `launch_scan`, quota count and 409 | `Admit`, `RefuseQuota` |
| `select_scannable_targets` and 422 | `RefuseTargets` |
| `create_scan` and its commit | `Create`, `CreateWithoutTenant` (foreign key of a tenant deleted meanwhile) |
| `send_task` and the 503 path | `Dispatch`, `DispatchError`, `FailUndispatched` |
| `send_task` raises what `except (CeleryError, OSError)` does not catch: a 500, and the row stays | `DispatchUncaught` |
| the audit event and its commit | `RecordLaunch` |
| `delete_tenant` | `DeleteTenant` |
| delivery by Redis | `Receive`, `VisibilityTimeout` |
| `claim_scan` and the rest of the first transaction | `Claim`, `Skip`, `RejectTargets`, `ClaimError` |
| `run_nmap`, `parse_nmap_xml` | `NmapReturns`, `NmapFails` |
| `replace_scan_results`, `finish_scan` | `Store`, `StoreDeleted`, `StoreError` |
| `compare_scans`, `_log_outcome` | `Compare`, `LateError` |
| `_mark_failed` | `MarkFailed`, `MarkFailedLost` |
| late acknowledgement, worker loss, hard limit | `Ack`, `Kill`, `HardTimeLimit` |

The constant `Faults` selects what the environment may do: `"api"` (an API
process dies), `"send"` (`send_task` raises although the message arrived, or
the retried publish leaves two), `"broker"` (what `send_task` raises is no
`CeleryError` and no `OSError`, as kombu's `OperationalError`, with which Celery
reports a broker that cannot be reached), `"kill"` (a worker dies), `"visibility"`
(a delivery outlives the broker's visibility timeout), `"db"` (a worker's
transaction is aborted) and `"limit"` (the hard time limit). The theorems are
about any subset of them unless they say otherwise.

What is abstracted: the content of a finding, the payload of a message beyond
its scan, the text of errors, and the reasons for which Nmap fails. Whether
the targets of a scan pass the worker's own check is the constant `Scannable`.

### ScanDiff and ScanReports

`ScanDiff` is `compare_scans` as operators: a snapshot is a function from hosts
to functions from ports to what serves there. `Replay` is the reference: what a
reader can reconstruct from the earlier snapshot and the difference. A
difference is right when replaying it gives the later snapshot, and empty
exactly when nothing changed.

`ScanReports` puts it where it is used. The network of a tenant changes at any
time; `Claim` reads the baseline in the transaction that claims the scan,
`Nmap` observes the network, `Write` takes the finish time and `Commit` makes
status and findings visible, so finish times and commits may come in different
orders. A `DeleteTenant` waits for the row lock of a scan being written. The
report is a second process, one action per statement of `get_scan_detail` and
`_build_diff`, because at READ COMMITTED every statement sees a database of its
own: `Open`, `ReadResults`, `ReadCurrent`, `ReadPrevious`, `ReadBaseline`. Who
claims a scan and how it fails is `ScanLifecycle`'s subject; here a scan is its
own worker, which `SingleOwner` justifies. A send_task that lies, after which the
API may write FAILED over COMPLETED, is left to `ScanLifecycle`, and a scan that
is COMPLETED stays so until its tenant goes. Finish times are distinct and come
from one clock: workers on hosts with different clocks are not modelled.

### TargetPolicy, Assessment and ScanPipeline

A block is an aligned interval of the numbers `Addresses`, of version 4 or 6. A
text is what a caller types: a bare address, an address with a prefix (whose
host bits may be set), or no address at all; `Normalise` is `normalise_network`.
`Permitted` is `assert_target_is_permitted`, over the settings of one process.

`ScanPipeline` follows one scan after the other. `LaunchRegistered` and
`LaunchInline` are `_resolve_targets` with the validators of the request;
`Consider` is one iteration of the loop of `select_scannable_targets`, in the API
("selecting") and again in the worker ("reselecting"); `Refuse` is the 422,
`Enqueue` the message, `Claim` the worker's second selection, `Reject` and
`Build` the two ends of `build_scan_command`, `Store` the report that comes back.
Meanwhile the tenant's ranges change (`Register`), and a deployment may change
the settings while the job is queued (`Deploy`).

`Assessment` has the tables of `core/risk.py` as they are: 32 rated ports and 12
keywords. `Parsed` is `parse_nmap_xml`, `Summary` is `_assess_results`; both are
folds and sorts over sequences. Whether a keyword occurs in the name of a service
is the constant relation `Mentions`. Banners, evidence, the texts of reasons and
the XML are left out, and of the argument vector of Nmap the model keeps the
targets, the choice of ports and version detection.

### LoginThrottle

One action is one Redis command: `Check` (`check_login_allowed`, four reads in
one pipeline that is not a transaction; read as one batch, which the bound does
not depend on, as a request that reads a counter early only reads less),
`Verify`, the four commands of `record_failed_login` (`Increment` and `Arm` for
the address signed in with, then for the address signed in from), `Reset` and
`Tick`. The limiter fails open, so every Redis call may raise
(`CheckFails`, `RecordFails`, `ResetFails`), and the process may die (`Stop`).
Time passes in ticks, `HalfSecond` of them in half a second: `SecondsLeft` is the
answer of `TTL`, which is in seconds and rounded to the nearest, and on which
`HeldBack` decides, so that a scope is held back until half a second before its
counter expires. `waived` has the scopes that were let through although they were at
their limit: when Redis did not answer, when the counter had no expiry, and in that
last half second. `GuessesBounded` leaves these out: it bounds the guesses of a window
until half a second before its end. `orphaned` has the scopes whose counter lost the
request that was to send its EXPIRE.
Both are history variables: the code does not know either.

### Accounts

A handler is a sequence of statements at READ COMMITTED: authentication
(`get_principal` and `may_act_for`), for tenants' endpoints the read of the
tenant (`Scope`), a read of the account or a lookup of the address, for
administrators the count, then the write with its event. Every handler of
`users.py` that changes an account is there, `create_admin` of the command line
with its two transactions, and the deletion of a tenant with its accounts. Roles
follow from `tenant_id`, as the schema's check constraint has it. Tokens only
name an account, which `get_principal` reads anew each time, so any live account
may begin a request at any time. `created` and `deleted` are the events of accounts,
the second a count, because a removal that raced another writes an event as well;
`byHand` has the accounts that the command line made, which has no event, and `home`
keeps the tenant of an account that went with it, so that what took it can be told. Of a password the model has whether it was set.

### Directory

`CheckCode` and `CreateTenant` are the two statements of the creation of a
customer, `CheckWorkspace` and `CreateWorkspace` those of
`get_or_create_adhoc_workspace`, and the handlers of targets are split the same
way. `CodeFree`, `Distinct` and `Storable` are the constraints of the schema:
what a handler can rely on when it commits. `Merged` is what an edit writes: the
columns that were supplied and differ from those that the handler read.

### ScanPage

One action is one callback of the browser or one step of a request: `Submit` and
`Launched` for the server action, `Render` for the effect with its clean-up,
`Tick` for the interval, `Serve` for the console's route, `Answer` for the
continuation of a poll. Each poll in flight keeps the scan it asked about and
whether the effect that sent it is still the current one (`live`). `Faults` says
what else may happen: error answers, rejected fetches, answers out of order, the
timeout of the polling, reloads.

## Runs

| Run | Bounds | Question | States |
|---|---|---|---|
| `lifecycle_faults` | every fault; a scan each of 2 tenants, 2 workers, quota 1, up to 2 messages per dispatch | what holds whatever happens | 917 433 |
| `lifecycle_crashes` | faults api, broker, kill, visibility; 3 scans of one tenant, 2 workers, quota 1, 2 racing launches, one scan with refused targets | no answered launch is forgotten, how far the race for the quota goes, the refinement | 435 755 |
| `lifecycle_live` | faults api, send, broker, visibility; 2 scans of one tenant, one with refused targets, 2 workers, 2 racing launches, up to 2 messages per dispatch | every committed scan finishes unless its request left it without a message, the queue drains | 87 920 |
| `reports_serial` | 3 scans of one tenant, one at a time, 3 networks | do the summaries form a chain, and does the latest report agree with its task | 1 100 532 |
| `reports_racing` | 2 scans of a tenant at once, 1 of another, 2 networks | are summaries exact, baselines earlier and reports whole | 1 844 716 |
| `scan_pipeline` | 8 addresses, 2 deployments, 3 registrable ranges, lists of up to 3 of 8 texts, reports of up to 2 of 7 host elements | do policy, ceiling and a member's ranges hold at Nmap, does the worker decide what the API did, is the summary true | 141 072 |
| `login_throttle` | every fault; 2 addresses signed in with and 1 signed in from, 2 requests, limit 1, a window of 4 ticks, a half second of 2, counts to 2 | how many guesses get through, do counters clear | 417 798 |
| `accounts` | 3 keys (1 administrator to begin with), 3 addresses, 2 tenants, 2 requests, one removal of an administrator at a time, one password set, one tenant deleted | unique addresses, a true trail, members inside their tenant, an administrator remains | 584 456 |
| `directory` | 2 tenants, 3 targets, 2 slugs, 2 labels, 3 ranges (one forbidden), 2 requests, a page of one target | unique slugs, labels and ranges, edits that keep the rest, a true trail | 457 453 |
| `scan_page` | 2 scans, 2 polls in flight, every fault but overtaking | does the page end on the final state, does polling end | 53 487 |

The bounds are the smallest at which the cases happen: two workers and
redelivery let one scan be delivered, claimed and failed by two tasks at once;
a second tenant shows what a deletion must leave alone; three requests of one
tenant with quota one let two launches race for one slot while a third waits,
and an off-by-one in the quota show. Each scan is launched at most once, so
the number of scans bounds the behaviour; redelivery is bounded by the lease,
which `VisibilityTimeout` uses up. The only other bounds are `MaxCopies`
(messages one `send_task` leaves) and `MaxHandlers` (requests of a tenant
between check and insert), both in guards and named. For the reports, a host
that appears, changes, opens a port and goes quiet needs two hosts, two ports
and three networks, and a baseline can be wrong in an interesting way only
with a third scan; `clock` is bounded by the scans that finish.

Eight addresses hold a private block, a forbidden address, a block that contains
either and a block of the other version; the ceilings of the two deployments are
such that a list is cut in the middle, and one notable finding is shown so that
two are too many. Two sign-ins suffice for the check of one to fall between the
check and the count of the other; the limit and the count are small because a
scope at its limit, one past it and one that starts again are all there is to
see. A window of four ticks of a quarter of a second has every answer of TTL that
matters: 1 while the scope is held back, and 0 while its expiry is still running. Two account requests race in every pair; with three keys, two are free to
be an administrator, a member of either tenant, or both in turn. One tenant is deleted
and one stays, so that an account which goes without an event shows. A page of one
target, with three targets, makes the check for duplicates miss one. `MaxCount`,
`MaxRemovers`, `MaxResets`, `MaxFallen`, `PageLimit` (the code's own, 1000 there) and
`MaxPolls` are named bounds in guards. `scan_page` with three polls in flight
(196 589 states) holds as well.

`CHECK_DEADLOCK FALSE` stands in every configuration because each system may stop:
keys are used up, or nobody asks for anything any more.

Two runs expect a violation. Each checks one sentence of the documentation, a
comment or a test against the code, and the counterexample is the divergence:

| Run | The sentence | What the code does |
|---|---|---|
| `stuck_running` | "A scan must never be left stuck in RUNNING." (`test_scan_task.py:282`) | the redelivered message of a killed worker finds no PENDING row and skips |
| `last_admin` | "Two removals are refused outright: your own account, and the last active administrator." (`users.py:148`) | two administrators who remove each other are both counted before either goes |

`AdminRemains` is thus checked twice: it holds with one removal of an
administrator at a time (`accounts`, and as a theorem) and fails with two.

### Other divergences

These were found with the same models. Their properties are in the modules, under
"what the code does not keep" where there is one; adding the property to a
configuration with the faults named here reproduces the counterexample.

- `QuotaRespected` (`lifecycle_crashes.cfg`): two launches pass the count before
  either inserts, where `test_api_scans.py:174` says "One tenant cannot
  monopolise the shared worker pool." `QuotaOvershoot` proves how far it goes.
- `TerminalIsFinal` (fault send): the 503 path of `scans.py:305` writes FAILED over
  a row that a worker has completed, where `enums.py:27` says "True when no further
  transition is possible."
- `OnlyOwnerFails` (fault db): any exception of the first transaction fails the
  scan, owned or not, where `tasks/scanning.py:284` says "Marking it FAILED here
  would undo a legitimate result."
- `NeverPendingForever` (fault broker): `except (CeleryError, OSError)` at
  `scans.py:302` does not catch kombu's `OperationalError`, so with a broker that
  cannot be reached the 503 path is not taken. The request ends in a 500, and the
  committed row stays PENDING without a message and keeps its place in the quota,
  where the comment of that path (`scans.py:303`) says "The scan row exists but
  nothing will ever pick it up. Fail it now rather than leaving a job that is
  pending forever." `OrphansWaitForever` proves that such a row moves only when its
  tenant goes.
- `CompletedIsAudited` (fault api, or send with broker): the event has a
  transaction of its own after the dispatch, and none is written when the process
  dies before it, or when `send_task` raises an exception that is not caught over a
  message that did arrive; where `security-model.md:304` says "Events are written in the same
  transaction as the action they record".
- `RefusedUntilExpiry` (`login_throttle.cfg`, without any fault): `TTL` answers in
  seconds, rounded to the nearest, and `ratelimit.py:100` takes 0 for permission, so
  that in the last half second of a window an attempt is let through although the
  scope is at its limit; where `ratelimit.py:5` says "once a scope reaches the limit
  its attempts are refused until the window expires".
- `EventsRemove` (`accounts.cfg`): two removals that read a row before either
  deletes it, or a removal and the deletion of the tenant, both take effect, and the
  second commits a USER_DELETED event of a DELETE that matched nothing, where
  `security-model.md:304` says "Events are written in the same transaction as the
  action they record". `TrailMatchesAccounts` proves how many such events there can
  be.
- `ConsecutiveBaselines` with `MaxActive = 2`: the baseline is read before Nmap
  runs, and another scan of the tenant completes meanwhile, where `README.md:311`
  says "Every scan is compared against the tenant's last completed scan". With one
  scan at a time it holds, and is proved.
- `QuietIsNotGone` (`reports_serial.cfg`): hosts without an open port are neither
  stored nor compared, where `test_scan_diff.py:147` says "A host with every port
  closed still exists, and is reported that way."
- `EndsOnFinalState` with the fault overtake: an older answer that arrives between
  the final one and its render puts an active status back after the interval was
  cleared, and the page stays there, where `use-scan-progress.ts:36` says "Follow a
  scan until it reaches a terminal state."
- `ShownCompletedIsStored`: a late answer about the scan before shows a scan just
  launched as COMPLETED, and no poll corrects it.
- `FinishedIsListed`: the lists are refreshed by the poll that saw the end, but not
  when a render has cancelled the effect that sent it
  (`use-scan-progress.ts:89`).

Read from the source, without a property: the 503 path leaves `finished_at` NULL on
a FAILED row (`scans.py:305`), where `models/scan.py:72` says it is set in a
terminal state. The report of a first scan has a baseline as soon as a second has
completed (`repositories/scan.py:93` excludes only the scan itself), where
`schemas/scan.py:235` says it has none. A scan that completes between the read of
its status and the read of its findings is reported as RUNNING with findings
(`scans.py:453`), where `schemas/scan.py:251` says it has none. A port range that
only looks like one passes the API (`schemas/scan.py:64`) and is refused by the
worker's `_validate_port_range`, so the launch is answered and the scan is bound to
fail (`Reject`). `repository.py:57` orders the targets "so that a scan covers the
same ranges in the same order on every run", but the API always sends the targets,
from a query without an order, so that code is never reached. An error answer ends
the polling of a page while it still shows the scan as in flight.

## Fairness

`FairSpec` assumes what the scheduling of the code gives: a handler past its
insert runs on (weak fairness of its remaining steps), a task that has started
runs on (Nmap is bounded by its own timeout and the task by the soft time
limit, so both outcomes of a run are covered by the same weak fairness), and a
message that is deliverable again and again is delivered (strong fairness:
the queue is served in order, and a worker that is busy comes back to it). No
fairness is assumed of requests arriving, of deletion or of any fault.
`EveryScanFinishes` names the one exception that the launch has, `Orphaned`: an
API that dies between the insert and `send_task`, or a `send_task` that raises
what is not caught, leaves a PENDING row that nothing re-sends. `lifecycle_live`
leaves `"kill"`, `"limit"` and `"db"` out, because under each of them the code
loses scans that run, as `stuck_running` shows of the first. The code has no
reaper for either.

`LoginThrottle` assumes that time passes in Redis (weak fairness of `Tick`) and
that a request that was begun goes on (of `Handle`, its own steps; none of new
attempts). `CountersClear` needs both, and allows for the counter that lost its
EXPIRE.

`ScanPage` assumes that scans finish, which `EveryScanFinishes` shows of the
server it abstracts, that the browser renders and keeps its interval, and that
requests are answered: strong fairness of `Serve` and `Answer`, because a poll that
is lost is followed by another. Nothing is assumed of launches, reloads, errors,
the timeout or deletion.

## Proofs

Every theorem is for all values of the constants that satisfy the module's named
assumption, which only says what the constants are (sentinels outside the sets
they stand beside, positive bounds, finite sets where they are counted). A theorem
with an ASSUME of its own says so below. What is assumed of the content of a scan:
`MaxNotable` is at least one (it is 100 in the code), and a report is a sequence of
host elements.

**The lifecycle** (`ScanLifecycleProofs`), for any number of scans, tenants and
workers, any quota and any subset of the faults:

- `OwnershipInvariant`: `Spec => [](TypeOK /\ Ownership)`. `SingleOwner` is not
  inductive: that a row is not claimed twice needs to know that a claimed row
  is no longer PENDING, and that no second request inserts it again.
  `Ownership` says so, and adds that a task on its way to `Store` finds no
  findings yet. `TypeCorrect` and `OneOwner` follow from it.
- `FindingsNeverReplaced`: the action property, from the same invariant.
- `RowsAndFindings`, and from it `NothingOfDeletedTenants`: from an inductive
  invariant with `TypeOK` and `Ownership` as hypotheses.
- `QuotaOvershoot`: by counting. A request moves from the admitted to the
  active set, so only `Admit` changes the sum, and its two guards bound it.
- `LaunchedIsQueued`, for faults without db and limit: a task that has not claimed
  its scan has not outlived its delivery (`HeldByBroker`), so a worker that dies
  gives the message back.
- `RunningHasItsTask`, for faults without kill, db and limit.
- `LifecycleImplementsStatus`: for `Faults \subseteq TruthfulFaults` every step
  of the lifecycle is a step of `ScanStatus` or a stutter. It needs
  `TruthfulOwnership`, that a task fails only a scan it owns or that none can.
  The two excluded faults are exactly those of `TerminalIsFinal` and
  `OnlyOwnerFails`.
- `OrphansWaitForever`: a row whose request ended before a message was sent stays
  PENDING, under every fault, until its tenant is deleted. It is the exception in
  `EveryScanFinishes`, which is thus no wider than what is lost for good.
- What it takes to break the sentences under "Other divergences", as theorems whose
  ASSUME excludes just that: `QuotaHoldsOneAtATime` (`MaxHandlers = 1`),
  `TerminalStatesAreFinal` (no fault send, from `UntouchedUntilSent`: until
  a message was sent no worker has touched the row), `OthersDoNotFail` (no
  fault send or db; a worker that refuses a scan cannot fail a running one, because
  `RunningIsScannable`) and `CompletedScansAreAudited` (no fault api, and not send with broker, from
  `Audited`).

**Comparison and reports** (`ScanReportsProofs`):

- `DiffRestores` (the earlier snapshot with its difference gives the later one)
  and `DiffIsReal` (a difference is empty exactly when the snapshots are equal),
  for all hosts, ports and services, from the same facts about one host.
- `SummariesAreExact` and `BaselinesAreEarlier`, from the invariant `History`: a
  baseline outlives every scan compared with it, because only the deletion of
  their common tenant takes a completed scan away. The first also rests on
  `DiffRestores`.
- `ReportsAreWhole`, from `Reading`, what a request has read so far: completed
  scans do not change, so statements that see different moments agree. That
  the previous scan exists at all rests on `LastFinished`, that a set of
  finish times has a greatest, proved from the well-foundedness of the naturals.
- `SummariesFormAChain` and `LatestReportIsTheSummary`, for `MaxActive = 1` and
  finitely many scans. The invariant is `Chain` with `OneAtATime`: while a scan
  runs no other of its tenant completes, it takes its finish time after all of
  them, and nothing that completes later gets between. A report agrees because
  what finished before a completed scan was there when it completed
  (`BeforeStays`), so a request that reads the previous scan reads its baseline.
- `ReportsImplementStatus`: the scans of `ScanReports`, each its own worker, keep the
  contract `ScanStatus` that the lifecycle implements with its workers and
  messages, and only a completed scan has results (`OnlyCompleted`). That a task
  which commits still finds its row RUNNING is `History`.

**The pipeline** (`ScanPipelineProofs`), for all addresses, settings, ranges,
requests and reports:

- `NothingForbiddenIsScanned`, `MembersScanTheirRanges`, `RefusalsAreDeserved`. The
  invariants are `Obeys` (of what was accepted so far), `Inside` (what is left and
  what was accepted come from what was asked, and that from what was registered)
  and `Tried` (of what the loop has passed over while nothing was accepted).
- `WorkerDecidesTheSame`, the property `WorkerAgrees`. It needs `Counted`, that the
  running total is the sum of what was accepted, and `Agreed`, whose part `Halfway`
  says where the worker is: it has accepted a prefix of the message and has the
  rest to do. That the next target fits again rests on the sums of prefixes being
  monotonic (`PrefixSums`).
- `NmapIsGivenThePermitted`: the same ceiling, counted on the targets of the command
  and not on the loop's own total, and the denylist and the private ranges of each
  of them, whether or not the settings changed since the launch.
- `SummariesAreTrue`, the property `SummaryIsTrue`, and `FindingsAreReported`, from
  the invariant `Stored` (findings come from one report, and no host twice) and the
  theorems of `AssessmentProofs`.

**Assessment** (`AssessmentProofs`), about the operators alone, so for every report
and not only those a scan can meet:

- `ReportIsKept`: a port is stored of a host exactly when an element of an answering
  host with that address has it open and reportable; no filter or sort loses or
  invents one.
- `AssessmentIsExact`: counts per severity, the highest, and the notable findings:
  sorted, not more than are shown, and nothing left out is worse than what is shown.
- `VerdictsAreUnambiguous`: the tables of `core/risk.py` give no port two severities,
  and the order of the keywords decides, not the order in which a set is searched.

They rest on facts about sequences: `SubsequenceKeeps` (a filter keeps exactly the
elements that pass), `SortingExists` (every finite sequence has an order in which
nothing comes after what it is before) and `CountingIsExact` (the loop of
`_assess_results` counts what it has passed). The prover treats `SelectSeq` and
`SortSeq` as unknown, so `Assessment` defines `Kept` and `InOrder` by what they
promise: `list.sort` puts nothing after what it is before, and of equal keys the
model says nothing. What a fold computes is proved without the library's induction
theorems: `NatSetInduction` is induction for a set of numbers, from a minimal
counterexample, and the set is the prefixes for which the claim holds.

**The throttle** (`LoginThrottleProofs`), under every fault and for any limit,
window and number of requests:

- `GuessesWithinLimit`: the count of a scope and the requests that may still add
  to it. `Verify` and `Increment` move a request without changing the sum, and
  only `Check` adds to it, below the limit or in the last half second of the
  window, when it marks the scope as waived. `RoundsUp` is what the rounding of
  `TTL` comes to: an expiry that is half a second away or more answers at least 1.
- `EveryCounterIsTimed`: a counter without an expiry has a request on its way to
  set it, or has lost that request.

**Accounts and directory** (`AccountsProofs`, `DirectoryProofs`), for any number of
requests that interleave:

- `AddressesAreUnique`, `SlugsAreUnique`, `TargetsAreDistinct`: the handlers'
  own lookups play no part; the constraint at the commit does.
- `MembersGoWithTheirTenant`, `TargetsGoWithTheirTenant`: also of rows whose insert
  raced the deletion. `RegisteredIsPermitted`: no forbidden range is registered.
- `TrailMatchesAccounts`: every account the API made, of a member or of an
  administrator, has its event and no other has one; an account is gone with an
  event of its removal or with its own tenant. The events of one removal are bounded
  by counting: `Bounded` adds those written to the handlers that have found the
  account and not yet committed (`Removing`), of which there are never more once it
  is gone (`GoneIsNotFound`).
- `TrailMatchesTenants`: events and rows of tenants tell one story.
- `MembersStayInside`, `EditsKeepTheRest`, `HandlersKeepToTheirTenant`: the action
  properties. Their invariants (`AllSound`, one conjunct per request) say what
  remains true of the rows that a request has read until it writes: an account
  stays in its tenant until it is gone, and keys are never used again.
- `LastAdminStays`, for `MaxRemovers = 1` and an administrator to begin with: from
  `OneRemover` and `OtherRemains`, that while one removal is past its count there
  is an administrator besides its subject. With two it is false (`last_admin`).

**The page** (`ScanPageProofs`), for any number of scans and polls in flight, under
every fault unless it says otherwise:

- `PageTypeCorrect`, from `Sound`: rows that the page names exist, and rows and
  findings agree. `RowsMove` is all it takes from `ScanStatus`.
- `PageShowsThePast`, from `Past`: every answer on its way was once true of the scan
  it is about, and rows only move forwards. A page can be late and, with
  `ShownCompletedIsStored` above, attribute an answer to the wrong scan; it cannot
  show what never was.
- `FinishedPagesAreQuiet`, from `LiveIsCurrent`: a poll that may still act is one
  of the scan that is rendered, and that scan is rendered as unfinished.
- `IntervalsStopForAReason`, an action property: an interval that stops has an
  error, the timeout, a render, or the end of the very scan it asks about behind it.
- `UnfinishedPagesKeepAsking`, assuming that answers do not overtake each other
  (`"overtake" \notin Faults`): a page that has rendered a scan as unfinished has its
  interval running or has given up. Its invariant is the hardest of the page:
  `QueueInOrder` (of two polls of one scan the later has the later answer) and
  `EndIsKnown` (when the interval has stopped between two renders, the end is shown
  and no answer on its way contradicts it). It is the part of `EndsOnFinalState`
  that is not about time; with overtaking it is false, as that property is.

Only model-checked are the liveness properties: `EveryScanFinishes`, `QueueDrains`,
`CountersClear`, `EndsOnFinalState` and `PollingEnds`. They need fairness and
ENABLED, which are out of the prover's reach. Every safety property of every passing
run is stated by a theorem. Conversely, the formulas that are stated beside a
theorem and in no run were checked with TLC on the instances of the module's run
before they were proved, with the faults that the theorem excludes left out.

## Plan

The core and what the inventory lists around it are built. What would come next:

1. The paging of the history and of the audit trail against rows that come and go
   between two pages.
2. Refresh and expiry of tokens in the console's middleware, composed with
   `Accounts`: a session of an account that was removed.
3. The values of passwords, to say which of two concurrent writers wins, once a
   document says which should.
4. Workers on hosts with different clocks, for the order of finish times.

## Not modelled

- Password hashing and token signing (cryptography). A token only names an account.
  The rehash at sign-in (`auth.py`) writes the hash of a password that was verified
  before and may so undo a reset that was committed meanwhile: without the values
  of passwords the model cannot tell.
- The endpoint that renames a tenant, descriptions, display names: no property
  depends on them.
- The paging of lists and the export: reads that change nothing.
- The forms and other pages of the console, its session cookie and middleware.
- Health probes and system tasks (`workers/tasks/system.py`), logging, middleware,
  migrations and the container set-up: they keep no state that the properties
  above depend on. The limits of the configuration are constants of the modules.
