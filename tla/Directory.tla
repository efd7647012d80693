------------------------------ MODULE Directory ------------------------------
(***************************************************************************)
(* The directory of the platform: tenants, the operators' ad-hoc           *)
(* workspaces, and the ranges each tenant registers.  A handler reads, then *)
(* writes and commits; the constraints of the schema are what it can rely   *)
(* on in between.  Display names and descriptions are left out, with the    *)
(* endpoint that only changes a tenant's name.                             *)
(***************************************************************************)
EXTENDS Naturals, FiniteSets

CONSTANTS
  Tenants,         \* primary keys of tenants, never used twice
  Targets,         \* primary keys of targets, never used twice
  CodeNames,       \* slugs
  WorkspaceCodes,  \* "adhoc-" followed by the key of an operator, one for each
  Labels,          \* numbers, in the order of the labels
  Ranges,          \* canonical blocks
  Forbidden,       \* blocks that assert_target_is_permitted refuses
  None,            \* NULL, and a field a PATCH omits
  Requests,        \* handlers at work at once
  PageLimit        \* the page of targets that the check for duplicates reads

ASSUME DirectoryAssumption ==
  /\ WorkspaceCodes \subseteq CodeNames
  /\ Labels \subseteq Nat
  /\ PageLimit \in Nat
  /\ None \notin Tenants /\ None \notin Targets /\ None \notin CodeNames
  /\ None \notin Labels /\ None \notin Ranges

VARIABLES
  known,     \* tenants ever inserted
  code,      \* [Tenants -> CodeNames \cup {None}], code_name of those that exist
  system,    \* tenants inserted with is_system true
  used,      \* targets ever inserted
  owner,     \* [Targets -> Tenants \cup {None}], tenant_id of those that exist
  cell,      \* [Targets -> Columns], their label and ip_address_or_cidr
  created,   \* tenants with a TENANT_CREATED event
  deleted,   \* tenants with a TENANT_DELETED event
  request    \* [Requests -> Request]

tenantVars == <<known, code, system, created, deleted>>
targetVars == <<used, owner, cell>>
vars == <<tenantVars, targetVars, request>>

Columns == [label : Labels \cup {None}, range : Ranges \cup {None}]
Nothing == [label |-> None, range |-> None]

Ops    == {"create_tenant", "workspace", "delete_tenant",
           "create_target", "update_target", "delete_target"}
Phases == {"idle", "read", "write"}

\* columns is the payload and seen the row that was read.
Request == [op : Ops, phase : Phases, tenant : Tenants \cup {None}, code : CodeNames \cup {None},
            target : Targets \cup {None}, columns : Columns, seen : Columns]

Idle == [op |-> "workspace", phase |-> "idle", tenant |-> None, code |-> None,
         target |-> None, columns |-> Nothing, seen |-> Nothing]

Exists(t)  == code[t] # None
Present(x) == owner[x] # None
Owned(t)   == {x \in Targets : owner[x] = t}

TypeOK ==
  /\ known \subseteq Tenants /\ system \subseteq known
  /\ code \in [Tenants -> CodeNames \cup {None}]
  /\ used \subseteq Targets
  /\ owner \in [Targets -> Tenants \cup {None}]
  /\ cell \in [Targets -> Columns]
  /\ created \subseteq Tenants /\ deleted \subseteq Tenants
  /\ request \in [Requests -> Request]
  /\ \A t \in Tenants : Exists(t) => t \in known
  /\ \A x \in Targets : Present(x) => x \in used /\ cell[x].label # None /\ cell[x].range # None

Init ==
  /\ known = {} /\ system = {} /\ created = {} /\ deleted = {}
  /\ code = [t \in Tenants |-> None]
  /\ used = {}
  /\ owner = [x \in Targets |-> None]
  /\ cell = [x \in Targets |-> Nothing]
  /\ request = [q \in Requests |-> Idle]

Begin(q, r) == request[q].phase = "idle" /\ request' = [request EXCEPT ![q] = r]
Become(q, r) == request' = [request EXCEPT ![q] = r]
End(q)      == request' = [request EXCEPT ![q] = Idle]
At(q, op, phase) == request[q].op = op /\ request[q].phase = phase

(***************************************************************************)
(* Tenants and workspaces                                                  *)
(***************************************************************************)
Named(c) == {t \in Tenants : code[t] = c}

TenantRequest(op, t, c) ==
  [op |-> op, phase |-> "write", tenant |-> t, code |-> c,
   target |-> None, columns |-> Nothing, seen |-> Nothing]

\* The slug is looked up before the insert: 409 when it is taken.  Any slug
\* will do, one of a workspace included.
CheckCode(q, c) ==
  /\ Named(c) = {}
  /\ Begin(q, TenantRequest("create_tenant", None, c))
  /\ UNCHANGED <<tenantVars, targetVars>>

\* get_or_create_adhoc_workspace returns what it finds by the slug, so only a
\* lookup that finds nothing goes on.
CheckWorkspace(q, c) ==
  /\ Named(c) = {}
  /\ Begin(q, TenantRequest("workspace", None, c))
  /\ UNCHANGED <<tenantVars, targetVars>>

\* Mutant of CodeFree: code_name is not unique.
CodeFreeAlways(c) == TRUE

\* The unique constraint on code_name.
CodeFree(c) == Named(c) = {}

\* A customer is inserted with its event.  An error of the database leaves
\* neither.
CreateTenant(q) ==
  /\ At(q, "create_tenant", "write")
  /\ IF CodeFree(request[q].code)
     THEN \E t \in Tenants \ known :
            /\ known' = known \cup {t}
            /\ code' = [code EXCEPT ![t] = request[q].code]
            /\ created' = created \cup {t}
     ELSE UNCHANGED <<known, code, created>>
  /\ End(q)
  /\ UNCHANGED <<system, deleted, targetVars>>

\* A workspace has no event.
CreateWorkspace(q) ==
  /\ At(q, "workspace", "write")
  /\ IF CodeFree(request[q].code)
     THEN \E t \in Tenants \ known :
            /\ known' = known \cup {t}
            /\ code' = [code EXCEPT ![t] = request[q].code]
            /\ system' = system \cup {t}
     ELSE UNCHANGED <<known, code, system>>
  /\ End(q)
  /\ UNCHANGED <<created, deleted, targetVars>>

\* Mutant of FindTenant: the event is committed with the lookup.
FindTenantEarly(q, t) ==
  /\ Exists(t)
  /\ Begin(q, TenantRequest("delete_tenant", t, None))
  /\ deleted' = deleted \cup {t}
  /\ UNCHANGED <<known, code, system, created, targetVars>>

\* delete_tenant_endpoint reads the row; workspaces may be deleted as well.
FindTenant(q, t) ==
  /\ Exists(t)
  /\ Begin(q, TenantRequest("delete_tenant", t, None))
  /\ UNCHANGED <<tenantVars, targetVars>>

\* The row with, by cascade, its targets, and the event.  A row that is gone
\* already makes the session warn, and the event is written all the same.
DeleteTenant(q) ==
  /\ At(q, "delete_tenant", "write")
  /\ LET t == request[q].tenant
     IN  /\ code' = [code EXCEPT ![t] = None]
         /\ owner' = [x \in Targets |-> IF owner[x] = t THEN None ELSE owner[x]]
         /\ cell' = [x \in Targets |-> IF owner[x] = t THEN Nothing ELSE cell[x]]
         /\ deleted' = deleted \cup {t}
  /\ End(q)
  /\ UNCHANGED <<known, system, created, used>>

(***************************************************************************)
(* Targets                                                                 *)
(***************************************************************************)
\* _reject_forbidden_range, of the range a payload has, if any.
Permitted(v) == v \notin Forbidden

TargetRequest(op, phase, t, x, columns, seen) ==
  [op |-> op, phase |-> phase, tenant |-> t, code |-> None,
   target |-> x, columns |-> columns, seen |-> seen]

\* What a caller may send: a new range has both fields, an edit any of them.
CreatePayloads == [label : Labels, range : Ranges]
UpdatePayloads == Columns

\* create_target_endpoint: the tenant of the scope exists and policy permits
\* the range.
BeginCreate(q, t, columns) ==
  /\ Exists(t)
  /\ Permitted(columns.range)
  /\ Begin(q, TargetRequest("create_target", "read", t, None, columns, Nothing))
  /\ UNCHANGED <<tenantVars, targetVars>>

\* The first page of the tenant's targets, by label.
Page(t) ==
  {x \in Owned(t) :
     Cardinality({y \in Owned(t) : cell[y].label < cell[x].label}) < PageLimit}

\* 409 for a label or a range that the page has.
CheckDuplicates(q) ==
  /\ At(q, "create_target", "read")
  /\ LET new == request[q].columns
     IN  IF \E x \in Page(request[q].tenant) :
              cell[x].label = new.label \/ cell[x].range = new.range
         THEN End(q)
         ELSE Become(q, TargetRequest("create_target", "write", request[q].tenant, None,
                                      new, Nothing))
  /\ UNCHANGED <<tenantVars, targetVars>>

\* Mutant of Distinct: only the label is constrained.
DistinctLabels(x, t, columns) == \A y \in Owned(t) : y # x => cell[y].label # columns.label

\* The unique constraints of a target's label and range within its tenant.
Distinct(x, t, columns) ==
  \A y \in Owned(t) : y # x => cell[y].label # columns.label /\ cell[y].range # columns.range

\* The reference to the tenant.
Storable(t) == Exists(t)

CreateTarget(q) ==
  /\ At(q, "create_target", "write")
  /\ LET t == request[q].tenant
     IN  \E x \in Targets \ used :
           IF Storable(t) /\ Distinct(x, t, request[q].columns)
           THEN /\ used' = used \cup {x}
                /\ owner' = [owner EXCEPT ![x] = t]
                /\ cell' = [cell EXCEPT ![x] = request[q].columns]
           ELSE UNCHANGED targetVars
  /\ End(q)
  /\ UNCHANGED tenantVars

\* Mutant of Find: the lookup of a target is not scoped to the tenant.
FindAnywhere(t, x) == Present(x)

\* get_target, within the tenant of the scope.
Find(t, x) == Present(x) /\ owner[x] = t

\* update_target_endpoint reads the row, then asks policy about the new range.
ReadForUpdate(q, t, x, columns) ==
  /\ Exists(t) /\ Find(t, x)
  /\ Permitted(columns.range)
  /\ Begin(q, TargetRequest("update_target", "write", t, x, columns, cell[x]))
  /\ UNCHANGED <<tenantVars, targetVars>>

\* Mutant of Merged: the whole row is written, as it was read.
MergedWhole(now, seen, new) ==
  [label |-> IF new.label = None THEN seen.label ELSE new.label,
   range |-> IF new.range = None THEN seen.range ELSE new.range]

\* Mutant of Merged: an omitted field is written as NULL.
MergedBlank(now, seen, new) == new

\* The UPDATE has the columns that were supplied and differ from those read.
Merged(now, seen, new) ==
  [label |-> IF new.label \in {None, seen.label} THEN now.label ELSE new.label,
   range |-> IF new.range \in {None, seen.range} THEN now.range ELSE new.range]

\* The UPDATE matches no row that is gone, and respects the constraints; 500
\* otherwise.
UpdateTarget(q) ==
  /\ At(q, "update_target", "write")
  /\ LET x   == request[q].target
         new == Merged(cell[x], request[q].seen, request[q].columns)
     IN  cell' = IF Present(x) /\ Distinct(x, owner[x], new)
                 THEN [cell EXCEPT ![x] = new] ELSE cell
  /\ End(q)
  /\ UNCHANGED <<tenantVars, used, owner>>

ReadForDelete(q, t, x) ==
  /\ Exists(t) /\ Find(t, x)
  /\ Begin(q, TargetRequest("delete_target", "write", t, x, Nothing, Nothing))
  /\ UNCHANGED <<tenantVars, targetVars>>

DeleteTarget(q) ==
  /\ At(q, "delete_target", "write")
  /\ owner' = [owner EXCEPT ![request[q].target] = None]
  /\ cell' = [cell EXCEPT ![request[q].target] = Nothing]
  /\ End(q)
  /\ UNCHANGED <<tenantVars, used>>

\* A request dies, or its commit fails: the transaction is rolled back.
Abort(q) ==
  /\ request[q].phase # "idle"
  /\ End(q)
  /\ UNCHANGED <<tenantVars, targetVars>>

Start(q) ==
  \/ \E c \in CodeNames : CheckCode(q, c)
  \/ \E c \in WorkspaceCodes : CheckWorkspace(q, c)
  \/ \E t \in Tenants : FindTenant(q, t)
  \/ \E t \in Tenants, columns \in CreatePayloads : BeginCreate(q, t, columns)
  \/ \E t \in Tenants, x \in Targets, columns \in UpdatePayloads : ReadForUpdate(q, t, x, columns)
  \/ \E t \in Tenants, x \in Targets : ReadForDelete(q, t, x)

Handle(q) ==
  \/ CreateTenant(q) \/ CreateWorkspace(q) \/ DeleteTenant(q)
  \/ CheckDuplicates(q) \/ CreateTarget(q) \/ UpdateTarget(q) \/ DeleteTarget(q)

Next == \E q \in Requests : Start(q) \/ Handle(q) \/ Abort(q)

Spec == Init /\ [][Next]_vars

(***************************************************************************)
(* Properties                                                              *)
(***************************************************************************)
\* A slug names one tenant, and so an operator has one workspace however many
\* of its scans ask for it at once.
CodesUnique ==
  \A t, u \in Tenants : Exists(t) /\ code[t] = code[u] => t = u

\* No label and no range appears twice in a tenant: a range registered twice
\* would be scanned twice.  The handlers' own check races with other handlers,
\* does not see past its page, and edits skip it.
TargetsDistinct ==
  \A x, y \in Targets :
    /\ Present(x) /\ owner[x] = owner[y]
    /\ cell[x].label = cell[y].label \/ cell[x].range = cell[y].range
    => x = y

\* A tenant's ranges go with it, those included that were being registered
\* when it was deleted.
TargetsHaveTenant == \A x \in Targets : Present(x) => Exists(owner[x])

\* No registered range is one that policy refuses, whichever endpoint put it
\* there.
RangesPermitted == \A x \in Targets : Present(x) => cell[x].range \notin Forbidden

\* The trail of tenants is true: a customer has its creation event, a
\* workspace has none, and a tenant is gone exactly when an event says so.
TrailIsTrue ==
  /\ created = known \ system
  /\ \A t \in known : ~Exists(t) <=> t \in deleted

\* "Update the fields supplied; anything omitted is left unchanged": as it is
\* at the commit, not as it was when the handler read it.
OmittedUnchanged ==
  [][\A q \in Requests : \A x \in Targets :
       At(q, "update_target", "write") /\ request'[q] # request[q] =>
         /\ request[q].columns.label = None => cell'[x].label = cell[x].label
         /\ request[q].columns.range = None => cell'[x].range = cell[x].range]_vars

\* A request scoped to a tenant changes rows of that tenant only.
KeepsToTenant ==
  [][\A q \in Requests : \A x \in Targets :
       request'[q] # request[q] /\ (owner'[x] # owner[x] \/ cell'[x] # cell[x])
         => request[q].tenant \in {owner[x], owner'[x]}]_vars
=============================================================================
