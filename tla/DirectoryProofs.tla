--------------------------- MODULE DirectoryProofs ---------------------------
(***************************************************************************)
(* What holds of Directory for every number of tenants, targets, slugs and   *)
(* handlers at work: its types, unique slugs, distinct and permitted ranges   *)
(* that go with their tenant, a true trail, edits that keep what they omit,  *)
(* and handlers that keep to their tenant.                                  *)
(***************************************************************************)
EXTENDS Directory, TLAPS

(***************************************************************************)
(* Requests                                                                *)
(***************************************************************************)
LEMMA NothingIsColumns == Nothing \in Columns /\ Nothing.label = None /\ Nothing.range = None
  BY DEF Nothing, Columns

LEMMA IdleIsARequest == Idle \in Request /\ Idle.phase = "idle"
  BY NothingIsColumns DEF Idle, Request, Ops, Phases

LEMMA TenantRequestIsARequest ==
  ASSUME NEW op \in Ops, NEW t \in Tenants \cup {None}, NEW c \in CodeNames \cup {None}
  PROVE  TenantRequest(op, t, c) \in Request
  BY NothingIsColumns DEF TenantRequest, Request, Phases

LEMMA TargetRequestIsARequest ==
  ASSUME NEW op \in Ops, NEW phase \in Phases, NEW t \in Tenants \cup {None},
         NEW x \in Targets \cup {None}, NEW columns \in Columns, NEW seen \in Columns
  PROVE  TargetRequest(op, phase, t, x, columns, seen) \in Request
  BY DEF TargetRequest, Request

LEMMA RequestFields ==
  ASSUME TypeOK, NEW q \in Requests
  PROVE  /\ request[q] \in Request
         /\ request[q].tenant \in Tenants \cup {None}
         /\ request[q].target \in Targets \cup {None}
         /\ request[q].code \in CodeNames \cup {None}
         /\ request[q].columns \in Columns
         /\ request[q].seen \in Columns
<1>1. request[q] \in Request
  BY DEF TypeOK
<1>2. QED
  BY <1>1 DEF Request

\* Only q's request changes, and it becomes r.
Turns(q, r) ==
  /\ request' \in [Requests -> Request]
  /\ request'[q] = r
  /\ \A p \in Requests : p # q => request'[p] = request[p]

LEMMA BecomeTurns ==
  ASSUME TypeOK, NEW q \in Requests, NEW r \in Request, Become(q, r) \/ Begin(q, r)
  PROVE  Turns(q, r)
  BY DEF TypeOK, Become, Begin, Turns

LEMMA EndTurns ==
  ASSUME TypeOK, NEW q \in Requests, End(q)
  PROVE  Turns(q, Idle)
  BY IdleIsARequest DEF TypeOK, End, Turns

\* What a request may rely on at its next statement, whatever the others did
\* since its last one.
Sound(r) ==
  /\ r.phase # "idle" /\ r.op \in {"create_tenant", "workspace"} => r.code \in CodeNames
  /\ r.phase # "idle" /\ r.op = "delete_tenant" => r.tenant \in known
  /\ r.phase # "idle" /\ r.op = "create_target" =>
       /\ r.tenant \in Tenants
       /\ r.columns.label \in Labels
       /\ r.columns.range \in Ranges \ Forbidden
  /\ r.phase # "idle" /\ r.op \in {"update_target", "delete_target"} =>
       /\ r.tenant \in Tenants
       /\ r.target \in used
       /\ owner[r.target] \in {r.tenant, None}
  /\ r.phase # "idle" /\ r.op = "update_target" => r.columns.range \notin Forbidden

AllSound == \A q \in Requests : Sound(request[q])

\* A target that is gone leaves no columns behind.
Cleared == \A x \in Targets : ~Present(x) => cell[x] = Nothing

Inv == TypeOK /\ AllSound /\ Cleared

(***************************************************************************)
(* The kinds of steps                                                      *)
(***************************************************************************)
Quiet(q) ==
  /\ UNCHANGED <<tenantVars, targetVars>>
  /\ request' \in [Requests -> Request]
  /\ \A p \in Requests : p # q => request'[p] = request[p]
  /\ Sound(request[q])'

Founds(q) ==
  /\ UNCHANGED <<deleted, targetVars>>
  /\ Turns(q, Idle)
  /\ \E t \in Tenants \ known :
       /\ known' = known \cup {t}
       /\ \E c \in CodeNames :
            /\ Named(c) = {}
            /\ code' \in [Tenants -> CodeNames \cup {None}] /\ code'[t] = c
            /\ \A u \in Tenants : u # t => code'[u] = code[u]
       /\ \/ created' = created \cup {t} /\ UNCHANGED system
          \/ system' = system \cup {t} /\ UNCHANGED created

Closes(q) ==
  /\ UNCHANGED <<known, system, created, used>>
  /\ Turns(q, Idle)
  /\ \E t \in known :
       /\ t = request[q].tenant
       /\ code' \in [Tenants -> CodeNames \cup {None}] /\ code'[t] = None
       /\ \A u \in Tenants : u # t => code'[u] = code[u]
       /\ owner' \in [Targets -> Tenants \cup {None}]
       /\ cell' \in [Targets -> Columns]
       /\ \A x \in Targets : owner[x] = t => owner'[x] = None /\ cell'[x] = Nothing
       /\ \A x \in Targets : owner[x] # t => owner'[x] = owner[x] /\ cell'[x] = cell[x]
       /\ deleted' = deleted \cup {t}

\* The row of target x becomes one of tenant t, or of none, with these columns.
Writes(x, t, columns) ==
  /\ owner' \in [Targets -> Tenants \cup {None}] /\ owner'[x] = t
  /\ cell' \in [Targets -> Columns] /\ cell'[x] = columns
  /\ \A y \in Targets : y # x => owner'[y] = owner[y] /\ cell'[y] = cell[y]

Registers(q) ==
  /\ UNCHANGED tenantVars
  /\ Turns(q, Idle)
  /\ \E x \in Targets \ used :
       /\ used' = used \cup {x}
       /\ request[q].tenant \in Tenants /\ Exists(request[q].tenant)
       /\ Distinct(x, request[q].tenant, request[q].columns)
       /\ request[q].columns.label # None /\ request[q].columns.range # None
       /\ request[q].columns.range \notin Forbidden
       /\ request[q].op = "create_target"
       /\ Writes(x, request[q].tenant, request[q].columns)

Edits(q) ==
  /\ UNCHANGED <<tenantVars, used>>
  /\ Turns(q, Idle)
  /\ \E x \in Targets : \E new \in Columns :
       /\ Present(x) /\ owner[x] = request[q].tenant
       /\ Distinct(x, owner[x], new)
       /\ new.label \in {cell[x].label, request[q].columns.label}
       /\ new.range \in {cell[x].range, request[q].columns.range}
       /\ request[q].columns.label = None => new.label = cell[x].label
       /\ request[q].columns.range = None => new.range = cell[x].range
       /\ new.label # None /\ new.range # None
       /\ request[q].columns.range \notin Forbidden
       /\ Writes(x, owner[x], new)

Removes(q) ==
  /\ UNCHANGED <<tenantVars, used>>
  /\ Turns(q, Idle)
  /\ request[q].op = "delete_target"
  /\ \E x \in Targets :
       /\ owner[x] \in {request[q].tenant, None}
       /\ Writes(x, None, Nothing)

LEMMA IdleIsSound ==
  ASSUME NEW q \in Requests, request'[q] = Idle
  PROVE  Sound(request[q])'
<1>1. request'[q].phase = "idle"
  BY IdleIsARequest
<1>2. QED
  BY <1>1 DEF Sound

LEMMA EndIsQuiet ==
  ASSUME TypeOK, NEW q \in Requests, End(q), UNCHANGED <<tenantVars, targetVars>>
  PROVE  Quiet(q)
  BY EndTurns, IdleIsSound DEF Turns, Quiet

LEMMA StartIsQuiet ==
  ASSUME TypeOK, NEW q \in Requests, Start(q)
  PROVE  Quiet(q)
<1>0. "write" \in Phases /\ "read" \in Phases
  BY DEF Phases
<1>1. ASSUME NEW c \in CodeNames, CheckCode(q, c) \/ CheckWorkspace(q, c)
      PROVE  Quiet(q)
  <2>1. PICK op \in {"create_tenant", "workspace"} :
          Begin(q, TenantRequest(op, None, c)) /\ UNCHANGED <<tenantVars, targetVars>>
    BY <1>1 DEF CheckCode, CheckWorkspace
  <2>2. Turns(q, TenantRequest(op, None, c))
    BY <2>1, TenantRequestIsARequest, BecomeTurns DEF Ops
  <2>3. request'[q].op = op /\ request'[q].code = c
    BY <2>2 DEF Turns, TenantRequest
  <2>4. Sound(request[q])'
    BY <2>3 DEF Sound
  <2>5. QED
    BY <2>1, <2>2, <2>4 DEF Turns, Quiet
<1>2. ASSUME NEW t \in Tenants, FindTenant(q, t)
      PROVE  Quiet(q)
  <2>1. /\ Begin(q, TenantRequest("delete_tenant", t, None)) /\ t \in known
        /\ UNCHANGED <<tenantVars, targetVars>>
    BY <1>2 DEF FindTenant, TypeOK
  <2>2. Turns(q, TenantRequest("delete_tenant", t, None))
    BY <2>1, TenantRequestIsARequest, BecomeTurns DEF Ops
  <2>3. request'[q].op = "delete_tenant" /\ request'[q].tenant = t
    BY <2>2 DEF Turns, TenantRequest
  <2>4. known' = known
    BY <2>1 DEF tenantVars
  <2>5. Sound(request[q])'
    BY <2>1, <2>3, <2>4 DEF Sound
  <2>6. QED
    BY <2>1, <2>2, <2>5 DEF Turns, Quiet
<1>3. ASSUME NEW t \in Tenants, NEW columns \in CreatePayloads, BeginCreate(q, t, columns)
      PROVE  Quiet(q)
  <2>1. /\ Begin(q, TargetRequest("create_target", "read", t, None, columns, Nothing))
        /\ columns.range \notin Forbidden
        /\ UNCHANGED <<tenantVars, targetVars>>
    BY <1>3 DEF BeginCreate, Permitted
  <2>2. columns \in Columns /\ columns.label \in Labels /\ columns.range \in Ranges
    BY DEF CreatePayloads, Columns
  <2>3. TargetRequest("create_target", "read", t, None, columns, Nothing) \in Request
    BY <1>0, <2>2, NothingIsColumns, TargetRequestIsARequest DEF Ops
  <2>4. Turns(q, TargetRequest("create_target", "read", t, None, columns, Nothing))
    BY <2>1, <2>3, BecomeTurns
  <2>5. request'[q].op = "create_target" /\ request'[q].tenant = t /\ request'[q].columns = columns
    BY <2>4 DEF Turns, TargetRequest
  <2>6. Sound(request[q])'
    BY <2>1, <2>2, <2>5 DEF Sound
  <2>7. QED
    BY <2>1, <2>4, <2>6 DEF Turns, Quiet
<1>4. ASSUME NEW t \in Tenants, NEW x \in Targets, Find(t, x),
             NEW op \in {"update_target", "delete_target"},
             NEW columns \in Columns, columns.range \notin Forbidden \/ op = "delete_target",
             NEW seen \in Columns,
             Begin(q, TargetRequest(op, "write", t, x, columns, seen)),
             UNCHANGED <<tenantVars, targetVars>>
      PROVE  Quiet(q)
  <2>1. TargetRequest(op, "write", t, x, columns, seen) \in Request
    BY <1>0, TargetRequestIsARequest DEF Ops
  <2>2. Turns(q, TargetRequest(op, "write", t, x, columns, seen))
    BY <1>4, <2>1, BecomeTurns
  <2>3. /\ request'[q].op = op /\ request'[q].tenant = t /\ request'[q].target = x
        /\ request'[q].columns = columns
    BY <2>2 DEF Turns, TargetRequest
  <2>4. x \in used' /\ owner'[x] = t
    BY <1>4 DEF Find, TypeOK, targetVars
  <2>5. Sound(request[q])'
    BY <1>4, <2>3, <2>4 DEF Sound
  <2>6. QED
    BY <1>4, <2>2, <2>5 DEF Turns, Quiet
<1>5. ASSUME NEW t \in Tenants, NEW x \in Targets, NEW columns \in UpdatePayloads,
             ReadForUpdate(q, t, x, columns)
      PROVE  Quiet(q)
  <2>1. cell[x] \in Columns /\ columns \in Columns
    BY DEF TypeOK, UpdatePayloads
  <2>2. QED
    BY <1>4, <1>5, <2>1 DEF ReadForUpdate, Permitted
<1>6. ASSUME NEW t \in Tenants, NEW x \in Targets, ReadForDelete(q, t, x)
      PROVE  Quiet(q)
  BY <1>4, <1>6, NothingIsColumns DEF ReadForDelete
<1>7. WorkspaceCodes \subseteq CodeNames
  BY DirectoryAssumption
<1>8. QED
  BY <1>1, <1>2, <1>3, <1>5, <1>6, <1>7 DEF Start
(***************************************************************************)
(* The statements that write                                               *)
(***************************************************************************)
LEMMA FoundingFounds ==
  ASSUME TypeOK, NEW q \in Requests, Sound(request[q]), CreateTenant(q) \/ CreateWorkspace(q)
  PROVE  Founds(q) \/ Quiet(q)
<1>1. /\ UNCHANGED <<deleted, targetVars>> /\ End(q)
      /\ request[q].code \in CodeNames
  BY DEF CreateTenant, CreateWorkspace, At, Sound
<1>2. Turns(q, Idle)
  BY <1>1, EndTurns
<1>3. CASE CodeFree(request[q].code)
  <2>1. PICK t \in Tenants \ known :
          /\ known' = known \cup {t}
          /\ code' = [code EXCEPT ![t] = request[q].code]
          /\ \/ created' = created \cup {t} /\ UNCHANGED system
             \/ system' = system \cup {t} /\ UNCHANGED created
    BY <1>3 DEF CreateTenant, CreateWorkspace
  <2>2. /\ code' \in [Tenants -> CodeNames \cup {None}] /\ code'[t] = request[q].code
        /\ \A u \in Tenants : u # t => code'[u] = code[u]
    BY <1>1, <2>1 DEF TypeOK
  <2>3. Named(request[q].code) = {}
    BY <1>3 DEF CodeFree
  <2>4. QED
    BY <1>1, <1>2, <2>1, <2>2, <2>3 DEF Founds
<1>4. CASE ~CodeFree(request[q].code)
  <2>1. UNCHANGED <<tenantVars, targetVars>>
    BY <1>1, <1>4 DEF CreateTenant, CreateWorkspace, tenantVars
  <2>2. QED
    BY <1>1, <2>1, EndIsQuiet
<1>5. QED
  BY <1>3, <1>4

LEMMA ClosingCloses ==
  ASSUME TypeOK, NEW q \in Requests, Sound(request[q]), DeleteTenant(q)
  PROVE  Closes(q)
<1> DEFINE t == request[q].tenant
<1>1. t \in known /\ t \in Tenants
  BY DEF DeleteTenant, At, Sound, TypeOK
<1>2. /\ code' = [code EXCEPT ![t] = None]
      /\ owner' = [x \in Targets |-> IF owner[x] = t THEN None ELSE owner[x]]
      /\ cell' = [x \in Targets |-> IF owner[x] = t THEN Nothing ELSE cell[x]]
      /\ deleted' = deleted \cup {t}
      /\ UNCHANGED <<known, system, created, used>>
  BY DEF DeleteTenant
<1>3. Turns(q, Idle)
  BY EndTurns DEF DeleteTenant
<1>4. /\ code' \in [Tenants -> CodeNames \cup {None}] /\ code'[t] = None
      /\ \A u \in Tenants : u # t => code'[u] = code[u]
  BY <1>1, <1>2 DEF TypeOK
<1>5. /\ owner' \in [Targets -> Tenants \cup {None}]
      /\ \A x \in Targets : owner'[x] = IF owner[x] = t THEN None ELSE owner[x]
  BY <1>2 DEF TypeOK
<1>6. /\ cell' \in [Targets -> Columns]
      /\ \A x \in Targets : cell'[x] = IF owner[x] = t THEN Nothing ELSE cell[x]
  BY <1>2, NothingIsColumns DEF TypeOK
<1>7. QED
  BY <1>1, <1>2, <1>3, <1>4, <1>5, <1>6 DEF Closes

LEMMA CheckIsQuiet ==
  ASSUME TypeOK, NEW q \in Requests, Sound(request[q]), CheckDuplicates(q)
  PROVE  Quiet(q)
<1> DEFINE r == TargetRequest("create_target", "write", request[q].tenant, None,
                              request[q].columns, Nothing)
<1>1. UNCHANGED <<tenantVars, targetVars>> /\ (End(q) \/ Become(q, r))
  BY DEF CheckDuplicates
<1>2. CASE End(q)
  BY <1>1, <1>2, EndIsQuiet
<1>3. CASE Become(q, r)
  <2>1. r \in Request
    BY RequestFields, NothingIsColumns, TargetRequestIsARequest DEF Ops, Phases
  <2>2. Turns(q, r)
    BY <1>3, <2>1, BecomeTurns
  <2>3. /\ request'[q].op = "create_target" /\ request'[q].tenant = request[q].tenant
        /\ request'[q].columns = request[q].columns
    BY <2>2 DEF Turns, TargetRequest
  <2>4. request[q].op = "create_target" /\ request[q].phase = "read"
    BY DEF CheckDuplicates, At
  <2>5. Sound(request[q])'
    BY <2>3, <2>4 DEF Sound
  <2>6. QED
    BY <1>1, <2>2, <2>5 DEF Turns, Quiet
<1>4. QED
  BY <1>1, <1>2, <1>3

LEMMA CreatingRegisters ==
  ASSUME TypeOK, NEW q \in Requests, Sound(request[q]), CreateTarget(q)
  PROVE  Registers(q) \/ Quiet(q)
<1> DEFINE t == request[q].tenant
           columns == request[q].columns
<1>1. request[q].op = "create_target" /\ request[q].phase = "write"
  BY DEF CreateTarget, At
<1>2. t \in Tenants /\ columns.label # None /\ columns.range # None /\ columns.range \notin Forbidden
  BY <1>1, DirectoryAssumption DEF Sound
<1>3. columns \in Columns
  BY RequestFields
<1>4. End(q) /\ Turns(q, Idle) /\ UNCHANGED tenantVars
  BY EndTurns DEF CreateTarget
<1>5. PICK x \in Targets \ used :
        IF Storable(t) /\ Distinct(x, t, columns)
        THEN /\ used' = used \cup {x}
             /\ owner' = [owner EXCEPT ![x] = t]
             /\ cell' = [cell EXCEPT ![x] = columns]
        ELSE UNCHANGED targetVars
  BY DEF CreateTarget
<1>6. CASE ~(Storable(t) /\ Distinct(x, t, columns))
  BY <1>4, <1>5, <1>6, EndIsQuiet
<1>7. CASE Storable(t) /\ Distinct(x, t, columns)
  <2>1. /\ owner' \in [Targets -> Tenants \cup {None}] /\ owner'[x] = t
        /\ \A y \in Targets : y # x => owner'[y] = owner[y]
    BY <1>2, <1>5, <1>7 DEF TypeOK
  <2>2. /\ cell' \in [Targets -> Columns] /\ cell'[x] = columns
        /\ \A y \in Targets : y # x => cell'[y] = cell[y]
    BY <1>3, <1>5, <1>7 DEF TypeOK
  <2>3. Writes(x, t, columns)
    BY <2>1, <2>2 DEF Writes
  <2>4. QED
    BY <1>1, <1>2, <1>4, <1>5, <1>7, <2>3 DEF Registers, Storable
<1>8. QED
  BY <1>6, <1>7

\* The columns of an edit are those supplied, or those of the row as it is.
LEMMA MergedKeeps ==
  ASSUME NEW now \in Columns, NEW seen \in Columns, NEW new \in Columns
  PROVE  /\ Merged(now, seen, new) \in Columns
         /\ Merged(now, seen, new).label \in {now.label, new.label}
         /\ Merged(now, seen, new).range \in {now.range, new.range}
         /\ new.label = None => Merged(now, seen, new).label = now.label
         /\ new.range = None => Merged(now, seen, new).range = now.range
         /\ now.label # None => Merged(now, seen, new).label # None
         /\ now.range # None => Merged(now, seen, new).range # None
<1> DEFINE m == Merged(now, seen, new)
<1>1. /\ now.label \in Labels \cup {None} /\ now.range \in Ranges \cup {None}
      /\ new.label \in Labels \cup {None} /\ new.range \in Ranges \cup {None}
  BY DEF Columns
<1>2. /\ m.label = IF new.label \in {None, seen.label} THEN now.label ELSE new.label
      /\ m.range = IF new.range \in {None, seen.range} THEN now.range ELSE new.range
  BY DEF Merged
<1>3. m \in Columns
  BY <1>1 DEF Merged, Columns
<1>4. QED
  BY <1>2, <1>3

LEMMA UpdatingEdits ==
  ASSUME TypeOK, NEW q \in Requests, Sound(request[q]), UpdateTarget(q)
  PROVE  Edits(q) \/ Quiet(q)
<1> DEFINE x   == request[q].target
           new == Merged(cell[x], request[q].seen, request[q].columns)
<1>1. request[q].op = "update_target" /\ request[q].phase = "write"
  BY DEF UpdateTarget, At
<1>2. /\ x \in Targets /\ owner[x] \in {request[q].tenant, None}
      /\ request[q].columns.range \notin Forbidden
  BY <1>1 DEF Sound, TypeOK
<1>3. cell[x] \in Columns /\ request[q].seen \in Columns /\ request[q].columns \in Columns
  BY <1>2, RequestFields DEF TypeOK
<1>4. End(q) /\ Turns(q, Idle) /\ UNCHANGED <<tenantVars, used, owner>>
  BY EndTurns DEF UpdateTarget
<1>5. cell' = IF Present(x) /\ Distinct(x, owner[x], new) THEN [cell EXCEPT ![x] = new] ELSE cell
  BY DEF UpdateTarget
<1>6. CASE ~(Present(x) /\ Distinct(x, owner[x], new))
  BY <1>4, <1>5, <1>6, EndIsQuiet DEF targetVars
<1>7. CASE Present(x) /\ Distinct(x, owner[x], new)
  <2>1. /\ new \in Columns
        /\ new.label \in {cell[x].label, request[q].columns.label}
        /\ new.range \in {cell[x].range, request[q].columns.range}
        /\ request[q].columns.label = None => new.label = cell[x].label
        /\ request[q].columns.range = None => new.range = cell[x].range
        /\ cell[x].label # None => new.label # None
        /\ cell[x].range # None => new.range # None
    BY <1>3, MergedKeeps
  <2> HIDE DEF new
  <2>2. Writes(x, owner[x], new)
    BY <1>2, <1>4, <1>5, <1>7, <2>1 DEF Writes, TypeOK
  <2>3. owner[x] = request[q].tenant /\ cell[x].label # None /\ cell[x].range # None
    BY <1>2, <1>7 DEF Present, TypeOK
  <2>4. QED
    BY <1>2, <1>4, <1>7, <2>1, <2>2, <2>3 DEF Edits
<1>8. QED
  BY <1>6, <1>7

LEMMA DeletingRemoves ==
  ASSUME TypeOK, NEW q \in Requests, Sound(request[q]), DeleteTarget(q)
  PROVE  Removes(q)
<1> DEFINE x == request[q].target
<1>1. request[q].op = "delete_target" /\ request[q].phase = "write"
  BY DEF DeleteTarget, At
<1>2. x \in Targets /\ owner[x] \in {request[q].tenant, None}
  BY <1>1 DEF Sound, TypeOK
<1>3. Turns(q, Idle) /\ UNCHANGED <<tenantVars, used>>
  BY EndTurns DEF DeleteTarget
<1>4. /\ owner' \in [Targets -> Tenants \cup {None}] /\ owner'[x] = None
      /\ \A y \in Targets : y # x => owner'[y] = owner[y]
  BY <1>2 DEF DeleteTarget, TypeOK
<1>5. /\ cell' \in [Targets -> Columns] /\ cell'[x] = Nothing
      /\ \A y \in Targets : y # x => cell'[y] = cell[y]
  BY <1>2, NothingIsColumns DEF DeleteTarget, TypeOK
<1>6. QED
  BY <1>1, <1>2, <1>3, <1>4, <1>5 DEF Removes, Writes

\* Every step is of one of these kinds.
LEMMA StepKinds ==
  ASSUME TypeOK, AllSound, [Next]_vars
  PROVE  \/ UNCHANGED vars
         \/ \E q \in Requests : \/ Quiet(q) \/ Founds(q) \/ Closes(q)
                                \/ Registers(q) \/ Edits(q) \/ Removes(q)
<1>1. ASSUME NEW q \in Requests, Start(q) \/ Handle(q) \/ Abort(q)
      PROVE  Quiet(q) \/ Founds(q) \/ Closes(q) \/ Registers(q) \/ Edits(q) \/ Removes(q)
  <2>1. Sound(request[q])
    BY DEF AllSound
  <2>2. CASE Start(q)
    BY <2>2, StartIsQuiet
  <2>3. CASE Abort(q)
    BY <2>3, EndIsQuiet DEF Abort
  <2>4. CASE CreateTenant(q) \/ CreateWorkspace(q)
    BY <2>1, <2>4, FoundingFounds
  <2>5. CASE DeleteTenant(q)
    BY <2>1, <2>5, ClosingCloses
  <2>6. CASE CheckDuplicates(q)
    BY <2>1, <2>6, CheckIsQuiet
  <2>7. CASE CreateTarget(q)
    BY <2>1, <2>7, CreatingRegisters
  <2>8. CASE UpdateTarget(q)
    BY <2>1, <2>8, UpdatingEdits
  <2>9. CASE DeleteTarget(q)
    BY <2>1, <2>9, DeletingRemoves
  <2>10. QED
    BY <1>1, <2>2, <2>3, <2>4, <2>5, <2>6, <2>7, <2>8, <2>9 DEF Handle
<1>2. QED
  BY <1>1 DEF Next
(***************************************************************************)
(* The inductive invariant                                                 *)
(***************************************************************************)
\* Keys are never used twice, and targets never change hands.
Evolves ==
  /\ known \subseteq known'
  /\ used \subseteq used'
  /\ \A x \in used : owner'[x] \in {owner[x], None}

LEMMA StepsEvolve ==
  ASSUME TypeOK, NEW q \in Requests,
         Quiet(q) \/ Founds(q) \/ Closes(q) \/ Registers(q) \/ Edits(q) \/ Removes(q)
  PROVE  Evolves
<1>0. used \subseteq Targets
  BY DEF TypeOK
<1>1. CASE Quiet(q)
  BY <1>1 DEF Quiet, tenantVars, targetVars, Evolves
<1>2. CASE Founds(q)
  BY <1>2 DEF Founds, targetVars, Evolves
<1>3. CASE Closes(q)
  BY <1>0, <1>3 DEF Closes, Evolves
<1>4. CASE Registers(q)
  BY <1>0, <1>4 DEF Registers, Writes, tenantVars, Evolves
<1>5. CASE Edits(q)
  BY <1>0, <1>5 DEF Edits, Writes, tenantVars, Evolves
<1>6. CASE Removes(q)
  BY <1>0, <1>6 DEF Removes, Writes, tenantVars, Evolves
<1>7. QED
  BY <1>1, <1>2, <1>3, <1>4, <1>5, <1>6

LEMMA SoundStays ==
  ASSUME Evolves, NEW p \in Requests, request'[p] = request[p], Sound(request[p])
  PROVE  Sound(request[p])'
<1>1. ASSUME NEW x \in used, NEW t, owner[x] \in {t, None}
      PROVE  x \in used' /\ owner'[x] \in {t, None}
  BY <1>1 DEF Evolves
<1>2. known \subseteq known'
  BY DEF Evolves
<1>3. QED
  BY <1>1, <1>2 DEF Sound

LEMMA AllSoundStep ==
  ASSUME TypeOK, AllSound, [Next]_vars
  PROVE  AllSound'
<1>1. CASE UNCHANGED vars
  BY <1>1 DEF vars, tenantVars, targetVars, AllSound, Sound
<1>2. ASSUME NEW q \in Requests,
             Quiet(q) \/ Founds(q) \/ Closes(q) \/ Registers(q) \/ Edits(q) \/ Removes(q)
      PROVE  AllSound'
  <2>1. Evolves
    BY <1>2, StepsEvolve
  <2>2. ASSUME NEW p \in Requests, p # q PROVE Sound(request[p])'
    <3>1. request'[p] = request[p]
      BY <1>2, <2>2 DEF Quiet, Founds, Closes, Registers, Edits, Removes, Turns
    <3>2. QED
      BY <2>1, <3>1, SoundStays DEF AllSound
  <2>3. Sound(request[q])'
    <3>1. CASE Quiet(q)
      BY <3>1 DEF Quiet
    <3>2. CASE Founds(q) \/ Closes(q) \/ Registers(q) \/ Edits(q) \/ Removes(q)
      BY <3>2, IdleIsSound DEF Founds, Closes, Registers, Edits, Removes, Turns
    <3>3. QED
      BY <1>2, <3>1, <3>2
  <2>4. QED
    BY <2>2, <2>3 DEF AllSound
<1>3. QED
  BY <1>1, <1>2, StepKinds

\* The rows of targets keep their types when one of them is written.
LEMMA WritesTypes ==
  ASSUME TypeOK, Cleared, NEW x \in Targets, NEW t \in Tenants \cup {None}, NEW columns \in Columns,
         Writes(x, t, columns), used \subseteq used', used' \subseteq Targets,
         t # None => x \in used' /\ columns.label # None /\ columns.range # None,
         t = None => columns = Nothing
  PROVE  /\ owner' \in [Targets -> Tenants \cup {None}] /\ cell' \in [Targets -> Columns]
         /\ \A y \in Targets : Present(y)' =>
              y \in used' /\ cell'[y].label # None /\ cell'[y].range # None
         /\ Cleared'
<1>1. ASSUME NEW y \in Targets
      PROVE  /\ Present(y)' => y \in used' /\ cell'[y].label # None /\ cell'[y].range # None
             /\ ~Present(y)' => cell'[y] = Nothing
  <2>1. CASE y = x
    BY <2>1 DEF Writes, Present
  <2>2. CASE y # x
    BY <2>2 DEF Writes, Present, TypeOK, Cleared
  <2>3. QED
    BY <2>1, <2>2
<1>2. QED
  BY <1>1 DEF Writes, Cleared

LEMMA TypeStep ==
  ASSUME Inv, [Next]_vars
  PROVE  TypeOK' /\ Cleared'
<1>0. TypeOK /\ AllSound /\ Cleared
  BY DEF Inv
<1>1. CASE UNCHANGED vars
  BY <1>0, <1>1 DEF vars, tenantVars, targetVars, TypeOK, Cleared, Exists, Present
<1>2. ASSUME NEW q \in Requests, Quiet(q)
      PROVE  TypeOK' /\ Cleared'
  BY <1>0, <1>2 DEF Quiet, tenantVars, targetVars, TypeOK, Cleared, Exists, Present
<1>3. ASSUME NEW q \in Requests, Founds(q)
      PROVE  TypeOK' /\ Cleared'
  <2>1. PICK t \in Tenants \ known, c \in CodeNames :
          /\ known' = known \cup {t}
          /\ code' \in [Tenants -> CodeNames \cup {None}]
          /\ \A u \in Tenants : u # t => code'[u] = code[u]
          /\ \/ created' = created \cup {t} /\ UNCHANGED system
             \/ system' = system \cup {t} /\ UNCHANGED created
    BY <1>3 DEF Founds
  <2>2. \A u \in Tenants : Exists(u)' => u \in known'
    BY <1>0, <2>1 DEF Exists, TypeOK
  <2>3. UNCHANGED <<deleted, targetVars>> /\ request' \in [Requests -> Request]
    BY <1>3 DEF Founds, Turns
  <2>4. known' \subseteq Tenants /\ system' \subseteq known' /\ created' \subseteq Tenants
    BY <1>0, <2>1 DEF TypeOK
  <2>5. QED
    BY <1>0, <2>1, <2>2, <2>3, <2>4 DEF targetVars, TypeOK, Cleared, Present
<1>4. ASSUME NEW q \in Requests, Closes(q)
      PROVE  TypeOK' /\ Cleared'
  <2>1. PICK t \in known :
          /\ code' \in [Tenants -> CodeNames \cup {None}] /\ code'[t] = None
          /\ \A u \in Tenants : u # t => code'[u] = code[u]
          /\ owner' \in [Targets -> Tenants \cup {None}]
          /\ cell' \in [Targets -> Columns]
          /\ \A x \in Targets : owner[x] = t => owner'[x] = None /\ cell'[x] = Nothing
          /\ \A x \in Targets : owner[x] # t => owner'[x] = owner[x] /\ cell'[x] = cell[x]
          /\ deleted' = deleted \cup {t}
    BY <1>4 DEF Closes
  <2>2. UNCHANGED <<known, system, created, used>> /\ request' \in [Requests -> Request]
    BY <1>4 DEF Closes, Turns
  <2>3. \A u \in Tenants : Exists(u)' => u \in known'
    BY <1>0, <2>1, <2>2 DEF Exists, TypeOK
  <2>4. \A x \in Targets : Present(x)' =>
          x \in used' /\ cell'[x].label # None /\ cell'[x].range # None
    BY <1>0, <2>1, <2>2 DEF Present, TypeOK
  <2>5. Cleared'
    BY <1>0, <2>1 DEF Present, Cleared
  <2>6. deleted' \subseteq Tenants
    BY <1>0, <2>1 DEF TypeOK
  <2>7. QED
    BY <1>0, <2>1, <2>2, <2>3, <2>4, <2>5, <2>6 DEF TypeOK
<1>5. ASSUME NEW q \in Requests, NEW x \in Targets, NEW t \in Tenants \cup {None},
             NEW columns \in Columns, Writes(x, t, columns), UNCHANGED tenantVars,
             Turns(q, Idle), used \subseteq used', used' \subseteq Targets,
             t # None => x \in used' /\ columns.label # None /\ columns.range # None,
             t = None => columns = Nothing
      PROVE  TypeOK' /\ Cleared'
  <2>1. /\ owner' \in [Targets -> Tenants \cup {None}] /\ cell' \in [Targets -> Columns]
        /\ \A y \in Targets : Present(y)' =>
             y \in used' /\ cell'[y].label # None /\ cell'[y].range # None
        /\ Cleared'
    BY <1>0, <1>5, WritesTypes
  <2>2. QED
    BY <1>0, <1>5, <2>1 DEF Turns, tenantVars, TypeOK, Exists
<1>6. ASSUME NEW q \in Requests, Registers(q)
      PROVE  TypeOK' /\ Cleared'
  <2>1. request[q].columns \in Columns
    BY <1>0, RequestFields
  <2>2. QED
    BY <1>0, <1>5, <1>6, <2>1, DirectoryAssumption DEF Registers, TypeOK
<1>7. ASSUME NEW q \in Requests, Edits(q)
      PROVE  TypeOK' /\ Cleared'
  <2>1. PICK x \in Targets, new \in Columns :
          /\ Present(x) /\ new.label # None /\ new.range # None
          /\ Writes(x, owner[x], new)
    BY <1>7 DEF Edits
  <2>2. x \in used /\ owner[x] # None /\ owner[x] \in Tenants \cup {None} /\ used \subseteq Targets
    BY <1>0, <2>1 DEF Present, TypeOK
  <2>3. UNCHANGED <<tenantVars, used>> /\ Turns(q, Idle)
    BY <1>7 DEF Edits
  <2>4. QED
    BY <1>5, <2>1, <2>2, <2>3
<1>8. ASSUME NEW q \in Requests, Removes(q)
      PROVE  TypeOK' /\ Cleared'
  BY <1>0, <1>5, <1>8, NothingIsColumns DEF Removes, TypeOK
<1>9. QED
  BY <1>0, <1>1, <1>2, <1>3, <1>4, <1>6, <1>7, <1>8, StepKinds

LEMMA InvInit == Init => Inv
<1> SUFFICES ASSUME Init PROVE Inv
  OBVIOUS
<1>1. TypeOK /\ Cleared
  BY IdleIsARequest, NothingIsColumns DEF Init, TypeOK, Cleared, Exists, Present
<1>2. \A q \in Requests : request[q].phase = "idle"
  BY IdleIsARequest DEF Init
<1>3. AllSound
  BY <1>2 DEF AllSound, Sound
<1>4. QED
  BY <1>1, <1>3 DEF Inv

LEMMA InvStep ==
  ASSUME Inv, [Next]_vars
  PROVE  Inv'
<1>1. TypeOK' /\ Cleared'
  BY TypeStep
<1>2. AllSound'
  BY AllSoundStep DEF Inv
<1>3. QED
  BY <1>1, <1>2 DEF Inv

\* What handlers rely on between their statements, the invariant of the
\* theorems below.
LEMMA InvariantHolds == Spec => []Inv
<1>1. Inv /\ [Next]_vars => Inv'
  BY InvStep
<1>2. QED
  BY <1>1, InvInit, PTL DEF Spec

\* TypeOK: every row of the directory keeps its type, and a target in a tenant
\* has both its columns, whatever edits omit.
THEOREM DirectoryTypeCorrect == Spec => []TypeOK
<1>1. Inv => TypeOK
  BY DEF Inv
<1>2. QED
  BY <1>1, InvariantHolds, PTL
(***************************************************************************)
(* Slugs, ranges and the trail                                             *)
(***************************************************************************)
LEMMA CodesStep ==
  ASSUME Inv, CodesUnique, [Next]_vars
  PROVE  CodesUnique'
<1>0. TypeOK /\ AllSound
  BY DEF Inv
<1>1. CASE code' = code
  BY <1>1 DEF CodesUnique, Exists
<1>2. ASSUME NEW q \in Requests, Founds(q)
      PROVE  CodesUnique'
  <2>1. PICK t \in Tenants \ known, c \in CodeNames :
          /\ Named(c) = {}
          /\ code'[t] = c
          /\ \A u \in Tenants : u # t => code'[u] = code[u]
    BY <1>2 DEF Founds
  <2>2. \A u \in Tenants : u # t => code'[u] # c
    BY <2>1 DEF Named
  <2>3. QED
    BY <2>1, <2>2 DEF CodesUnique, Exists
<1>3. ASSUME NEW q \in Requests, Closes(q)
      PROVE  CodesUnique'
  <2>1. PICK t \in known :
          /\ code'[t] = None
          /\ \A u \in Tenants : u # t => code'[u] = code[u]
    BY <1>3 DEF Closes
  <2>2. QED
    BY <2>1 DEF CodesUnique, Exists
<1>4. CASE \/ UNCHANGED vars
           \/ \E q \in Requests : Quiet(q) \/ Registers(q) \/ Edits(q) \/ Removes(q)
  BY <1>1, <1>4 DEF Quiet, Registers, Edits, Removes, vars, tenantVars
<1>5. QED
  BY <1>0, <1>2, <1>3, <1>4, StepKinds

\* CodesUnique: handlers that look a slug up and insert it in separate
\* statements never leave two tenants, nor two workspaces of one operator.
THEOREM SlugsAreUnique == Spec => []CodesUnique
<1>1. Init => CodesUnique
  BY DEF Init, CodesUnique, Exists
<1>2. Inv /\ CodesUnique /\ [Next]_vars => CodesUnique'
  BY CodesStep
<1>3. QED
  BY <1>1, <1>2, InvariantHolds, PTL DEF Spec

LEMMA WritesDistinct ==
  ASSUME TargetsDistinct, NEW x \in Targets, NEW t, NEW columns, Writes(x, t, columns),
         t = None \/ Distinct(x, t, columns)
  PROVE  TargetsDistinct'
<1> SUFFICES ASSUME NEW y \in Targets, NEW z \in Targets, y # z, owner'[y] # None,
                    owner'[y] = owner'[z]
             PROVE  cell'[y].label # cell'[z].label /\ cell'[y].range # cell'[z].range
  BY DEF TargetsDistinct, Present
<1>1. CASE y # x /\ z # x
  BY <1>1 DEF Writes, TargetsDistinct, Present
<1>2. ASSUME NEW w \in Targets, w # x, owner'[w] = t, t # None
      PROVE  cell'[w].label # columns.label /\ cell'[w].range # columns.range
  BY <1>2 DEF Writes, Distinct, Owned
<1>3. CASE y = x
  BY <1>2, <1>3 DEF Writes
<1>4. CASE z = x
  BY <1>2, <1>4 DEF Writes
<1>5. QED
  BY <1>1, <1>3, <1>4

LEMMA DistinctStep ==
  ASSUME Inv, TargetsDistinct, [Next]_vars
  PROVE  TargetsDistinct'
<1>0. TypeOK /\ AllSound
  BY DEF Inv
<1>1. CASE UNCHANGED <<owner, cell>>
  BY <1>1 DEF TargetsDistinct, Present
<1>2. ASSUME NEW q \in Requests, Closes(q)
      PROVE  TargetsDistinct'
  <2>1. \A x \in Targets : owner'[x] # None => owner'[x] = owner[x] /\ cell'[x] = cell[x]
    BY <1>2 DEF Closes
  <2>2. QED
    BY <2>1 DEF TargetsDistinct, Present
<1>3. ASSUME NEW q \in Requests, Registers(q) \/ Edits(q) \/ Removes(q)
      PROVE  TargetsDistinct'
  BY <1>3, WritesDistinct DEF Registers, Edits, Removes
<1>4. CASE UNCHANGED vars \/ \E q \in Requests : Quiet(q) \/ Founds(q)
  BY <1>1, <1>4 DEF Quiet, Founds, vars, targetVars
<1>5. QED
  BY <1>0, <1>2, <1>3, <1>4, StepKinds

\* TargetsDistinct: no label and no range appears twice in a tenant, although
\* the handlers' check races, reads one page, and is skipped by edits.
THEOREM TargetsAreDistinct == Spec => []TargetsDistinct
<1>1. Init => TargetsDistinct
  BY DEF Init, TargetsDistinct, Present
<1>2. Inv /\ TargetsDistinct /\ [Next]_vars => TargetsDistinct'
  BY DistinctStep
<1>3. QED
  BY <1>1, <1>2, InvariantHolds, PTL DEF Spec

LEMMA HaveTenantStep ==
  ASSUME Inv, TargetsHaveTenant, [Next]_vars
  PROVE  TargetsHaveTenant'
<1>0. TypeOK /\ AllSound
  BY DEF Inv
<1>1. CASE UNCHANGED <<owner, code>>
  BY <1>1 DEF TargetsHaveTenant, Present, Exists
<1>2. ASSUME NEW q \in Requests, Founds(q)
      PROVE  TargetsHaveTenant'
  <2>1. PICK t \in Tenants \ known, c \in CodeNames :
          code'[t] = c /\ \A u \in Tenants : u # t => code'[u] = code[u]
    BY <1>2 DEF Founds
  <2>2. UNCHANGED owner /\ c # None
    BY <1>2, DirectoryAssumption DEF Founds, targetVars
  <2>3. QED
    BY <1>0, <2>1, <2>2 DEF TargetsHaveTenant, Present, Exists, TypeOK
<1>3. ASSUME NEW q \in Requests, Closes(q)
      PROVE  TargetsHaveTenant'
  <2>1. PICK t \in known :
          /\ \A u \in Tenants : u # t => code'[u] = code[u]
          /\ \A x \in Targets : owner[x] = t => owner'[x] = None
          /\ \A x \in Targets : owner[x] # t => owner'[x] = owner[x]
    BY <1>3 DEF Closes
  <2>2. QED
    BY <1>0, <2>1 DEF TargetsHaveTenant, Present, Exists, TypeOK
<1>4. ASSUME NEW q \in Requests, Registers(q) \/ Edits(q) \/ Removes(q)
      PROVE  TargetsHaveTenant'
  <2>1. code' = code
    BY <1>4 DEF Registers, Edits, Removes, tenantVars
  <2>2. PICK x \in Targets :
          /\ owner'[x] # None => Exists(owner'[x])
          /\ \A y \in Targets : y # x => owner'[y] = owner[y]
    BY <1>4 DEF Registers, Edits, Removes, Writes, TargetsHaveTenant
  <2>3. QED
    BY <2>1, <2>2 DEF TargetsHaveTenant, Present, Exists
<1>5. CASE UNCHANGED vars \/ \E q \in Requests : Quiet(q)
  BY <1>1, <1>5 DEF Quiet, vars, tenantVars, targetVars
<1>6. QED
  BY <1>0, <1>2, <1>3, <1>4, <1>5, StepKinds

\* TargetsHaveTenant: the ranges of a tenant go with it, those included that
\* were being registered when it was deleted.
THEOREM TargetsGoWithTheirTenant == Spec => []TargetsHaveTenant
<1>1. Init => TargetsHaveTenant
  BY DEF Init, TargetsHaveTenant, Present
<1>2. Inv /\ TargetsHaveTenant /\ [Next]_vars => TargetsHaveTenant'
  BY HaveTenantStep
<1>3. QED
  BY <1>1, <1>2, InvariantHolds, PTL DEF Spec

LEMMA PermittedStep ==
  ASSUME Inv, RangesPermitted, [Next]_vars
  PROVE  RangesPermitted'
<1>0. TypeOK /\ AllSound
  BY DEF Inv
<1>1. CASE UNCHANGED <<owner, cell>>
  BY <1>1 DEF RangesPermitted, Present
<1>2. ASSUME NEW q \in Requests, Closes(q)
      PROVE  RangesPermitted'
  <2>1. \A x \in Targets : owner'[x] # None => owner'[x] = owner[x] /\ cell'[x] = cell[x]
    BY <1>2 DEF Closes
  <2>2. QED
    BY <2>1 DEF RangesPermitted, Present
<1>3. ASSUME NEW q \in Requests, Registers(q) \/ Edits(q) \/ Removes(q)
      PROVE  RangesPermitted'
  <2>1. PICK x \in Targets :
          /\ owner'[x] # None => cell'[x].range \notin Forbidden
          /\ \A y \in Targets : y # x => owner'[y] = owner[y] /\ cell'[y] = cell[y]
    BY <1>3 DEF Registers, Edits, Removes, Writes, RangesPermitted
  <2>2. QED
    BY <2>1 DEF RangesPermitted, Present
<1>4. CASE UNCHANGED vars \/ \E q \in Requests : Quiet(q) \/ Founds(q)
  BY <1>1, <1>4 DEF Quiet, Founds, vars, targetVars
<1>5. QED
  BY <1>0, <1>2, <1>3, <1>4, StepKinds

\* RangesPermitted: no registered range is one that policy refuses, whether a
\* registration or an edit put it there.
THEOREM RegisteredIsPermitted == Spec => []RangesPermitted
<1>1. Init => RangesPermitted
  BY DEF Init, RangesPermitted, Present
<1>2. Inv /\ RangesPermitted /\ [Next]_vars => RangesPermitted'
  BY PermittedStep
<1>3. QED
  BY <1>1, <1>2, InvariantHolds, PTL DEF Spec

\* An event of a deletion is one of a tenant that was.
DeletedWereKnown == deleted \subseteq known

LEMMA TrailStep ==
  ASSUME Inv, TrailIsTrue, DeletedWereKnown, [Next]_vars
  PROVE  TrailIsTrue' /\ DeletedWereKnown'
<1>0. TypeOK /\ AllSound /\ known \subseteq Tenants /\ system \subseteq known
  BY DEF Inv, TypeOK
<1>1. CASE UNCHANGED tenantVars
  BY <1>1 DEF tenantVars, TrailIsTrue, DeletedWereKnown, Exists
<1>2. ASSUME NEW q \in Requests, Founds(q)
      PROVE  TrailIsTrue' /\ DeletedWereKnown'
  <2>1. PICK t \in Tenants \ known, c \in CodeNames :
          /\ known' = known \cup {t}
          /\ code'[t] = c
          /\ \A u \in Tenants : u # t => code'[u] = code[u]
          /\ \/ created' = created \cup {t} /\ UNCHANGED system
             \/ system' = system \cup {t} /\ UNCHANGED created
    BY <1>2 DEF Founds
  <2>2. deleted' = deleted /\ c # None
    BY <1>2, DirectoryAssumption DEF Founds
  <2>3. created' = known' \ system'
    BY <1>0, <2>1 DEF TrailIsTrue
  <2>4. \A u \in known' : ~Exists(u)' <=> u \in deleted'
    BY <1>0, <2>1, <2>2 DEF TrailIsTrue, DeletedWereKnown, Exists
  <2>5. QED
    BY <2>1, <2>2, <2>3, <2>4 DEF TrailIsTrue, DeletedWereKnown
<1>3. ASSUME NEW q \in Requests, Closes(q)
      PROVE  TrailIsTrue' /\ DeletedWereKnown'
  <2>1. PICK t \in known :
          /\ code'[t] = None
          /\ \A u \in Tenants : u # t => code'[u] = code[u]
          /\ deleted' = deleted \cup {t}
    BY <1>3 DEF Closes
  <2>2. UNCHANGED <<known, system, created>>
    BY <1>3 DEF Closes
  <2>3. QED
    BY <1>0, <2>1, <2>2 DEF TrailIsTrue, DeletedWereKnown, Exists
<1>4. CASE \/ UNCHANGED vars
           \/ \E q \in Requests : Quiet(q) \/ Registers(q) \/ Edits(q) \/ Removes(q)
  BY <1>1, <1>4 DEF Quiet, Registers, Edits, Removes, vars
<1>5. QED
  BY <1>0, <1>2, <1>3, <1>4, StepKinds

\* TrailIsTrue: every customer has its creation event, no workspace has one,
\* and a tenant is gone exactly when an event says so.
THEOREM TrailMatchesTenants == Spec => []TrailIsTrue
<1>1. Init => TrailIsTrue /\ DeletedWereKnown
  BY DEF Init, TrailIsTrue, DeletedWereKnown
<1>2. Inv /\ TrailIsTrue /\ DeletedWereKnown /\ [Next]_vars => TrailIsTrue' /\ DeletedWereKnown'
  BY TrailStep
<1>3. QED
  BY <1>1, <1>2, InvariantHolds, PTL DEF Spec

(***************************************************************************)
(* Edits, and whose rows a handler touches                                 *)
(***************************************************************************)
LEMMA StartPhase ==
  ASSUME NEW q \in Requests, Start(q)
  PROVE  request[q].phase = "idle"
  BY DEF Start, CheckCode, CheckWorkspace, FindTenant, BeginCreate, ReadForUpdate, ReadForDelete, Begin

LEMMA OmittedStep ==
  ASSUME Inv, [Next]_vars, NEW q \in Requests, NEW x \in Targets,
         At(q, "update_target", "write"), request'[q] # request[q]
  PROVE  /\ request[q].columns.label = None => cell'[x].label = cell[x].label
         /\ request[q].columns.range = None => cell'[x].range = cell[x].range
<1>1. PICK p \in Requests : Start(p) \/ Handle(p) \/ Abort(p)
  BY DEF Next, vars
<1>2. Sound(request[p]) /\ TypeOK
  BY DEF Inv, AllSound
<1>3. p = q
  <2>1. \/ Quiet(p) \/ Founds(p) \/ Closes(p) \/ Registers(p) \/ Edits(p) \/ Removes(p)
    BY <1>1, <1>2, StartIsQuiet, EndIsQuiet, FoundingFounds, ClosingCloses, CheckIsQuiet,
       CreatingRegisters, UpdatingEdits, DeletingRemoves DEF Handle, Abort
  <2>2. QED
    BY <2>1 DEF Quiet, Founds, Closes, Registers, Edits, Removes, Turns
<1>4. UpdateTarget(q) \/ Abort(q)
  <2>1. ~Start(q)
    BY StartPhase DEF At
  <2>2. QED
    BY <1>1, <1>3, <2>1 DEF Handle, At, CreateTenant, CreateWorkspace, DeleteTenant,
       CheckDuplicates, CreateTarget, DeleteTarget
<1>5. CASE Abort(q)
  BY <1>5 DEF Abort, targetVars
<1>6. CASE UpdateTarget(q)
  <2>1. Edits(q) \/ Quiet(q)
    BY <1>2, <1>3, <1>6, UpdatingEdits
  <2>2. CASE Quiet(q)
    BY <2>2 DEF Quiet, targetVars
  <2>3. CASE Edits(q)
    BY <2>3 DEF Edits, Writes
  <2>4. QED
    BY <2>1, <2>2, <2>3
<1>7. QED
  BY <1>4, <1>5, <1>6

\* OmittedUnchanged: an edit leaves what it omits as it is at the commit,
\* whatever was written between its read and its commit.
THEOREM EditsKeepTheRest == Spec => OmittedUnchanged
<1>1. Inv /\ [Next]_vars =>
        [\A q \in Requests : \A x \in Targets :
           At(q, "update_target", "write") /\ request'[q] # request[q] =>
             /\ request[q].columns.label = None => cell'[x].label = cell[x].label
             /\ request[q].columns.range = None => cell'[x].range = cell[x].range]_vars
  BY OmittedStep
<1>2. QED
  BY <1>1, InvariantHolds, PTL DEF Spec, OmittedUnchanged

LEMMA KeepsStep ==
  ASSUME Inv, [Next]_vars, NEW q \in Requests, NEW x \in Targets,
         request'[q] # request[q], owner'[x] # owner[x] \/ cell'[x] # cell[x]
  PROVE  request[q].tenant \in {owner[x], owner'[x]}
<1>0. TypeOK /\ AllSound /\ Cleared
  BY DEF Inv
<1>1. PICK p \in Requests : \/ Quiet(p) \/ Founds(p) \/ Closes(p)
                            \/ Registers(p) \/ Edits(p) \/ Removes(p)
  BY <1>0, StepKinds DEF vars
<1>2. p = q
  BY <1>1 DEF Quiet, Founds, Closes, Registers, Edits, Removes, Turns
<1>3. ~Quiet(q) /\ ~Founds(q)
  BY DEF Quiet, Founds, targetVars
<1>4. CASE Closes(q)
  BY <1>4 DEF Closes
<1>5. CASE Registers(q)
  BY <1>5 DEF Registers, Writes
<1>6. CASE Edits(q)
  BY <1>6 DEF Edits, Writes
<1>7. CASE Removes(q)
  BY <1>0, <1>7 DEF Removes, Writes, Cleared, Present
<1>8. QED
  BY <1>1, <1>2, <1>3, <1>4, <1>5, <1>6, <1>7

\* KeepsToTenant: a request scoped to a tenant changes rows of that tenant
\* only, whatever keys it names.
THEOREM HandlersKeepToTheirTenant == Spec => KeepsToTenant
<1>1. Inv /\ [Next]_vars =>
        [\A q \in Requests : \A x \in Targets :
           request'[q] # request[q] /\ (owner'[x] # owner[x] \/ cell'[x] # cell[x])
             => request[q].tenant \in {owner[x], owner'[x]}]_vars
  BY KeepsStep
<1>2. QED
  BY <1>1, InvariantHolds, PTL DEF Spec, KeepsToTenant
=============================================================================
