--------------------------- MODULE AccountsProofs ---------------------------
(***************************************************************************)
(* What holds of Accounts for every number of accounts, addresses, tenants  *)
(* and handlers at work: its types, unique addresses, members that go with  *)
(* their tenant, a true trail, members that stay inside their tenant, and,  *)
(* with one removal of an administrator at a time, an administrator left.   *)
(***************************************************************************)
EXTENDS Accounts, FiniteSetTheorems, TLAPS

(***************************************************************************)
(* Effects of the actions on the requests                                  *)
(***************************************************************************)
LEMMA IdleIsARequest == Idle \in Request
  BY DEF Idle, Request, AllOps, Phases

LEMMA CreationIsARequest ==
  ASSUME NEW op \in AllOps, NEW phase \in Phases, NEW acts \in Tenants \cup {None},
         NEW t \in Tenants \cup {None}, NEW e \in Emails \cup {None}
  PROVE  Creation(op, phase, acts, t, e) \in Request
  BY DEF Creation, Request

LEMMA AboutIsARequest ==
  ASSUME NEW op \in AllOps, NEW phase \in Phases, NEW u \in Ids \cup {None},
         NEW acts \in Tenants \cup {None}, NEW t \in Tenants \cup {None}, NEW s \in Ids \cup {None}
  PROVE  About(op, phase, u, acts, t, s) \in Request
  BY DEF About, Request

\* The fields of the two constructors.
LEMMA CreationFields ==
  ASSUME NEW op, NEW phase, NEW acts, NEW t, NEW e
  PROVE  LET r == Creation(op, phase, acts, t, e)
         IN  /\ r.op = op /\ r.phase = phase /\ r.acts = acts
             /\ r.tenant = t /\ r.subject = None /\ r.email = e
  BY DEF Creation

LEMMA AboutFields ==
  ASSUME NEW op, NEW phase, NEW u, NEW acts, NEW t, NEW s
  PROVE  LET r == About(op, phase, u, acts, t, s)
         IN  /\ r.op = op /\ r.phase = phase /\ r.acts = acts
             /\ r.tenant = t /\ r.subject = s /\ r.email = None
  BY DEF About

LEMMA IdleFields ==
  /\ Idle.op = "cli" /\ Idle.phase = "idle" /\ Idle.acts = None
  /\ Idle.tenant = None /\ Idle.subject = None
  BY DEF Idle

LEMMA Operations ==
  {"create_admin", "create_member", "delete_user", "delete_member", "reset_user",
   "reset_member", "change_password", "set_password", "cli"} = AllOps
  BY DEF AllOps, CreateOps, DeleteOps, ResetOps

LEMMA RequestFields ==
  ASSUME TypeOK, NEW q \in Requests
  PROVE  /\ request[q] \in Request
         /\ request[q].op \in AllOps
         /\ request[q].phase \in Phases
         /\ request[q].actor \in Ids \cup {None}
         /\ request[q].acts \in Tenants \cup {None}
         /\ request[q].tenant \in Tenants \cup {None}
         /\ request[q].subject \in Ids \cup {None}
         /\ request[q].email \in Emails \cup {None}
<1>1. request[q] \in Request
  BY DEF TypeOK
<1>2. QED
  BY <1>1 DEF Request

\* Only q's request changes, and it becomes r.
Turns(q, r) ==
  /\ request' \in [Requests -> Request]
  /\ request'[q] = r
  /\ \A p \in Requests : p # q => request'[p] = request[p]

LEMMA BecomeTurns ==
  ASSUME TypeOK, NEW q \in Requests, NEW r \in Request, Become(q, r) \/ Begin(q, r)
  PROVE  Turns(q, r)
  BY DEF TypeOK, Become, Begin, Turns

LEMMA EndTurns ==
  ASSUME TypeOK, NEW q \in Requests, End(q)
  PROVE  Turns(q, Idle)
  BY IdleIsARequest DEF TypeOK, End, Turns

\* Only the phase of q's request changes.
Moves(q, phase) ==
  /\ request' \in [Requests -> Request]
  /\ \A p \in Requests : p # q => request'[p] = request[p]
  /\ request'[q].phase = phase
  /\ request'[q].op = request[q].op
  /\ request'[q].acts = request[q].acts
  /\ request'[q].tenant = request[q].tenant
  /\ request'[q].subject = request[q].subject
  /\ request'[q].email = request[q].email

LEMMA GotoMoves ==
  ASSUME TypeOK, NEW q \in Requests, NEW phase \in Phases, Goto(q, phase)
  PROVE  Moves(q, phase)
<1>1. request \in [Requests -> Request]
  BY DEF TypeOK
<1>2. request' = [request EXCEPT ![q].phase = phase]
  BY DEF Goto
<1>3. request' \in [Requests -> Request]
  BY <1>1, <1>2 DEF Request
<1>4. \A p \in Requests : p # q => request'[p] = request[p]
  BY <1>1, <1>2
<1>5. request'[q] = [request[q] EXCEPT !.phase = phase]
  BY <1>1, <1>2
<1>6. QED
  BY <1>1, <1>3, <1>4, <1>5 DEF Moves, Request

(***************************************************************************)
(* Requests in progress                                                    *)
(***************************************************************************)
\* What a request may rely on at its next statement, whatever the others did
\* since its last one.
Sound(r) ==
  /\ r.phase # "idle" /\ r.op \notin CreateOps \cup {"cli"} =>
       r.subject \in Ids /\ state[r.subject] # "unborn"
  /\ r.phase # "idle" /\ r.op \in CreateOps \cup {"cli"} => r.email \in Emails
  /\ r.phase # "idle" /\ r.op \in {"create_member", "reset_member"} => r.tenant \in Tenants
  /\ r.phase # "idle" /\ r.op = "delete_member" /\ r.phase # "write" => r.tenant \in Tenants
  /\ r.acts # None => /\ r.phase # "idle"
                      /\ r.op \in {"create_member", "delete_member", "reset_member",
                                   "change_password", "set_password"}
  /\ r.acts # None /\ r.tenant # None => r.acts = r.tenant
  /\ r.acts # None /\ (\/ r.op = "change_password"
                       \/ r.op \in {"delete_member", "set_password"} /\ r.phase = "write") =>
       state[r.subject] = "gone" \/ home[r.subject] = r.acts
  /\ r.op = "delete_member" /\ r.phase = "write" =>
       state[r.subject] = "gone" \/ home[r.subject] # None

AllSound == \A q \in Requests : Sound(request[q])

\* How the account of a key may change in one step.
Evolves ==
  \A u \in Ids :
    /\ state[u] # "unborn" => state'[u] # "unborn"
    /\ state[u] = "gone" => state'[u] = "gone"
    /\ state[u] = "live" => state'[u] = "gone" \/ (home'[u] = home[u] /\ state'[u] = "live")

\* The kinds of steps that change accounts.
Births(u, e, t) ==
  /\ state[u] = "unborn" /\ u \notin Disabled
  /\ Holder(e) = {} /\ (t = None \/ t \in tenants)
  /\ state' \in [Ids -> States] /\ state'[u] = "live"
  /\ email' \in [Ids -> Emails \cup {None}] /\ email'[u] = e
  /\ home' \in [Ids -> Tenants \cup {None}] /\ home'[u] = t
  /\ \A v \in Ids : v # u => state'[v] = state[v] /\ email'[v] = email[v] /\ home'[v] = home[v]
  /\ UNCHANGED rekeyed

\* The event of u's creation, or the mark that the command line made it.
Registers(q, u) ==
  IF request[q].op = "cli"
  THEN byHand' = byHand \cup {u} /\ UNCHANGED created
  ELSE created' = created \cup {u} /\ UNCHANGED byHand

Deaths(U) ==
  /\ state' \in [Ids -> States]
  /\ email' \in [Ids -> Emails \cup {None}]
  /\ home' \in [Ids -> Tenants \cup {None}]
  /\ \A u \in Ids : u \in U => state'[u] = "gone" /\ email'[u] = None
  /\ \A u \in Ids : u \notin U =>
       state'[u] = state[u] /\ email'[u] = email[u] /\ home'[u] = home[u]
  /\ rekeyed' = rekeyed \ U

LEMMA InsertBirths ==
  ASSUME TypeOK, NEW q \in Requests, NEW e \in Emails, NEW t \in Tenants \cup {None},
         Insert(q, e, t)
  PROVE  /\ \/ UNCHANGED <<rows, created, byHand>>
            \/ \E u \in Ids : Births(u, e, t) /\ Registers(q, u)
         /\ UNCHANGED <<tenants, deleted>>
         /\ Turns(q, Idle)
<1>1. Turns(q, Idle) /\ UNCHANGED <<tenants, deleted, rekeyed>>
  BY EndTurns DEF Insert
<1>2. CASE ~Insertable(e, t)
  BY <1>1, <1>2 DEF Insert
<1>3. CASE Insertable(e, t)
  <2>1. PICK u \in Ids :
          /\ state[u] = "unborn" /\ u \notin Disabled
          /\ state' = [state EXCEPT ![u] = "live"]
          /\ email' = [email EXCEPT ![u] = e]
          /\ home' = [home EXCEPT ![u] = t]
          /\ Registers(q, u)
    BY <1>3 DEF Insert, Registers
  <2>2. "live" \in States
    BY DEF States
  <2>3. /\ state' \in [Ids -> States] /\ state'[u] = "live"
        /\ \A v \in Ids : v # u => state'[v] = state[v]
    BY <2>1, <2>2 DEF TypeOK
  <2>4. /\ email' \in [Ids -> Emails \cup {None}] /\ email'[u] = e
        /\ \A v \in Ids : v # u => email'[v] = email[v]
    BY <2>1 DEF TypeOK
  <2>5. /\ home' \in [Ids -> Tenants \cup {None}] /\ home'[u] = t
        /\ \A v \in Ids : v # u => home'[v] = home[v]
    BY <2>1 DEF TypeOK
  <2>6. Births(u, e, t)
    BY <1>1, <1>3, <2>1, <2>3, <2>4, <2>5 DEF Births, Insertable
  <2>7. QED
    BY <1>1, <2>1, <2>6
<1>4. QED
  BY <1>2, <1>3

LEMMA DeleteKills ==
  ASSUME TypeOK, NEW q \in Requests, Delete(q), request[q].subject \in Ids
  PROVE  /\ Deaths({request[q].subject})
         /\ deleted' = [deleted EXCEPT ![request[q].subject] = @ + 1]
         /\ UNCHANGED <<tenants, created, byHand>>
         /\ Turns(q, Idle)
<1> DEFINE s == request[q].subject
<1>1. /\ state' = [state EXCEPT ![s] = "gone"]
      /\ email' = [email EXCEPT ![s] = None]
      /\ home' = [home EXCEPT ![s] = None]
      /\ rekeyed' = rekeyed \ {s}
      /\ deleted' = [deleted EXCEPT ![s] = @ + 1]
      /\ UNCHANGED <<tenants, created, byHand>>
  BY DEF Delete
<1>2. Turns(q, Idle)
  BY EndTurns DEF Delete
<1>3. "gone" \in States
  BY DEF States
<1>4. state' \in [Ids -> States] /\ state'[s] = "gone"
      /\ \A u \in Ids : u # s => state'[u] = state[u]
  BY <1>1, <1>3 DEF TypeOK
<1>5. email' \in [Ids -> Emails \cup {None}] /\ email'[s] = None
      /\ \A u \in Ids : u # s => email'[u] = email[u]
  BY <1>1 DEF TypeOK
<1>6. home' \in [Ids -> Tenants \cup {None}] /\ \A u \in Ids : u # s => home'[u] = home[u]
  BY <1>1 DEF TypeOK
<1>7. Deaths({s})
  BY <1>1, <1>4, <1>5, <1>6 DEF Deaths
<1>8. QED
  BY <1>1, <1>2, <1>7

LEMMA DeleteTenantKills ==
  ASSUME TypeOK, NEW t \in Tenants, DeleteTenant(t)
  PROVE  /\ Deaths({u \in Ids : state[u] = "live" /\ home[u] = t})
         /\ tenants' = tenants \ {t}
         /\ t \in tenants
         /\ UNCHANGED <<home, trail, request>>
<1> DEFINE members == {u \in Ids : state[u] = "live" /\ home[u] = t}
<1>1. /\ state' = [u \in Ids |-> IF u \in members THEN "gone" ELSE state[u]]
      /\ email' = [u \in Ids |-> IF u \in members THEN None ELSE email[u]]
      /\ rekeyed' = rekeyed \ members
      /\ tenants' = tenants \ {t}
      /\ t \in tenants
      /\ UNCHANGED <<home, trail, request>>
  BY DEF DeleteTenant
<1> HIDE DEF members
<1>2. "gone" \in States
  BY DEF States
<1>3. /\ state' \in [Ids -> States]
      /\ \A u \in Ids : state'[u] = IF u \in members THEN "gone" ELSE state[u]
  BY <1>1, <1>2 DEF TypeOK
<1>4. /\ email' \in [Ids -> Emails \cup {None}]
      /\ \A u \in Ids : email'[u] = IF u \in members THEN None ELSE email[u]
  BY <1>1 DEF TypeOK
<1>5. Deaths(members)
  BY <1>1, <1>3, <1>4 DEF Deaths, TypeOK
<1>6. QED
  BY <1>1, <1>5 DEF members

BirthStep(q) ==
  \E u \in Ids, e \in Emails, t \in Tenants \cup {None} :
    /\ Births(u, e, t) /\ Registers(q, u)
    /\ request[q].acts # None => t = request[q].acts
    /\ UNCHANGED <<tenants, deleted>>
    /\ Turns(q, Idle)

DeathStep(q) ==
  /\ request[q].op \in DeleteOps /\ request[q].phase = "write"
  /\ request[q].subject \in Ids /\ state[request[q].subject] # "unborn"
  /\ Deaths({request[q].subject})
  /\ deleted' = [deleted EXCEPT ![request[q].subject] = @ + 1]
  /\ UNCHANGED <<tenants, created, byHand>>
  /\ Turns(q, Idle)

KeyStep(q) ==
  /\ request[q].op = "set_password" /\ request[q].phase = "write"
  /\ request[q].subject \in Ids
  /\ rekeyed' = IF Live(request[q].subject) THEN rekeyed \cup {request[q].subject} ELSE rekeyed
  /\ UNCHANGED <<state, email, home, tenants, trail>>
  /\ Turns(q, Idle)

FallStep(t) ==
  /\ Deaths({u \in Ids : state[u] = "live" /\ home[u] = t})
  /\ tenants' = tenants \ {t} /\ t \in tenants
  /\ UNCHANGED <<home, trail, request>>

\* A step that only moves a request on.
QuietStep == UNCHANGED <<rows, tenants, trail>>

LEMMA CreationIsBirth ==
  ASSUME TypeOK, NEW q \in Requests, Sound(request[q]),
         CreateAdmin(q) \/ CreateMember(q) \/ CliInsert(q)
  PROVE  \/ QuietStep /\ Turns(q, Idle)
         \/ BirthStep(q)
<1>1. PICK t \in Tenants \cup {None} :
        /\ Insert(q, request[q].email, t)
        /\ request[q].acts # None => t = request[q].acts
        /\ request[q].op \in CreateOps \cup {"cli"} /\ request[q].phase = "write"
  <2>1. CASE CreateAdmin(q)
    BY <2>1 DEF CreateAdmin, At, Sound, CreateOps
  <2>2. CASE CreateMember(q)
    <3>1. request[q].tenant \in Tenants /\ request[q].tenant # None
      BY <2>2, AccountsAssumption DEF CreateMember, At, Sound
    <3>2. QED
      BY <2>2, <3>1 DEF CreateMember, At, Sound, CreateOps
  <2>3. CASE CliInsert(q)
    BY <2>3 DEF CliInsert, At, Sound, CreateOps
  <2>4. QED
    BY <2>1, <2>2, <2>3
<1>2. request[q].email \in Emails
  BY <1>1 DEF Sound
<1>3. /\ \/ UNCHANGED <<rows, created, byHand>>
         \/ \E u \in Ids : Births(u, request[q].email, t) /\ Registers(q, u)
      /\ UNCHANGED <<tenants, deleted>>
      /\ Turns(q, Idle)
  BY <1>1, <1>2, InsertBirths
<1>4. CASE UNCHANGED <<rows, created, byHand>>
  BY <1>3, <1>4 DEF QuietStep, rows, trail
<1>5. CASE \E u \in Ids : Births(u, request[q].email, t) /\ Registers(q, u)
  BY <1>1, <1>2, <1>3, <1>5 DEF BirthStep
<1>6. QED
  BY <1>3, <1>4, <1>5

LEMMA DeleteIsDeath ==
  ASSUME TypeOK, NEW q \in Requests, Sound(request[q]), Delete(q)
  PROVE  DeathStep(q)
<1>1. request[q].op \in DeleteOps /\ request[q].phase = "write"
  BY DEF Delete
<1>2. request[q].subject \in Ids /\ state[request[q].subject] # "unborn"
  BY <1>1 DEF Sound, DeleteOps, CreateOps
<1>3. QED
  BY <1>1, <1>2, DeleteKills DEF DeathStep

LEMMA SetPasswordIsKey ==
  ASSUME TypeOK, NEW q \in Requests, Sound(request[q]), SetPassword(q)
  PROVE  KeyStep(q)
<1>1. request[q].op = "set_password" /\ request[q].phase = "write"
  BY DEF SetPassword, At
<1>2. request[q].subject \in Ids
  BY <1>1 DEF Sound, CreateOps
<1>3. Turns(q, Idle)
  BY EndTurns DEF SetPassword
<1>4. QED
  BY <1>1, <1>2, <1>3 DEF SetPassword, KeyStep

(***************************************************************************)
(* How requests move on                                                    *)
(***************************************************************************)
\* The first statement of a handler gives q a sound request.
LEMMA StartIsSound ==
  ASSUME TypeOK, NEW q \in Requests, Start(q)
  PROVE  /\ QuietStep
         /\ request' \in [Requests -> Request]
         /\ \A p \in Requests : p # q => request'[p] = request[p]
         /\ Sound(request[q])'
         /\ request'[q].phase \in {"read", "scope"} \/ request'[q].op = "cli"
<1>0. "idle" \in Phases /\ "scope" \in Phases /\ "read" \in Phases /\ "write" \in Phases
  BY DEF Phases
<1>1. ASSUME NEW u \in Ids, NEW e \in Emails, BeginCreateAdmin(q, u, e)
      PROVE  /\ QuietStep
             /\ request' \in [Requests -> Request]
             /\ \A p \in Requests : p # q => request'[p] = request[p]
             /\ Sound(request[q])' /\ request'[q].phase = "read"
  <2>1. Creation("create_admin", "read", None, None, e) \in Request
    BY <1>0, CreationIsARequest, Operations
  <2>2. Turns(q, Creation("create_admin", "read", None, None, e)) /\ QuietStep
    BY <1>1, <2>1, BecomeTurns DEF BeginCreateAdmin, QuietStep
  <2>3. /\ request'[q].op = "create_admin" /\ request'[q].phase = "read"
        /\ request'[q].acts = None /\ request'[q].email = e
    BY <2>2 DEF Turns, Creation
  <2>4. Sound(request[q])'
    BY <2>3 DEF Sound, CreateOps
  <2>5. QED
    BY <2>2, <2>3, <2>4 DEF Turns
<1>2. ASSUME NEW u \in Ids, NEW s \in Ids, BeginDeleteUser(q, u, s) \/ BeginResetUser(q, u, s)
      PROVE  /\ QuietStep
             /\ request' \in [Requests -> Request]
             /\ \A p \in Requests : p # q => request'[p] = request[p]
             /\ Sound(request[q])' /\ request'[q].phase = "read"
  <2>1. PICK op \in {"delete_user", "reset_user"} :
          /\ Begin(q, About(op, "read", None, None, None, s))
          /\ state[s] # "unborn" /\ QuietStep
    BY <1>2 DEF BeginDeleteUser, BeginResetUser, QuietStep
  <2>2. About(op, "read", None, None, None, s) \in Request
    BY <1>0, AboutIsARequest, Operations
  <2>3. Turns(q, About(op, "read", None, None, None, s))
    BY <2>1, <2>2, BecomeTurns
  <2>4. state' = state
    BY <2>1 DEF QuietStep, rows
  <2>5. /\ request'[q].op = op /\ request'[q].phase = "read"
        /\ request'[q].acts = None /\ request'[q].subject = s
    BY <2>3 DEF Turns, About
  <2>6. Sound(request[q])'
    BY <2>1, <2>4, <2>5 DEF Sound, CreateOps
  <2>7. QED
    BY <2>1, <2>3, <2>5, <2>6 DEF Turns
<1>3. ASSUME NEW u \in Ids, NEW t \in Tenants, NEW e \in Emails, BeginCreateMember(q, u, t, e)
      PROVE  /\ QuietStep
             /\ request' \in [Requests -> Request]
             /\ \A p \in Requests : p # q => request'[p] = request[p]
             /\ Sound(request[q])' /\ request'[q].phase = "scope"
  <2>1. home[u] \in {None, t}
    BY <1>3 DEF BeginCreateMember, AsMember
  <2>2. Creation("create_member", "scope", home[u], t, e) \in Request
    BY <1>0, <2>1, CreationIsARequest, Operations
  <2>3. Turns(q, Creation("create_member", "scope", home[u], t, e)) /\ QuietStep
    BY <1>3, <2>2, BecomeTurns DEF BeginCreateMember, QuietStep
  <2>4. /\ request'[q].op = "create_member" /\ request'[q].phase = "scope"
        /\ request'[q].acts = home[u] /\ request'[q].email = e /\ request'[q].tenant = t
    BY <2>3 DEF Turns, Creation
  <2>5. Sound(request[q])'
    BY <2>1, <2>4 DEF Sound, CreateOps
  <2>6. QED
    BY <2>3, <2>4, <2>5 DEF Turns
<1>4. ASSUME NEW u \in Ids, NEW s \in Ids, NEW t \in Tenants,
             BeginDeleteMember(q, u, t, s) \/ BeginResetMember(q, u, t, s)
      PROVE  /\ QuietStep
             /\ request' \in [Requests -> Request]
             /\ \A p \in Requests : p # q => request'[p] = request[p]
             /\ Sound(request[q])' /\ request'[q].phase = "scope"
  <2>1. home[u] \in {None, t} /\ state[s] # "unborn" /\ QuietStep
    BY <1>4 DEF BeginDeleteMember, BeginResetMember, AsMember, QuietStep
  <2>2. PICK op \in {"delete_member", "reset_member"}, a \in Ids \cup {None} :
          Begin(q, About(op, "scope", a, home[u], t, s))
    BY <1>4 DEF BeginDeleteMember, BeginResetMember
  <2>3. About(op, "scope", a, home[u], t, s) \in Request
    BY <1>0, <2>1, AboutIsARequest, Operations
  <2>4. Turns(q, About(op, "scope", a, home[u], t, s))
    BY <2>2, <2>3, BecomeTurns
  <2>5. state' = state
    BY <2>1 DEF QuietStep, rows
  <2>6. /\ request'[q].op = op /\ request'[q].phase = "scope" /\ request'[q].subject = s
        /\ request'[q].acts = home[u] /\ request'[q].tenant = t
    BY <2>4 DEF Turns, About
  <2>7. Sound(request[q])'
    BY <2>1, <2>5, <2>6 DEF Sound, CreateOps
  <2>8. QED
    BY <2>1, <2>4, <2>6, <2>7 DEF Turns
<1>5. ASSUME NEW u \in Ids, BeginChange(q, u)
      PROVE  /\ QuietStep
             /\ request' \in [Requests -> Request]
             /\ \A p \in Requests : p # q => request'[p] = request[p]
             /\ Sound(request[q])' /\ request'[q].phase = "read"
  <2>1. state[u] = "live" /\ QuietStep /\ Begin(q, About("change_password", "read", None, home[u], None, u))
    BY <1>5 DEF BeginChange, Authentic, Live, QuietStep
  <2>2. About("change_password", "read", None, home[u], None, u) \in Request
    BY <1>0, AboutIsARequest, Operations DEF TypeOK
  <2>3. Turns(q, About("change_password", "read", None, home[u], None, u))
    BY <2>1, <2>2, BecomeTurns
  <2>4. state' = state /\ home' = home
    BY <2>1 DEF QuietStep, rows
  <2>5. /\ request'[q].op = "change_password" /\ request'[q].phase = "read"
        /\ request'[q].acts = home[u] /\ request'[q].tenant = None /\ request'[q].subject = u
    BY <2>3 DEF Turns, About
  <2>6. Sound(request[q])'
    BY <2>1, <2>4, <2>5 DEF Sound, CreateOps
  <2>7. QED
    BY <2>1, <2>3, <2>5, <2>6 DEF Turns
<1>6. ASSUME NEW e \in Emails, NEW additional \in BOOLEAN, CliCheck(q, e, additional)
      PROVE  /\ QuietStep
             /\ request' \in [Requests -> Request]
             /\ \A p \in Requests : p # q => request'[p] = request[p]
             /\ Sound(request[q])' /\ request'[q].op = "cli"
  <2>1. Creation("cli", "write", None, None, e) \in Request
    BY <1>0, CreationIsARequest, Operations
  <2>2. Turns(q, Creation("cli", "write", None, None, e)) /\ QuietStep
    BY <1>6, <2>1, BecomeTurns DEF CliCheck, QuietStep
  <2>3. /\ request'[q].op = "cli" /\ request'[q].phase = "write"
        /\ request'[q].acts = None /\ request'[q].email = e
    BY <2>2 DEF Turns, Creation
  <2>4. Sound(request[q])'
    BY <2>3 DEF Sound, CreateOps
  <2>5. QED
    BY <2>2, <2>3, <2>4 DEF Turns
<1>7. QED
  BY <1>1, <1>2, <1>3, <1>4, <1>5, <1>6 DEF Start

\* The request is a removal that has found the account.
Removes(r) == r.op \in DeleteOps /\ r.phase \in {"count", "write"}

\* No request of q becomes one of an account that is gone.
Finds(q) ==
  Removes(request'[q]) =>
    \/ Removes(request[q]) /\ request[q].subject = request'[q].subject
    \/ state[request'[q].subject] # "gone"

\* A later statement that changes no account keeps q's request sound.
Proceeds(q) ==
  /\ QuietStep
  /\ request' \in [Requests -> Request]
  /\ \A p \in Requests : p # q => request'[p] = request[p]
  /\ Sound(request[q])'
  /\ Finds(q)

LEMMA EndProceeds ==
  ASSUME TypeOK, NEW q \in Requests, QuietStep, End(q)
  PROVE  Proceeds(q)
<1>1. Turns(q, Idle)
  BY EndTurns
<1>2. request'[q].op = "cli" /\ request'[q].phase = "idle" /\ request'[q].acts = None
  BY <1>1, IdleFields DEF Turns
<1>3. Sound(request[q])'
  BY <1>2 DEF Sound, CreateOps
<1>4. Finds(q)
  BY <1>2 DEF Finds, Removes, DeleteOps
<1>5. QED
  BY <1>1, <1>3, <1>4 DEF Proceeds, Turns

LEMMA GotoProceeds ==
  ASSUME TypeOK, NEW q \in Requests, QuietStep, Sound(request[q]),
         NEW phase \in {"read", "count", "write"}, Goto(q, phase),
         request[q].phase \notin {"idle", "write"},
         phase = "write" => request[q].op \notin {"delete_member", "set_password"},
         \/ phase = "read" \/ request[q].op \notin DeleteOps \/ request[q].phase = "count"
         \/ Live(request[q].subject)
  PROVE  Proceeds(q)
<1>1. Moves(q, phase)
  BY GotoMoves DEF Phases
<1>2. state' = state /\ home' = home
  BY DEF QuietStep, rows
<1>3. Sound(request[q])'
  BY <1>1, <1>2 DEF Sound, Moves, CreateOps
<1>4. Finds(q)
  BY <1>1 DEF Finds, Removes, Moves, Live
<1>5. QED
  BY <1>1, <1>3, <1>4 DEF Proceeds, Moves

\* The two lookups that hand on to a statement about account s.
LEMMA FoundProceeds ==
  ASSUME TypeOK, NEW q \in Requests, QuietStep,
         NEW op \in {"delete_member", "set_password"}, NEW s \in Ids,
         Become(q, About(op, "write", None, request[q].acts, None, s)),
         state[s] = "live", op = "delete_member" => home[s] # None,
         request[q].acts # None => home[s] = request[q].acts
  PROVE  Proceeds(q)
<1> DEFINE r == About(op, "write", None, request[q].acts, None, s)
<1>1. r \in Request
  BY RequestFields, AboutIsARequest, Operations DEF Phases
<1>2. Turns(q, r)
  BY <1>1, BecomeTurns
<1>3. /\ request'[q].op = op /\ request'[q].phase = "write" /\ request'[q].subject = s
      /\ request'[q].acts = request[q].acts /\ request'[q].tenant = None
  BY <1>2 DEF Turns, About
<1>4. state' = state /\ home' = home
  BY DEF QuietStep, rows
<1>5. Sound(request[q])'
  BY <1>3, <1>4 DEF Sound, CreateOps
<1>6. Finds(q)
  BY <1>3 DEF Finds
<1>7. QED
  BY <1>2, <1>5, <1>6 DEF Proceeds, Turns

LEMMA HandleProceeds ==
  ASSUME TypeOK, NEW q \in Requests, Sound(request[q]),
         \/ Scope(q) \/ CheckDuplicate(q) \/ ReadUser(q) \/ CountAdmins(q)
         \/ ReadMember(q) \/ ReadForReset(q)
  PROVE  Proceeds(q)
<1>1. CASE Scope(q)
  BY <1>1, EndProceeds, GotoProceeds DEF Scope, QuietStep
<1>2. CASE CheckDuplicate(q)
  <2>1. /\ request[q].op \notin DeleteOps \cup {"set_password"}
        /\ request[q].phase \notin {"idle", "write"}
    BY <1>2 DEF CheckDuplicate, CreateOps, DeleteOps
  <2>2. QED
    BY <1>2, <2>1, EndProceeds, GotoProceeds DEF CheckDuplicate, QuietStep, DeleteOps
<1>3. CASE ReadUser(q)
  <2>1. request[q].op \notin {"delete_member", "set_password"} /\ request[q].phase \notin {"idle", "write"}
    BY <1>3 DEF ReadUser, At
  <2>2. /\ QuietStep
        /\ End(q) \/ (Live(request[q].subject) /\ (Goto(q, "write") \/ Goto(q, "count")))
    BY <1>3 DEF ReadUser, QuietStep
  <2>3. QED
    BY <2>1, <2>2, EndProceeds, GotoProceeds
<1>4. CASE CountAdmins(q)
  <2>1. request[q].op \notin {"delete_member", "set_password"} /\ request[q].phase = "count"
    BY <1>4 DEF CountAdmins, At
  <2>2. QuietStep /\ (End(q) \/ Goto(q, "write"))
    BY <1>4 DEF CountAdmins, QuietStep
  <2>3. QED
    BY <2>1, <2>2, EndProceeds, GotoProceeds
<1>5. CASE ReadMember(q)
  <2> DEFINE s == request[q].subject
  <2>1. request[q].op = "delete_member" /\ request[q].phase = "read" /\ QuietStep
    BY <1>5 DEF ReadMember, At, QuietStep
  <2>2. request[q].tenant \in Tenants
    BY <2>1 DEF Sound
  <2>3. \/ End(q)
        \/ /\ Live(s) /\ home[s] = request[q].tenant
           /\ Become(q, About("delete_member", "write", None, request[q].acts, None, s))
    BY <1>5 DEF ReadMember
  <2>4. CASE End(q)
    BY <2>1, <2>4, EndProceeds
  <2>5. CASE /\ Live(s) /\ home[s] = request[q].tenant
             /\ Become(q, About("delete_member", "write", None, request[q].acts, None, s))
    <3>1. s \in Ids /\ state[s] = "live"
      BY <2>5 DEF Live
    <3>2. home[s] # None
      BY <2>2, <2>5, AccountsAssumption
    <3>3. request[q].acts # None => home[s] = request[q].acts
      BY <2>2, <2>5, AccountsAssumption DEF Sound
    <3>4. QED
      BY <2>1, <2>5, <3>1, <3>2, <3>3, FoundProceeds
  <2>6. QED
    BY <2>3, <2>4, <2>5
<1>6. CASE ReadForReset(q)
  <2> DEFINE s == request[q].subject
             op == request[q].op
  <2>1. op \in ResetOps /\ request[q].phase = "read" /\ QuietStep
    BY <1>6 DEF ReadForReset, QuietStep
  <2>2. \/ End(q)
        \/ /\ Live(s) /\ (op = "reset_member" => home[s] = request[q].tenant)
           /\ Become(q, About("set_password", "write", None, request[q].acts, None, s))
    BY <1>6 DEF ReadForReset, Resettable
  <2>3. CASE End(q)
    BY <2>1, <2>3, EndProceeds
  <2>4. CASE /\ Live(s) /\ (op = "reset_member" => home[s] = request[q].tenant)
             /\ Become(q, About("set_password", "write", None, request[q].acts, None, s))
    <3>1. s \in Ids /\ state[s] = "live"
      BY <2>4 DEF Live
    <3>2. CASE op = "reset_member"
      <4>1. request[q].tenant \in Tenants
        BY <2>1, <3>2 DEF Sound
      <4>2. request[q].acts # None => home[s] = request[q].acts
        BY <2>4, <3>2, <4>1, AccountsAssumption DEF Sound
      <4>3. QED
        BY <2>1, <2>4, <3>1, <4>2, FoundProceeds
    <3>3. CASE op = "change_password"
      <4>1. request[q].acts # None => home[s] = request[q].acts
        BY <3>1, <3>3 DEF Sound
      <4>2. QED
        BY <2>1, <2>4, <3>1, <4>1, FoundProceeds
    <3>4. CASE op = "reset_user"
      <4>1. request[q].acts = None
        BY <3>4 DEF Sound
      <4>2. QED
        BY <2>1, <2>4, <3>1, <4>1, FoundProceeds
    <3>5. QED
      BY <2>1, <3>2, <3>3, <3>4 DEF ResetOps
  <2>5. QED
    BY <2>2, <2>3, <2>4
<1>7. QED
  BY <1>1, <1>2, <1>3, <1>4, <1>5, <1>6
(***************************************************************************)
(* The inductive invariant                                                 *)
(***************************************************************************)
LEMMA IdleIsSound ==
  ASSUME NEW q \in Requests, request'[q] = Idle
  PROVE  Sound(request[q])'
<1>1. request'[q].op = "cli" /\ request'[q].phase = "idle" /\ request'[q].acts = None
  BY IdleFields
<1>2. QED
  BY <1>1 DEF Sound, CreateOps

\* What a request relies on is not undone by the steps of the others.
LEMMA SoundStays ==
  ASSUME TypeOK, Evolves, NEW p \in Requests, request'[p] = request[p], Sound(request[p])
  PROVE  Sound(request[p])'
<1> DEFINE s == request[p].subject
<1>1. ASSUME s \in Ids
      PROVE  /\ state[s] # "unborn" => state'[s] # "unborn"
             /\ state[s] # "unborn" =>
                  \A t : state[s] = "gone" \/ home[s] = t => state'[s] = "gone" \/ home'[s] = t
             /\ state[s] # "unborn" /\ (state[s] = "gone" \/ home[s] # None) =>
                  state'[s] = "gone" \/ home'[s] # None
  BY <1>1 DEF TypeOK, Evolves, States
<1>2. request[p].phase # "idle" /\ request[p].op \notin CreateOps \cup {"cli"} =>
        s \in Ids /\ state[s] # "unborn"
  BY DEF Sound
<1>3. request[p].acts # None => request[p].phase # "idle"
  BY DEF Sound
<1>4. request[p].op \in {"change_password", "delete_member", "set_password"} =>
        request[p].op \notin CreateOps \cup {"cli"}
  BY DEF CreateOps
<1>5. QED
  BY <1>1, <1>2, <1>3, <1>4 DEF Sound

\* Every step is of one of six kinds.
LEMMA StepKinds ==
  ASSUME TypeOK, AllSound, [Next]_vars
  PROVE  \/ UNCHANGED vars
         \/ \E q \in Requests : Proceeds(q) \/ BirthStep(q) \/ DeathStep(q) \/ KeyStep(q)
         \/ \E t \in Tenants : FallStep(t)
<1>1. ASSUME NEW q \in Requests, Start(q) \/ Handle(q) \/ Abort(q)
      PROVE  Proceeds(q) \/ BirthStep(q) \/ DeathStep(q) \/ KeyStep(q)
  <2>1. Sound(request[q])
    BY DEF AllSound
  <2>2. CASE Start(q)
    <3>1. Finds(q)
      BY <2>2, StartIsSound DEF Finds, Removes, DeleteOps
    <3>2. QED
      BY <2>2, <3>1, StartIsSound DEF Proceeds
  <2>3. CASE Abort(q)
    BY <2>3, EndProceeds DEF Abort, QuietStep
  <2>4. CASE \/ Scope(q) \/ CheckDuplicate(q) \/ ReadUser(q) \/ CountAdmins(q)
             \/ ReadMember(q) \/ ReadForReset(q)
    BY <2>1, <2>4, HandleProceeds
  <2>5. CASE CreateAdmin(q) \/ CreateMember(q) \/ CliInsert(q)
    <3>1. CASE BirthStep(q)
      BY <3>1
    <3>2. CASE QuietStep /\ Turns(q, Idle)
      BY <3>2, IdleIsSound, IdleFields DEF Proceeds, Turns, Finds, Removes, DeleteOps
    <3>3. QED
      BY <2>1, <2>5, <3>1, <3>2, CreationIsBirth
  <2>6. CASE Delete(q)
    BY <2>1, <2>6, DeleteIsDeath
  <2>7. CASE SetPassword(q)
    BY <2>1, <2>7, SetPasswordIsKey
  <2>8. QED
    BY <1>1, <2>2, <2>3, <2>4, <2>5, <2>6, <2>7 DEF Handle
<1>2. ASSUME NEW t \in Tenants, DeleteTenant(t)
      PROVE  FallStep(t)
  BY <1>2, DeleteTenantKills DEF FallStep
<1>3. QED
  BY <1>1, <1>2 DEF Next

LEMMA DeathsEvolve ==
  ASSUME NEW U, Deaths(U), \A u \in Ids : u \in U => state[u] # "unborn"
  PROVE  Evolves
<1> SUFFICES ASSUME NEW u \in Ids
             PROVE  /\ state[u] # "unborn" => state'[u] # "unborn"
                    /\ state[u] = "gone" => state'[u] = "gone"
                    /\ state[u] = "live" =>
                         state'[u] = "gone" \/ (home'[u] = home[u] /\ state'[u] = "live")
  BY DEF Evolves
<1>1. CASE u \in U
  <2>1. state'[u] = "gone"
    BY <1>1 DEF Deaths
  <2>2. QED
    BY <2>1
<1>2. CASE u \notin U
  BY <1>2 DEF Deaths
<1>3. QED
  BY <1>1, <1>2

LEMMA StepsEvolve ==
  ASSUME TypeOK, NEW q \in Requests,
         \/ QuietStep \/ BirthStep(q) \/ DeathStep(q) \/ KeyStep(q)
         \/ \E t \in Tenants : FallStep(t)
  PROVE  Evolves
<1>1. CASE QuietStep \/ KeyStep(q)
  BY <1>1 DEF QuietStep, KeyStep, rows, Evolves
<1>2. CASE BirthStep(q)
  BY <1>2 DEF BirthStep, Births, Evolves
<1>3. CASE DeathStep(q)
  BY <1>3, DeathsEvolve DEF DeathStep
<1>4. CASE \E t \in Tenants : FallStep(t)
  <2>1. PICK t \in Tenants : FallStep(t)
    BY <1>4
  <2>2. QED
    BY <2>1, DeathsEvolve DEF FallStep
<1>5. QED
  BY <1>1, <1>2, <1>3, <1>4

LEMMA AllSoundStep ==
  ASSUME TypeOK, AllSound, [Next]_vars
  PROVE  AllSound'
<1>1. CASE UNCHANGED vars
  BY <1>1 DEF vars, rows, AllSound, Sound
<1>2. ASSUME NEW q \in Requests, Proceeds(q) \/ BirthStep(q) \/ DeathStep(q) \/ KeyStep(q)
      PROVE  AllSound'
  <2>1. Evolves
    BY <1>2, StepsEvolve DEF Proceeds
  <2>2. ASSUME NEW p \in Requests, p # q PROVE Sound(request[p])'
    <3>1. request'[p] = request[p]
      BY <1>2, <2>2 DEF Proceeds, BirthStep, DeathStep, KeyStep, Turns
    <3>2. QED
      BY <2>1, <3>1, SoundStays DEF AllSound
  <2>3. Sound(request[q])'
    <3>1. CASE Proceeds(q)
      BY <3>1 DEF Proceeds
    <3>2. CASE BirthStep(q) \/ DeathStep(q) \/ KeyStep(q)
      BY <3>2, IdleIsSound DEF BirthStep, DeathStep, KeyStep, Turns
    <3>3. QED
      BY <1>2, <3>1, <3>2
  <2>4. QED
    BY <2>2, <2>3 DEF AllSound
<1>3. ASSUME NEW t \in Tenants, FallStep(t)
      PROVE  AllSound'
  <2>1. ASSUME NEW p \in Requests PROVE Sound(request[p])'
    <3>1. Evolves
      BY <1>3, StepsEvolve
    <3>2. request'[p] = request[p]
      BY <1>3 DEF FallStep
    <3>3. QED
      BY <3>1, <3>2, SoundStays DEF AllSound
  <2>2. QED
    BY <2>1 DEF AllSound
<1>4. QED
  BY <1>1, <1>2, <1>3, StepKinds

LEMMA TypeStep ==
  ASSUME TypeOK, AllSound, [Next]_vars
  PROVE  TypeOK'
<1>1. CASE UNCHANGED vars
  BY <1>1 DEF vars, rows, trail, TypeOK
<1>2. ASSUME NEW q \in Requests, Proceeds(q)
      PROVE  TypeOK'
  BY <1>2 DEF Proceeds, QuietStep, rows, trail, TypeOK
<1>3. ASSUME NEW q \in Requests, BirthStep(q)
      PROVE  TypeOK'
  <2>1. PICK u \in Ids, e \in Emails, t \in Tenants \cup {None} :
          /\ Births(u, e, t) /\ Registers(q, u)
          /\ UNCHANGED <<tenants, deleted>>
          /\ Turns(q, Idle)
    BY <1>3 DEF BirthStep
  <2>2. \A v \in Ids : state'[v] = "live" <=> email'[v] # None
    BY <2>1, AccountsAssumption DEF Births, TypeOK
  <2>3. \A v \in rekeyed' : state'[v] = "live"
    BY <2>1 DEF Births, TypeOK
  <2>4. QED
    BY <2>1, <2>2, <2>3 DEF Births, Registers, Turns, TypeOK
<1>4. ASSUME NEW q \in Requests, DeathStep(q)
      PROVE  TypeOK'
  <2> DEFINE s == request[q].subject
  <2>1. \A v \in Ids : state'[v] = "live" <=> email'[v] # None
    BY <1>4 DEF DeathStep, Deaths, TypeOK
  <2>2. \A v \in rekeyed' : state'[v] = "live"
    BY <1>4 DEF DeathStep, Deaths, TypeOK
  <2>3. QED
    BY <1>4, <2>1, <2>2 DEF DeathStep, Deaths, Turns, TypeOK
<1>5. ASSUME NEW q \in Requests, KeyStep(q)
      PROVE  TypeOK'
  BY <1>5 DEF KeyStep, Live, Turns, trail, TypeOK
<1>6. ASSUME NEW t \in Tenants, FallStep(t)
      PROVE  TypeOK'
  <2>1. \A v \in Ids : state'[v] = "live" <=> email'[v] # None
    BY <1>6 DEF FallStep, Deaths, TypeOK
  <2>2. \A v \in rekeyed' : state'[v] = "live"
    BY <1>6 DEF FallStep, Deaths, TypeOK
  <2>3. QED
    BY <1>6, <2>1, <2>2 DEF FallStep, Deaths, trail, TypeOK
<1>7. QED
  BY <1>1, <1>2, <1>3, <1>4, <1>5, <1>6, StepKinds

LEMMA TypeInit == Init => TypeOK /\ AllSound
<1> SUFFICES ASSUME Init PROVE TypeOK /\ AllSound
  OBVIOUS
<1>1. TypeOK
  BY IdleIsARequest, AccountsAssumption DEF Init, TypeOK, States
<1>2. \A q \in Requests : request[q] = Idle
  BY DEF Init
<1>3. AllSound
  BY <1>2, IdleFields DEF AllSound, Sound, CreateOps
<1>4. QED
  BY <1>1, <1>3

\* Types: accounts, addresses, tenants and requests keep their types, every
\* live account has an address, and passwords are set of live accounts only.
THEOREM AccountsTypeCorrect == Spec => []TypeOK
<1>1. TypeOK /\ AllSound /\ [Next]_vars => (TypeOK /\ AllSound)'
  BY TypeStep, AllSoundStep
<1>2. QED
  BY <1>1, TypeInit, PTL DEF Spec

\* The same with what requests rely on, the invariant of the theorems below.
LEMMA InvariantHolds == Spec => [](TypeOK /\ AllSound)
<1>1. TypeOK /\ AllSound /\ [Next]_vars => (TypeOK /\ AllSound)'
  BY TypeStep, AllSoundStep
<1>2. QED
  BY <1>1, TypeInit, PTL DEF Spec
(***************************************************************************)
(* Addresses, tenants and the trail                                        *)
(***************************************************************************)
LEMMA EmailsStep ==
  ASSUME TypeOK, AllSound, EmailsUnique, [Next]_vars
  PROVE  EmailsUnique'
<1>1. CASE UNCHANGED <<state, email>>
  BY <1>1 DEF EmailsUnique
<1>2. ASSUME NEW U, Deaths(U)
      PROVE  EmailsUnique'
  <2> SUFFICES ASSUME NEW u \in Ids, NEW v \in Ids,
                      state'[u] = "live", state'[v] = "live", email'[u] = email'[v]
               PROVE  u = v
    BY DEF EmailsUnique
  <2>1. u \notin U /\ v \notin U
    BY <1>2 DEF Deaths
  <2>2. QED
    BY <1>2, <2>1 DEF Deaths, EmailsUnique
<1>3. ASSUME NEW u \in Ids, NEW e \in Emails, NEW t \in Tenants \cup {None}, Births(u, e, t)
      PROVE  EmailsUnique'
  <2>1. \A v \in Ids : v # u /\ state'[v] = "live" => email'[v] # e
    BY <1>3 DEF Births, Holder
  <2>2. QED
    BY <1>3, <2>1 DEF Births, EmailsUnique
<1>4. CASE UNCHANGED vars \/ \E q \in Requests : Proceeds(q) \/ KeyStep(q)
  BY <1>1, <1>4 DEF vars, rows, Proceeds, QuietStep, KeyStep
<1>5. CASE \E q \in Requests : BirthStep(q) \/ DeathStep(q)
  BY <1>2, <1>3, <1>5 DEF BirthStep, DeathStep
<1>6. CASE \E t \in Tenants : FallStep(t)
  BY <1>2, <1>6 DEF FallStep
<1>7. QED
  BY <1>4, <1>5, <1>6, StepKinds

\* EmailsUnique: handlers that check an address and insert it in separate
\* statements never leave two accounts with one address.
THEOREM AddressesAreUnique == Spec => []EmailsUnique
<1>1. Init => EmailsUnique
  BY AccountsAssumption DEF Init, EmailsUnique
<1>2. TypeOK /\ AllSound /\ EmailsUnique /\ [Next]_vars => EmailsUnique'
  BY EmailsStep
<1>3. QED
  BY <1>1, <1>2, InvariantHolds, PTL DEF Spec

LEMMA MembersStep ==
  ASSUME TypeOK, AllSound, MembersHaveTenant, [Next]_vars
  PROVE  MembersHaveTenant'
<1>1. CASE UNCHANGED <<state, home, tenants>>
  BY <1>1 DEF MembersHaveTenant
<1>2. ASSUME NEW U, Deaths(U), UNCHANGED tenants
      PROVE  MembersHaveTenant'
  BY <1>2 DEF Deaths, MembersHaveTenant
<1>3. ASSUME NEW u \in Ids, NEW e \in Emails, NEW t \in Tenants \cup {None}, Births(u, e, t),
             UNCHANGED tenants
      PROVE  MembersHaveTenant'
  BY <1>3 DEF Births, MembersHaveTenant
<1>4. CASE UNCHANGED vars \/ \E q \in Requests : Proceeds(q) \/ KeyStep(q)
  BY <1>1, <1>4 DEF vars, rows, Proceeds, QuietStep, KeyStep
<1>5. CASE \E q \in Requests : BirthStep(q) \/ DeathStep(q)
  BY <1>2, <1>3, <1>5 DEF BirthStep, DeathStep
<1>6. ASSUME NEW t \in Tenants, FallStep(t)
      PROVE  MembersHaveTenant'
  <2> SUFFICES ASSUME NEW u \in Ids, state'[u] = "live"
               PROVE  home'[u] \in tenants' \cup {None}
    BY DEF MembersHaveTenant
  <2>1. /\ state[u] = "live" /\ home'[u] = home[u] /\ home[u] # t
    BY <1>6 DEF FallStep, Deaths
  <2>2. QED
    BY <1>6, <2>1 DEF FallStep, MembersHaveTenant
<1>7. QED
  BY <1>4, <1>5, <1>6, StepKinds

\* MembersHaveTenant: no member outlives its tenant, not even one that was
\* being created when the tenant was deleted.
THEOREM MembersGoWithTheirTenant == Spec => []MembersHaveTenant
<1>1. Init => MembersHaveTenant
  BY AccountsAssumption DEF Init, MembersHaveTenant
<1>2. TypeOK /\ AllSound /\ MembersHaveTenant /\ [Next]_vars => MembersHaveTenant'
  BY MembersStep
<1>3. QED
  BY <1>1, <1>2, InvariantHolds, PTL DEF Spec

\* What TrailIsTrue says of creations and of rows that are gone.
Registered(u) ==
  /\ u \in created => state[u] # "unborn" /\ u \notin byHand
  /\ state[u] # "unborn" /\ InitialEmail[u] = None => u \in created \cup byHand

Accounted(u) ==
  /\ u \in byHand => state[u] # "unborn"
  /\ deleted[u] > 0 => state[u] = "gone"
  /\ state[u] = "gone" => deleted[u] > 0 \/ home[u] \in Tenants \ tenants

\* The removals that have found u.
Removing(u) == {q \in Requests : Removes(request[q]) /\ request[q].subject = u}

\* The events of u, with those still to come, are no more than the handlers.
Bounded(u) == deleted[u] + Cardinality(Removing(u)) <= Cardinality(Requests)

TrailInv == \A u \in Ids : Registered(u) /\ Accounted(u) /\ Bounded(u)

LEMMA RemovingFinite ==
  ASSUME NEW u
  PROVE  /\ IsFiniteSet(Removing(u)) /\ IsFiniteSet(Removing(u)')
         /\ Cardinality(Removing(u)) \in Nat /\ Cardinality(Removing(u)') \in Nat
         /\ Cardinality(Requests) \in Nat
         /\ Cardinality(Removing(u)) <= Cardinality(Requests)
         /\ Cardinality(Removing(u)') <= Cardinality(Requests)
<1>1. Removing(u) \subseteq Requests /\ Removing(u)' \subseteq Requests
  BY DEF Removing
<1>2. QED
  BY <1>1, AccountsAssumption, FS_Subset, FS_CardinalityType

\* Once an account is gone, no further removal finds it.
LEMMA GoneIsNotFound ==
  ASSUME TypeOK, AllSound, [Next]_vars, NEW u \in Ids, state[u] = "gone"
  PROVE  Removing(u)' \subseteq Removing(u)
<1>1. CASE UNCHANGED request
  BY <1>1 DEF Removing
<1>2. ASSUME NEW q \in Requests, Proceeds(q)
      PROVE  Removing(u)' \subseteq Removing(u)
  BY <1>2 DEF Proceeds, Finds, Removing
<1>3. ASSUME NEW q \in Requests, Turns(q, Idle)
      PROVE  Removing(u)' \subseteq Removing(u)
  BY <1>3, IdleFields DEF Turns, Removing, Removes
<1>4. QED
  BY <1>1, <1>2, <1>3, StepKinds DEF vars, BirthStep, DeathStep, KeyStep, FallStep

LEMMA RegisteredStep ==
  ASSUME TypeOK, AllSound, TrailInv, [Next]_vars, NEW v \in Ids
  PROVE  Registered(v)' /\ (v \in byHand' => state'[v] # "unborn")
<1>1. Registered(v) /\ (v \in byHand => state[v] # "unborn")
  BY DEF TrailInv, Accounted
<1>2. CASE UNCHANGED <<created, byHand>> /\ Evolves /\ (state[v] = "unborn" => state'[v] = "unborn")
  BY <1>1, <1>2 DEF Registered, Evolves
<1>3. ASSUME NEW q \in Requests, BirthStep(q)
      PROVE  Registered(v)' /\ (v \in byHand' => state'[v] # "unborn")
  <2>1. PICK u \in Ids, e \in Emails, t \in Tenants \cup {None} :
          Births(u, e, t) /\ Registers(q, u)
    BY <1>3 DEF BirthStep
  <2>2. CASE v = u
    BY <1>1, <2>1, <2>2 DEF Births, Registers, Registered
  <2>3. CASE v # u
    BY <1>1, <2>1, <2>3 DEF Births, Registers, Registered
  <2>4. QED
    BY <2>2, <2>3
<1>4. ASSUME NEW U, Deaths(U), \A u \in Ids : u \in U => state[u] # "unborn"
      PROVE  Evolves /\ (state[v] = "unborn" => state'[v] = "unborn")
  BY <1>4, DeathsEvolve DEF Deaths
<1>5. ASSUME NEW q \in Requests, Proceeds(q) \/ DeathStep(q) \/ KeyStep(q)
      PROVE  Registered(v)' /\ (v \in byHand' => state'[v] # "unborn")
  <2>1. UNCHANGED <<created, byHand>>
    BY <1>5 DEF Proceeds, QuietStep, DeathStep, KeyStep, trail
  <2>2. state[v] = "unborn" => state'[v] = "unborn"
    BY <1>4, <1>5 DEF Proceeds, QuietStep, DeathStep, KeyStep, rows
  <2>3. QED
    BY <1>2, <1>5, <2>1, <2>2, StepsEvolve DEF Proceeds
<1>6. ASSUME NEW t \in Tenants, FallStep(t)
      PROVE  Registered(v)' /\ (v \in byHand' => state'[v] # "unborn")
  BY <1>2, <1>4, <1>6 DEF FallStep, trail
<1>7. CASE UNCHANGED vars
  BY <1>1, <1>7 DEF vars, rows, trail, Registered
<1>8. QED
  BY <1>3, <1>5, <1>6, <1>7, StepKinds

LEMMA AccountedStep ==
  ASSUME TypeOK, AllSound, TrailInv, [Next]_vars, NEW v \in Ids
  PROVE  Accounted(v)'
<1>1. Accounted(v) /\ deleted[v] \in Nat
  BY DEF TrailInv, TypeOK
<1>2. v \in byHand' => state'[v] # "unborn"
  BY RegisteredStep
<1>3. CASE UNCHANGED <<state, home, tenants, deleted>>
  BY <1>1, <1>2, <1>3 DEF Accounted
<1>4. ASSUME NEW q \in Requests, BirthStep(q)
      PROVE  Accounted(v)'
  <2>1. PICK u \in Ids, e \in Emails, t \in Tenants \cup {None} :
          Births(u, e, t) /\ UNCHANGED <<tenants, deleted>>
    BY <1>4 DEF BirthStep
  <2>2. QED
    BY <1>1, <1>2, <2>1 DEF Births, Accounted
<1>5. ASSUME NEW q \in Requests, DeathStep(q)
      PROVE  Accounted(v)'
  <2> DEFINE s == request[q].subject
  <2>1. /\ Deaths({s}) /\ s \in Ids /\ UNCHANGED tenants
        /\ deleted' = [deleted EXCEPT ![s] = @ + 1]
    BY <1>5 DEF DeathStep
  <2>2. CASE v = s
    <3>1. deleted'[v] > 0
      BY <1>1, <2>1, <2>2 DEF TypeOK
    <3>2. QED
      BY <1>2, <2>1, <2>2, <3>1 DEF Deaths, Accounted
  <2>3. CASE v # s
    BY <1>1, <1>2, <2>1, <2>3 DEF Deaths, Accounted, TypeOK
  <2>4. QED
    BY <2>2, <2>3
<1>6. ASSUME NEW t \in Tenants, FallStep(t)
      PROVE  Accounted(v)'
  <2>1. /\ UNCHANGED deleted /\ UNCHANGED home /\ tenants' = tenants \ {t}
        /\ state[v] = "live" /\ home[v] = t => state'[v] = "gone"
        /\ ~(state[v] = "live" /\ home[v] = t) => state'[v] = state[v]
    BY <1>6 DEF FallStep, Deaths, trail
  <2>2. QED
    BY <1>1, <1>2, <2>1 DEF Accounted
<1>7. CASE UNCHANGED vars \/ \E q \in Requests : Proceeds(q) \/ KeyStep(q)
  BY <1>3, <1>7 DEF vars, rows, trail, Proceeds, QuietStep, KeyStep
<1>8. QED
  BY <1>4, <1>5, <1>6, <1>7, StepKinds

LEMMA BoundedStep ==
  ASSUME TypeOK, AllSound, TrailInv, [Next]_vars, NEW v \in Ids
  PROVE  Bounded(v)'
<1>1. /\ Accounted(v) /\ Bounded(v) /\ deleted[v] \in Nat
  BY DEF TrailInv, TypeOK
<1>2. CASE deleted'[v] = 0
  BY <1>2, RemovingFinite DEF Bounded
<1>3. CASE deleted'[v] = deleted[v] /\ deleted[v] # 0
  <2>1. state[v] = "gone"
    BY <1>1, <1>3 DEF Accounted
  <2>2. Cardinality(Removing(v)') <= Cardinality(Removing(v))
    BY <2>1, GoneIsNotFound, RemovingFinite, FS_Subset
  <2>3. QED
    BY <1>1, <1>3, <2>2, RemovingFinite DEF Bounded
<1>4. ASSUME NEW q \in Requests, DeathStep(q)
      PROVE  Bounded(v)'
  <2> DEFINE s == request[q].subject
  <2>1. deleted' = [deleted EXCEPT ![s] = @ + 1] /\ s \in Ids /\ Turns(q, Idle)
    BY <1>4 DEF DeathStep
  <2>2. CASE v # s
    <3>1. deleted'[v] = deleted[v]
      BY <2>1, <2>2 DEF TypeOK
    <3>2. QED
      BY <1>1, <1>2, <1>3, <3>1
  <2>3. CASE v = s
    <3>1. deleted'[v] = deleted[v] + 1
      BY <2>1, <2>3 DEF TypeOK
    <3>2. q \in Removing(v) /\ Removing(v)' \subseteq Removing(v) \ {q}
      BY <1>4, <2>1, <2>3, IdleFields DEF DeathStep, Turns, Removing, Removes, DeleteOps
    <3>3. /\ Cardinality(Removing(v) \ {q}) = Cardinality(Removing(v)) - 1
          /\ IsFiniteSet(Removing(v) \ {q})
      BY <3>2, RemovingFinite, FS_RemoveElement
    <3>4. Cardinality(Removing(v)') <= Cardinality(Removing(v)) - 1
      BY <3>2, <3>3, FS_Subset
    <3>5. QED
      BY <1>1, <3>1, <3>4, RemovingFinite DEF Bounded
  <2>4. QED
    BY <2>2, <2>3
<1>5. CASE UNCHANGED deleted
  BY <1>1, <1>2, <1>3, <1>5
<1>6. QED
  BY <1>4, <1>5, StepKinds
     DEF vars, trail, Proceeds, QuietStep, BirthStep, KeyStep, FallStep

\* TrailIsTrue: every creation over the API has its event, of members and of
\* administrators alike, and no other account has one; an event of a removal
\* names an account that is gone, an account is gone with such an event or
\* with its own tenant, and racing removals leave no more events of it than
\* there are handlers.
THEOREM TrailMatchesAccounts == Spec => []TrailIsTrue
<1>1. Init => TrailInv
  <2> SUFFICES ASSUME Init, NEW u \in Ids PROVE Registered(u) /\ Accounted(u) /\ Bounded(u)
    BY DEF TrailInv
  <2>1. Registered(u) /\ Accounted(u)
    BY DEF Init, Registered, Accounted
  <2>2. deleted[u] = 0
    BY DEF Init
  <2>3. QED
    BY <2>1, <2>2, RemovingFinite DEF Bounded
<1>2. TypeOK /\ AllSound /\ TrailInv /\ [Next]_vars => TrailInv'
  BY RegisteredStep, AccountedStep, BoundedStep DEF TrailInv
<1>3. TypeOK /\ TrailInv => TrailIsTrue
  <2> SUFFICES ASSUME TypeOK, TrailInv, NEW u \in Ids
               PROVE  Registered(u) /\ Accounted(u) /\ deleted[u] <= Cardinality(Requests)
    BY DEF TrailIsTrue, Registered, Accounted
  <2>1. deleted[u] \in Nat /\ Bounded(u)
    BY DEF TypeOK, TrailInv
  <2>2. QED
    BY <2>1, RemovingFinite DEF TrailInv, Bounded
<1>4. QED
  BY <1>1, <1>2, <1>3, InvariantHolds, PTL DEF Spec
(***************************************************************************)
(* The last administrator                                                  *)
(***************************************************************************)
\* One removal of an administrator at a time.
OneRemover == \A p, q \in Requests : RemovesAdmin(p) /\ RemovesAdmin(q) => p = q

\* The count a removal has done still holds: another administrator is left.
OtherRemains ==
  \A q \in Requests :
    At(q, "delete_user", "write") /\ request[q].subject \in ActiveAdmins =>
      \E u \in ActiveAdmins : u # request[q].subject

AdminInv == AdminRemains /\ OneRemover /\ OtherRemains

LEMMA ActiveAdmin ==
  /\ \A u : u \in ActiveAdmins <=>
       u \in Ids /\ state[u] = "live" /\ home[u] = None /\ u \notin Disabled
  /\ \A u : u \in ActiveAdmins' <=>
       u \in Ids /\ state'[u] = "live" /\ home'[u] = None /\ u \notin Disabled
  BY DEF ActiveAdmins, LiveAdmins

\* q takes the one administrator of its request away.
Removal(q) ==
  /\ At(q, "delete_user", "write") /\ request[q].subject \in ActiveAdmins
  /\ \A u \in ActiveAdmins : u # request[q].subject => u \in ActiveAdmins'
  /\ Turns(q, Idle)

\* Administrators that the step of another leaves.
LEMMA AdminsAfter ==
  ASSUME TypeOK, AllSound, [Next]_vars
  PROVE  /\ \A u \in Ids : state[u] # "unborn" /\ u \in ActiveAdmins' => u \in ActiveAdmins
         /\ \/ ActiveAdmins \subseteq ActiveAdmins'
            \/ \E q \in Requests : Removal(q)
<1>1. CASE UNCHANGED <<state, home>>
  BY <1>1, ActiveAdmin
<1>2. ASSUME NEW q \in Requests, BirthStep(q)
      PROVE  /\ \A u \in Ids : state[u] # "unborn" /\ u \in ActiveAdmins' => u \in ActiveAdmins
             /\ ActiveAdmins \subseteq ActiveAdmins'
  <2>1. PICK u \in Ids, e \in Emails, t \in Tenants \cup {None} : Births(u, e, t)
    BY <1>2 DEF BirthStep
  <2>2. QED
    BY <2>1, ActiveAdmin DEF Births
<1>3. ASSUME NEW q \in Requests, DeathStep(q)
      PROVE  /\ \A u \in Ids : state[u] # "unborn" /\ u \in ActiveAdmins' => u \in ActiveAdmins
             /\ ActiveAdmins \subseteq ActiveAdmins' \/ Removal(q)
  <2> DEFINE s == request[q].subject
  <2>1. \A u \in Ids : u # s => state'[u] = state[u] /\ home'[u] = home[u]
    BY <1>3 DEF DeathStep, Deaths
  <2>2. s \in Ids /\ state'[s] = "gone"
    BY <1>3 DEF DeathStep, Deaths
  <2>3. \A u \in Ids : state[u] # "unborn" /\ u \in ActiveAdmins' => u \in ActiveAdmins
    BY <2>1, <2>2, ActiveAdmin
  <2>4. \A u \in ActiveAdmins : u # s => u \in ActiveAdmins'
    BY <2>1, ActiveAdmin
  <2>5. CASE s \notin ActiveAdmins
    BY <2>3, <2>4, <2>5
  <2>6. CASE s \in ActiveAdmins
    <3>1. request[q].op # "delete_member"
      BY <1>3, <2>6, ActiveAdmin DEF DeathStep, AllSound, Sound
    <3>2. At(q, "delete_user", "write") /\ Turns(q, Idle)
      BY <1>3, <3>1 DEF DeathStep, DeleteOps, At
    <3>3. QED
      BY <2>3, <2>4, <2>6, <3>2 DEF Removal
  <2>7. QED
    BY <2>5, <2>6
<1>4. ASSUME NEW t \in Tenants, FallStep(t)
      PROVE  /\ \A u \in Ids : state[u] # "unborn" /\ u \in ActiveAdmins' => u \in ActiveAdmins
             /\ ActiveAdmins \subseteq ActiveAdmins'
  <2>1. \A u \in Ids : state'[u] = "live" => state[u] = "live" /\ home'[u] = home[u]
    BY <1>4 DEF FallStep, Deaths
  <2>2. \A u \in Ids : state[u] = "live" /\ home[u] = None =>
          state'[u] = "live" /\ home'[u] = None
    BY <1>4, AccountsAssumption DEF FallStep, Deaths
  <2>3. QED
    BY <2>1, <2>2, ActiveAdmin
<1>5. CASE UNCHANGED vars \/ \E q \in Requests : Proceeds(q) \/ KeyStep(q)
  BY <1>1, <1>5 DEF vars, rows, Proceeds, QuietStep, KeyStep
<1>6. QED
  BY <1>2, <1>3, <1>4, <1>5, StepKinds

\* How q's own step leads to the removal of an administrator.
LEMMA RemovalKinds ==
  ASSUME TypeOK, AllSound, MaxRemovers = 1, NEW q \in Requests, Start(q) \/ Handle(q) \/ Abort(q)
  PROVE  /\ \A p \in Requests : p # q => request'[p] = request[p]
         /\ \/ ~(request'[q].op = "delete_user" /\ request'[q].phase \in {"count", "write"})
            \/ UNCHANGED rows /\ request'[q].subject \notin ActiveAdmins
            \/ UNCHANGED rows /\ request'[q].phase = "count" /\ \A p \in Requests : ~RemovesAdmin(p)
            \/ /\ UNCHANGED rows
               /\ At(q, "delete_user", "count") /\ request'[q].subject = request[q].subject
               /\ Cardinality(ActiveAdmins) > 1
<1> DEFINE Others == \A p \in Requests : p # q => request'[p] = request[p]
           Harmless == ~(request'[q].op = "delete_user" /\ request'[q].phase \in {"count", "write"})
<1>0. "read" \in Phases /\ "write" \in Phases /\ "count" \in Phases
  BY DEF Phases
<1>1. ASSUME End(q) PROVE Others /\ Harmless
  <2>1. Turns(q, Idle)
    BY <1>1, EndTurns
  <2>2. QED
    BY <2>1, IdleFields DEF Turns
<1>2. ASSUME NEW op \in {"delete_member", "set_password"}, NEW s \in Ids,
             Become(q, About(op, "write", None, request[q].acts, None, s))
      PROVE  Others /\ Harmless
  <2>1. About(op, "write", None, request[q].acts, None, s) \in Request
    BY <1>0, RequestFields, AboutIsARequest, Operations
  <2>2. Turns(q, About(op, "write", None, request[q].acts, None, s))
    BY <1>2, <2>1, BecomeTurns
  <2>3. QED
    BY <2>2 DEF Turns, About
<1>3. ASSUME NEW phase \in Phases, Goto(q, phase), request[q].op # "delete_user" \/ phase = "read"
      PROVE  Others /\ Harmless
  <2>1. Moves(q, phase)
    BY <1>3, GotoMoves
  <2>2. QED
    BY <1>3, <2>1 DEF Moves
<1>4. CASE Start(q)
  BY <1>4, StartIsSound
<1>5. CASE Abort(q) \/ CreateAdmin(q) \/ CreateMember(q) \/ CliInsert(q) \/ Delete(q) \/ SetPassword(q)
  <2>1. End(q)
    BY <1>5 DEF Abort, CreateAdmin, CreateMember, CliInsert, Insert, Delete, SetPassword
  <2>2. QED
    BY <1>1, <2>1
<1>6. CASE Scope(q) \/ CheckDuplicate(q)
  <2>1. End(q) \/ Goto(q, "read") \/ (Goto(q, "write") /\ request[q].op # "delete_user")
    BY <1>6 DEF Scope, CheckDuplicate, CreateOps
  <2>2. QED
    BY <1>0, <1>1, <1>3, <2>1
<1>7. CASE ReadMember(q)
  BY <1>1, <1>2, <1>7 DEF ReadMember, Live
<1>8. CASE ReadForReset(q)
  BY <1>1, <1>2, <1>8 DEF ReadForReset, Resettable, Live
<1>9. CASE ReadUser(q)
  <2> DEFINE s == request[q].subject
  <2>1. \/ End(q)
        \/ Goto(q, "write") /\ home[s] # None
        \/ Goto(q, "count") /\ Cardinality({p \in Requests : RemovesAdmin(p)}) < 1
    BY <1>9 DEF ReadUser
  <2>2. UNCHANGED rows
    BY <1>9 DEF ReadUser
  <2>3. CASE End(q)
    BY <1>1, <2>3
  <2>4. CASE Goto(q, "write") /\ home[s] # None
    <3>1. Moves(q, "write")
      BY <1>0, <2>4, GotoMoves
    <3>2. s \notin ActiveAdmins
      BY <2>4, ActiveAdmin
    <3>3. QED
      BY <2>2, <3>1, <3>2 DEF Moves
  <2>5. CASE Goto(q, "count") /\ Cardinality({p \in Requests : RemovesAdmin(p)}) < 1
    <3> DEFINE R == {p \in Requests : RemovesAdmin(p)}
    <3>1. Moves(q, "count")
      BY <1>0, <2>5, GotoMoves
    <3>2. IsFiniteSet(R)
      BY FS_Subset, AccountsAssumption
    <3>3. Cardinality(R) = 0
      BY <2>5, <3>2, FS_CardinalityType
    <3>4. R = {}
      BY <3>2, <3>3, FS_EmptySet
    <3>5. QED
      BY <2>2, <3>1, <3>4 DEF Moves
  <2>6. QED
    BY <2>1, <2>3, <2>4, <2>5
<1>10. CASE CountAdmins(q)
  <2>1. /\ At(q, "delete_user", "count") /\ UNCHANGED rows
        /\ \/ End(q)
           \/ Goto(q, "write") /\ ~(Cardinality(ActiveAdmins) <= 1)
    BY <1>10 DEF CountAdmins
  <2>2. CASE End(q)
    BY <1>1, <2>2
  <2>3. CASE Goto(q, "write") /\ ~(Cardinality(ActiveAdmins) <= 1)
    <3>1. Moves(q, "write")
      BY <1>0, <2>3, GotoMoves
    <3>2. IsFiniteSet(ActiveAdmins)
      BY FS_Subset, AccountsAssumption DEF ActiveAdmins, LiveAdmins
    <3>3. Cardinality(ActiveAdmins) > 1
      BY <2>3, <3>2, FS_CardinalityType
    <3>4. QED
      BY <2>1, <3>1, <3>3 DEF Moves
  <2>4. QED
    BY <2>1, <2>2, <2>3
<1>11. QED
  BY <1>4, <1>5, <1>6, <1>7, <1>8, <1>9, <1>10 DEF Handle
\* A request that a step of another leaves alone removes an administrator
\* after it only if it did before.
LEMMA RemovesBefore ==
  ASSUME TypeOK, AllSound, [Next]_vars, NEW p \in Requests, request'[p] = request[p],
         RemovesAdmin(p)'
  PROVE  RemovesAdmin(p)
<1>1. /\ request[p].op = "delete_user" /\ request[p].phase \in {"count", "write"}
      /\ request[p].subject \in ActiveAdmins'
  BY DEF RemovesAdmin
<1>2. request[p].subject \in Ids /\ state[request[p].subject] # "unborn"
  BY <1>1 DEF AllSound, Sound, CreateOps
<1>3. request[p].subject \in ActiveAdmins
  BY <1>1, <1>2, AdminsAfter
<1>4. QED
  BY <1>1, <1>3 DEF RemovesAdmin

LEMMA OneRemoverStep ==
  ASSUME TypeOK, AllSound, MaxRemovers = 1, OneRemover, [Next]_vars
  PROVE  OneRemover'
<1>1. CASE UNCHANGED request
  BY <1>1, RemovesBefore DEF OneRemover
<1>2. ASSUME NEW q \in Requests, Start(q) \/ Handle(q) \/ Abort(q)
      PROVE  OneRemover'
  <2>1. \A p \in Requests : p # q => request'[p] = request[p]
    BY <1>2, RemovalKinds
  <2>2. \A p \in Requests : p # q /\ RemovesAdmin(p)' => RemovesAdmin(p)
    BY <2>1, RemovesBefore
  <2>3. RemovesAdmin(q)' => RemovesAdmin(q) \/ \A p \in Requests : ~RemovesAdmin(p)
    <3> SUFFICES ASSUME RemovesAdmin(q)'
                 PROVE  RemovesAdmin(q) \/ \A p \in Requests : ~RemovesAdmin(p)
      OBVIOUS
    <3>1. /\ request'[q].op = "delete_user" /\ request'[q].phase \in {"count", "write"}
          /\ request'[q].subject \in ActiveAdmins'
      BY DEF RemovesAdmin
    <3>2. UNCHANGED rows => ActiveAdmins' = ActiveAdmins
      BY DEF rows, ActiveAdmins, LiveAdmins
    <3>3. \/ \A p \in Requests : ~RemovesAdmin(p)
          \/ /\ At(q, "delete_user", "count")
             /\ request[q].subject \in ActiveAdmins
      BY <1>2, <3>1, <3>2, RemovalKinds
    <3>4. QED
      BY <3>3 DEF At, RemovesAdmin
  <2>4. QED
    BY <2>2, <2>3 DEF OneRemover
<1>3. CASE \E t \in Tenants : DeleteTenant(t)
  BY <1>1, <1>3 DEF DeleteTenant
<1>4. CASE UNCHANGED vars
  BY <1>1, <1>4 DEF vars
<1>5. QED
  BY <1>2, <1>3, <1>4 DEF Next

\* The counting of administrators by a removal: a set of more than one has a
\* member besides any given one.
LEMMA AnotherMember ==
  ASSUME NEW S, IsFiniteSet(S), Cardinality(S) > 1, NEW s
  PROVE  \E u \in S : u # s
<1> SUFFICES ASSUME \A u \in S : u = s PROVE FALSE
  OBVIOUS
<1>1. S \subseteq {s}
  OBVIOUS
<1>2. IsFiniteSet({s}) /\ Cardinality({s}) = 1
  BY FS_Singleton
<1>3. Cardinality(S) <= 1 /\ Cardinality(S) \in Nat
  BY <1>1, <1>2, FS_Subset, FS_CardinalityType
<1>4. QED
  BY <1>3

LEMMA OtherRemainsStep ==
  ASSUME TypeOK, AllSound, MaxRemovers = 1, OneRemover, OtherRemains, [Next]_vars
  PROVE  OtherRemains'
<1> SUFFICES ASSUME NEW p \in Requests, request'[p].op = "delete_user",
                    request'[p].phase = "write", request'[p].subject \in ActiveAdmins'
             PROVE  \E u \in ActiveAdmins' : u # request'[p].subject
  BY DEF OtherRemains, At
<1>1. RemovesAdmin(p)'
  BY DEF RemovesAdmin
<1>2. CASE request'[p] = request[p]
  <2>1. RemovesAdmin(p) /\ At(p, "delete_user", "write")
    BY <1>1, <1>2, RemovesBefore DEF At
  <2>2. PICK u \in ActiveAdmins : u # request[p].subject
    BY <2>1 DEF OtherRemains, RemovesAdmin
  <2>3. ASSUME NEW q \in Requests, Removal(q)
        PROVE  FALSE
    <3>1. RemovesAdmin(q)
      BY <2>3 DEF Removal, At, RemovesAdmin
    <3>2. q = p
      BY <2>1, <3>1 DEF OneRemover
    <3>3. request'[p].op = "cli"
      BY <2>3, <3>2, IdleFields DEF Removal, Turns
    <3>4. QED
      BY <3>3
  <2>4. ActiveAdmins \subseteq ActiveAdmins'
    BY <2>3, AdminsAfter
  <2>5. QED
    BY <1>2, <2>2, <2>4
<1>3. CASE request'[p] # request[p]
  <2>1. Start(p) \/ Handle(p) \/ Abort(p)
    <3>1. ASSUME NEW q \in Requests, Start(q) \/ Handle(q) \/ Abort(q)
          PROVE  q = p
      BY <1>3, <3>1, RemovalKinds
    <3>2. QED
      BY <1>3, <3>1 DEF Next, DeleteTenant, vars
  <2>2. UNCHANGED rows => ActiveAdmins' = ActiveAdmins
    BY DEF rows, ActiveAdmins, LiveAdmins
  <2>3. UNCHANGED rows /\ Cardinality(ActiveAdmins) > 1
    BY <2>1, <2>2, RemovalKinds
  <2>4. IsFiniteSet(ActiveAdmins)
    BY FS_Subset, AccountsAssumption DEF ActiveAdmins, LiveAdmins
  <2>5. QED
    BY <2>2, <2>3, <2>4, AnotherMember
<1>4. QED
  BY <1>2, <1>3

LEMMA AdminRemainsStep ==
  ASSUME TypeOK, AllSound, OtherRemains, AdminRemains, [Next]_vars
  PROVE  AdminRemains'
<1>1. CASE ActiveAdmins \subseteq ActiveAdmins'
  BY <1>1 DEF AdminRemains
<1>2. ASSUME NEW q \in Requests, Removal(q)
      PROVE  AdminRemains'
  BY <1>2 DEF Removal, OtherRemains, AdminRemains
<1>3. QED
  BY <1>1, <1>2, AdminsAfter

\* AdminRemains: when administrators are removed one at a time, and there is
\* an active one to begin with, one is always left, in spite of everything
\* that is created, removed and set meanwhile.
THEOREM LastAdminStays ==
  ASSUME MaxRemovers = 1,
         \E u \in Ids : InitialEmail[u] # None /\ InitialTenant[u] = None /\ u \notin Disabled
  PROVE  Spec => []AdminRemains
<1>1. Init => AdminInv
  <2> SUFFICES ASSUME Init PROVE AdminInv
    OBVIOUS
  <2>1. \A q \in Requests : request[q].phase = "idle"
    BY IdleFields DEF Init
  <2>2. AdminRemains
    BY ActiveAdmin DEF Init, AdminRemains
  <2>3. QED
    BY <2>1, <2>2 DEF AdminInv, OneRemover, OtherRemains, RemovesAdmin, At
<1>2. TypeOK /\ AllSound /\ AdminInv /\ [Next]_vars => AdminInv'
  BY OneRemoverStep, OtherRemainsStep, AdminRemainsStep DEF AdminInv
<1>3. AdminInv => AdminRemains
  BY DEF AdminInv
<1>4. QED
  BY <1>1, <1>2, <1>3, InvariantHolds, PTL DEF Spec

(***************************************************************************)
(* Members and their tenants                                               *)
(***************************************************************************)
LEMMA ConfinedStep ==
  ASSUME TypeOK, AllSound, [Next]_vars, NEW q \in Requests, NEW u \in Ids,
         request'[q] # request[q], request[q].acts # None,
         state'[u] # state[u] \/ u \in rekeyed' \ rekeyed
  PROVE  request[q].acts \in {home[u], home'[u]}
<1>1. ~UNCHANGED request /\ ~UNCHANGED rows
  BY DEF rows
<1>2. ASSUME NEW p \in Requests, BirthStep(p) \/ DeathStep(p) \/ KeyStep(p)
      PROVE  p = q
  BY <1>2 DEF BirthStep, DeathStep, KeyStep, Turns
<1>3. BirthStep(q) \/ DeathStep(q) \/ KeyStep(q)
  BY <1>1, <1>2, StepKinds DEF Proceeds, QuietStep, FallStep, vars
<1>4. CASE BirthStep(q)
  <2>1. PICK v \in Ids, e \in Emails, t \in Tenants \cup {None} :
          Births(v, e, t) /\ t = request[q].acts
    BY <1>4 DEF BirthStep
  <2>2. u = v
    BY <2>1 DEF Births
  <2>3. QED
    BY <2>1, <2>2 DEF Births
<1>5. CASE DeathStep(q)
  <2>1. request[q].op = "delete_member" /\ request[q].phase = "write"
    BY <1>5 DEF DeathStep, DeleteOps, AllSound, Sound
  <2>2. u = request[q].subject /\ state'[u] = "gone"
    BY <1>5 DEF DeathStep, Deaths
  <2>3. state[u] # "gone"
    BY <1>5, <2>2 DEF DeathStep, Deaths
  <2>4. QED
    BY <2>1, <2>2, <2>3 DEF AllSound, Sound
<1>6. CASE KeyStep(q)
  <2>1. u = request[q].subject /\ state[u] = "live"
    BY <1>6 DEF KeyStep, Live
  <2>2. QED
    BY <1>6, <2>1 DEF KeyStep, AllSound, Sound
<1>7. QED
  BY <1>3, <1>4, <1>5, <1>6

\* Confined: whatever came and went between its authentication and its commit,
\* a member's handler changes accounts of its own tenant only.
THEOREM MembersStayInside == Spec => Confined
<1>1. TypeOK /\ AllSound /\ [Next]_vars =>
        [\A q \in Requests : \A u \in Ids :
           /\ request'[q] # request[q] /\ request[q].acts # None
           /\ state'[u] # state[u] \/ u \in rekeyed' \ rekeyed
           => request[q].acts \in {home[u], home'[u]}]_vars
  BY ConfinedStep
<1>2. QED
  BY <1>1, InvariantHolds, PTL DEF Spec, Confined
=============================================================================
