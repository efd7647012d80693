------------------------------ MODULE Accounts ------------------------------
(***************************************************************************)
(* Accounts of administrators and of tenants' members: the endpoints that  *)
(* create and remove them and that set their passwords, and the command    *)
(* that makes the first administrator.  A handler is a sequence of         *)
(* statements at READ COMMITTED, so the rows it read may have changed by   *)
(* the time it commits.  Of a password the model has whether it was set    *)
(* anew since its account was created.  Tokens are left out: every account *)
(* may hold one, which only names it.  Sign-in is in LoginThrottle.        *)
(***************************************************************************)
EXTENDS Naturals, FiniteSets

CONSTANTS
  Ids,            \* primary keys of accounts, never used twice
  Emails,         \* sign-in addresses, as _normalise_email stores them
  Tenants,
  None,           \* NULL
  Requests,       \* handlers at work at once
  InitialEmail,   \* [Ids -> Emails \cup {None}]: the rows to begin with
  InitialTenant,  \* [Ids -> Tenants \cup {None}]
  Disabled,       \* accounts with is_active false; no endpoint changes it
  MaxRemovers,    \* bound: removals of an administrator under way at once
  MaxResets,      \* bound: passwords set since, or being set
  MaxFallen       \* bound: tenants deleted

CreateOps == {"create_admin", "create_member"}
DeleteOps == {"delete_user", "delete_member"}
ResetOps  == {"reset_user", "reset_member", "change_password"}
AllOps    == CreateOps \cup DeleteOps \cup ResetOps \cup {"set_password", "cli"}

ASSUME AccountsAssumption ==
  /\ None \notin Ids /\ None \notin Emails /\ None \notin Tenants
  /\ InitialEmail \in [Ids -> Emails \cup {None}]
  /\ InitialTenant \in [Ids -> Tenants \cup {None}]
  /\ Disabled \subseteq Ids
  /\ IsFiniteSet(Ids) /\ IsFiniteSet(Requests)
  /\ MaxRemovers \in Nat /\ MaxResets \in Nat /\ MaxFallen \in Nat
  /\ \A u, v \in Ids : u # v /\ InitialEmail[u] # None => InitialEmail[u] # InitialEmail[v]

VARIABLES
  state,    \* [Ids -> States]
  email,    \* [Ids -> Emails \cup {None}], of live rows
  home,     \* [Ids -> Tenants \cup {None}], tenant_id: None for an administrator;
            \* of an account that went with its tenant, that tenant
  rekeyed,  \* live accounts whose password_hash was set since
  tenants,  \* tenants that exist
  created,  \* accounts with a USER_CREATED event
  byHand,   \* accounts the command line made: of the behaviour, in no table
  deleted,  \* [Ids -> Nat], how many USER_DELETED events name the account
  request   \* [Requests -> Request]

rows  == <<state, email, home, rekeyed>>
trail == <<created, byHand, deleted>>
vars  == <<rows, tenants, trail, request>>

States == {"unborn", "live", "gone"}
Phases == {"idle", "scope", "read", "count", "write"}

\* op is the handler, actor its principal's user_id, acts the principal's
\* tenant_id, tenant the one in the path, subject and email what it is about.
Request == [op : AllOps, phase : Phases, actor : Ids \cup {None}, acts : Tenants \cup {None},
            tenant : Tenants \cup {None}, subject : Ids \cup {None}, email : Emails \cup {None}]

Idle == [op |-> "cli", phase |-> "idle", actor |-> None, acts |-> None,
         tenant |-> None, subject |-> None, email |-> None]

TypeOK ==
  /\ state \in [Ids -> States]
  /\ email \in [Ids -> Emails \cup {None}]
  /\ home \in [Ids -> Tenants \cup {None}]
  /\ tenants \subseteq Tenants
  /\ rekeyed \subseteq Ids
  /\ created \subseteq Ids /\ byHand \subseteq Ids
  /\ deleted \in [Ids -> Nat]
  /\ request \in [Requests -> Request]
  /\ \A u \in Ids : state[u] = "live" <=> email[u] # None
  /\ \A u \in rekeyed : state[u] = "live"

Init ==
  /\ state = [u \in Ids |-> IF InitialEmail[u] = None THEN "unborn" ELSE "live"]
  /\ email = InitialEmail
  /\ home = InitialTenant
  /\ tenants = Tenants
  /\ rekeyed = {}
  /\ created = {} /\ byHand = {}
  /\ deleted = [u \in Ids |-> 0]
  /\ request = [q \in Requests |-> Idle]

Live(u)       == u \in Ids /\ state[u] = "live"
LiveAdmins    == {u \in Ids : state[u] = "live" /\ home[u] = None}
ActiveAdmins  == LiveAdmins \ Disabled
Holder(e)     == {u \in Ids : state[u] = "live" /\ email[u] = e}

\* A request to create account e, and one about account s.
Creation(op, phase, acts, t, e) ==
  [op |-> op, phase |-> phase, actor |-> None, acts |-> acts,
   tenant |-> t, subject |-> None, email |-> e]

About(op, phase, u, acts, t, s) ==
  [op |-> op, phase |-> phase, actor |-> u, acts |-> acts,
   tenant |-> t, subject |-> s, email |-> None]

Begin(q, r)      == request[q].phase = "idle" /\ request' = [request EXCEPT ![q] = r]
Become(q, r)     == request' = [request EXCEPT ![q] = r]
Goto(q, phase)   == request' = [request EXCEPT ![q].phase = phase]
End(q)           == request' = [request EXCEPT ![q] = Idle]
At(q, op, phase) == request[q].op = op /\ request[q].phase = phase

(***************************************************************************)
(* Authentication                                                          *)
(***************************************************************************)
\* get_principal: the account that the token names is read anew, whatever else
\* the token claims.  Its tenant is compared with the token's too, but nothing
\* moves an account.
Authentic(u) == Live(u) /\ u \notin Disabled

AsAdmin(u) == Authentic(u) /\ home[u] = None

\* may_act_for: an administrator acts for every tenant, a member for its own.
AsMember(u, t) == Authentic(u) /\ home[u] \in {None, t}

BeginCreateAdmin(q, u, e) ==
  /\ AsAdmin(u)
  /\ Begin(q, Creation("create_admin", "read", None, None, e))
  /\ UNCHANGED <<rows, tenants, trail>>

\* The caller's own account is refused at once.  Nobody knows the key of an
\* account that never was.
BeginDeleteUser(q, u, s) ==
  /\ AsAdmin(u)
  /\ s # u /\ state[s] # "unborn"
  /\ Begin(q, About("delete_user", "read", None, None, None, s))
  /\ UNCHANGED <<rows, tenants, trail>>

BeginCreateMember(q, u, t, e) ==
  /\ AsMember(u, t)
  /\ Begin(q, Creation("create_member", "scope", home[u], t, e))
  /\ UNCHANGED <<rows, tenants, trail>>

BeginDeleteMember(q, u, t, s) ==
  /\ AsMember(u, t)
  /\ state[s] # "unborn"
  /\ Begin(q, About("delete_member", "scope", u, home[u], t, s))
  /\ UNCHANGED <<rows, tenants, trail>>

Resetting == {q \in Requests : request[q].op \in ResetOps \cup {"set_password"}}

MayReset == Cardinality(Resetting) + Cardinality(rekeyed) < MaxResets

BeginResetUser(q, u, s) ==
  /\ MayReset
  /\ AsAdmin(u)
  /\ state[s] # "unborn"
  /\ Begin(q, About("reset_user", "read", None, None, None, s))
  /\ UNCHANGED <<rows, tenants, trail>>

BeginResetMember(q, u, t, s) ==
  /\ MayReset
  /\ AsMember(u, t)
  /\ state[s] # "unborn"
  /\ Begin(q, About("reset_member", "scope", None, home[u], t, s))
  /\ UNCHANGED <<rows, tenants, trail>>

\* change_password of the caller.
BeginChange(q, u) ==
  /\ MayReset
  /\ Authentic(u)
  /\ Begin(q, About("change_password", "read", None, home[u], None, u))
  /\ UNCHANGED <<rows, tenants, trail>>

\* resolve_tenant_scope reads the tenant of the path.
Scope(q) ==
  /\ request[q].phase = "scope"
  /\ IF request[q].tenant \in tenants THEN Goto(q, "read") ELSE End(q)
  /\ UNCHANGED <<rows, tenants, trail>>

(***************************************************************************)
(* Creating accounts                                                       *)
(***************************************************************************)
\* The address is looked up before the insert; a weak password ends the
\* request here as well.
CheckDuplicate(q) ==
  /\ request[q].op \in CreateOps /\ request[q].phase = "read"
  /\ IF Holder(request[q].email) # {} THEN End(q) ELSE Goto(q, "write") \/ End(q)
  /\ UNCHANGED <<rows, tenants, trail>>

\* Mutant of Insertable: the unique constraint on the address is missing.
InsertableTwice(e, t) == t = None \/ t \in tenants

\* uq_users_email and the reference to the tenant.
Insertable(e, t) == Holder(e) = {} /\ (t = None \/ t \in tenants)

\* Mutant of Insert: the endpoint of administrators writes no event.
InsertSilently(q, e, t) ==
  /\ IF Insertable(e, t)
     THEN \E u \in Ids :
            /\ state[u] = "unborn" /\ u \notin Disabled
            /\ state' = [state EXCEPT ![u] = "live"]
            /\ email' = [email EXCEPT ![u] = e]
            /\ home' = [home EXCEPT ![u] = t]
            /\ created' = IF t = None THEN created ELSE created \cup {u}
            /\ byHand' = IF request[q].op = "cli" THEN byHand \cup {u} ELSE byHand
     ELSE UNCHANGED <<rows, created, byHand>>
  /\ End(q)
  /\ UNCHANGED <<tenants, deleted, rekeyed>>

\* The insert with its event, or an error of the database and neither.  The
\* command line writes no event.
Insert(q, e, t) ==
  /\ IF Insertable(e, t)
     THEN \E u \in Ids :
            /\ state[u] = "unborn" /\ u \notin Disabled
            /\ state' = [state EXCEPT ![u] = "live"]
            /\ email' = [email EXCEPT ![u] = e]
            /\ home' = [home EXCEPT ![u] = t]
            /\ IF request[q].op = "cli"
               THEN byHand' = byHand \cup {u} /\ UNCHANGED created
               ELSE created' = created \cup {u} /\ UNCHANGED byHand
     ELSE UNCHANGED <<rows, created, byHand>>
  /\ End(q)
  /\ UNCHANGED <<tenants, deleted, rekeyed>>

CreateAdmin(q)  == At(q, "create_admin", "write") /\ Insert(q, request[q].email, None)

\* The tenant is the authorised scope's, never the payload's.
CreateMember(q) == At(q, "create_member", "write") /\ Insert(q, request[q].email, request[q].tenant)

\* create_admin: the checks in one transaction, while a password is typed
\* nothing, and the insert in another.  Without --allow-additional it refuses
\* when there is an administrator, active or not.
CliCheck(q, e, additional) ==
  /\ LiveAdmins = {} \/ additional
  /\ Holder(e) = {}
  /\ Begin(q, Creation("cli", "write", None, None, e))
  /\ UNCHANGED <<rows, tenants, trail>>

CliInsert(q) == At(q, "cli", "write") /\ Insert(q, request[q].email, None)

(***************************************************************************)
(* Removing accounts                                                       *)
(***************************************************************************)
RemovesAdmin(q) ==
  /\ request[q].op = "delete_user" /\ request[q].phase \in {"count", "write"}
  /\ request[q].subject \in ActiveAdmins

\* delete_user_endpoint reads the row and its role.
ReadUser(q) ==
  /\ At(q, "delete_user", "read")
  /\ LET s == request[q].subject
     IN  IF ~Live(s) THEN End(q)
         ELSE IF home[s] # None THEN Goto(q, "write")
         ELSE /\ Cardinality({p \in Requests : RemovesAdmin(p)}) < MaxRemovers
              /\ Goto(q, "count")
  /\ UNCHANGED <<rows, tenants, trail>>

\* Mutant of CountAdmins: the last administrator may go as well.
CountAdminsLate(q) ==
  /\ At(q, "delete_user", "count")
  /\ IF Cardinality(ActiveAdmins) < 1 THEN End(q) ELSE Goto(q, "write")
  /\ UNCHANGED <<rows, tenants, trail>>

\* The last active administrator stays.
CountAdmins(q) ==
  /\ At(q, "delete_user", "count")
  /\ IF Cardinality(ActiveAdmins) <= 1 THEN End(q) ELSE Goto(q, "write")
  /\ UNCHANGED <<rows, tenants, trail>>

\* Mutant of ReadMember: the lookup is not scoped to the tenant.
ReadAnyMember(q) ==
  /\ At(q, "delete_member", "read")
  /\ LET s == request[q].subject
     IN  IF Live(s) /\ s # request[q].actor
         THEN Become(q, About("delete_member", "write", None, request[q].acts, None, s))
         ELSE End(q)
  /\ UNCHANGED <<rows, tenants, trail>>

\* delete_tenant_user finds only the tenant's accounts, and refuses the
\* caller's own.
ReadMember(q) ==
  /\ At(q, "delete_member", "read")
  /\ LET s == request[q].subject
     IN  IF Live(s) /\ home[s] = request[q].tenant /\ s # request[q].actor
         THEN Become(q, About("delete_member", "write", None, request[q].acts, None, s))
         ELSE End(q)
  /\ UNCHANGED <<rows, tenants, trail>>

\* Mutant of Delete: the address of the removed account stays taken.
DeleteKeepsAddress(q) ==
  /\ request[q].op \in DeleteOps /\ request[q].phase = "write"
  /\ state' = [state EXCEPT ![request[q].subject] = "gone"]
  /\ deleted' = [deleted EXCEPT ![request[q].subject] = @ + 1]
  /\ End(q)
  /\ UNCHANGED <<email, home, rekeyed, tenants, created, byHand>>

\* DELETE by primary key and its event.  A row that is gone already only makes
\* the session warn, so the event of a second removal is written too.
Delete(q) ==
  /\ request[q].op \in DeleteOps /\ request[q].phase = "write"
  /\ LET s == request[q].subject
     IN  /\ state' = [state EXCEPT ![s] = "gone"]
         /\ email' = [email EXCEPT ![s] = None]
         /\ home' = [home EXCEPT ![s] = None]
         /\ rekeyed' = rekeyed \ {s}
         /\ deleted' = [deleted EXCEPT ![s] = @ + 1]
  /\ End(q)
  /\ UNCHANGED <<tenants, created, byHand>>

(***************************************************************************)
(* Setting passwords                                                       *)
(***************************************************************************)
\* Whose password the handler finds: the tenant's, or any.
Resettable(op, t, s) == Live(s) /\ (op = "reset_member" => home[s] = t)

\* The row is read; a weak password, or a wrong current one, ends the request.
ReadForReset(q) ==
  /\ request[q].op \in ResetOps /\ request[q].phase = "read"
  /\ \/ /\ Resettable(request[q].op, request[q].tenant, request[q].subject)
        /\ Become(q, About("set_password", "write", None, request[q].acts, None,
                           request[q].subject))
     \/ End(q)
  /\ UNCHANGED <<rows, tenants, trail>>

\* From here on the three handlers are alike: an UPDATE by primary key, with
\* the event.  Unlike a DELETE, an UPDATE that matches no row is an error, and
\* the transaction is rolled back.
SetPassword(q) ==
  /\ At(q, "set_password", "write")
  /\ rekeyed' = IF Live(request[q].subject) THEN rekeyed \cup {request[q].subject} ELSE rekeyed
  /\ End(q)
  /\ UNCHANGED <<state, email, home, tenants, trail>>

(***************************************************************************)
(* The rest of the system                                                  *)
(***************************************************************************)
\* delete_tenant takes the tenant's accounts with it, without events.
DeleteTenant(t) ==
  /\ t \in tenants /\ Cardinality(Tenants \ tenants) < MaxFallen
  /\ tenants' = tenants \ {t}
  /\ LET members == {u \in Ids : state[u] = "live" /\ home[u] = t}
     IN  /\ state' = [u \in Ids |-> IF u \in members THEN "gone" ELSE state[u]]
         /\ email' = [u \in Ids |-> IF u \in members THEN None ELSE email[u]]
         /\ rekeyed' = rekeyed \ members
  /\ UNCHANGED <<home, trail, request>>

\* A request dies, or its commit fails: the transaction is rolled back.
Abort(q) ==
  /\ request[q].phase # "idle"
  /\ End(q)
  /\ UNCHANGED <<rows, tenants, trail>>

Handle(q) ==
  \/ Scope(q)
  \/ CheckDuplicate(q) \/ CreateAdmin(q) \/ CreateMember(q) \/ CliInsert(q)
  \/ ReadUser(q) \/ CountAdmins(q) \/ ReadMember(q) \/ Delete(q)
  \/ ReadForReset(q) \/ SetPassword(q)

Start(q) ==
  \/ \E u \in Ids, e \in Emails : BeginCreateAdmin(q, u, e)
  \/ \E u, s \in Ids : BeginDeleteUser(q, u, s) \/ BeginResetUser(q, u, s)
  \/ \E u \in Ids, t \in Tenants, e \in Emails : BeginCreateMember(q, u, t, e)
  \/ \E u, s \in Ids, t \in Tenants : BeginDeleteMember(q, u, t, s) \/ BeginResetMember(q, u, t, s)
  \/ \E u \in Ids : BeginChange(q, u)
  \/ \E e \in Emails, additional \in BOOLEAN : CliCheck(q, e, additional)

Next ==
  \/ \E q \in Requests : Start(q) \/ Handle(q) \/ Abort(q)
  \/ \E t \in Tenants : DeleteTenant(t)

Spec == Init /\ [][Next]_vars

(***************************************************************************)
(* Properties                                                              *)
(***************************************************************************)
\* "The last active administrator cannot be removed": true of removals one
\* after the other, whatever else happens meanwhile.
AdminRemains == ActiveAdmins # {}

\* No two accounts share an address, although the check and the insert are
\* separate statements of handlers that race.
EmailsUnique ==
  \A u, v \in Ids : state[u] = "live" /\ state[v] = "live" /\ email[u] = email[v] => u = v

\* An account of a tenant goes with it: no member outlives its tenant, not
\* even one that was being created when the tenant was deleted.
MembersHaveTenant ==
  \A u \in Ids : state[u] = "live" => home[u] \in tenants \cup {None}

\* The trail against the accounts.  Every account the API made, of a member or
\* of an administrator, has its USER_CREATED event, and no other has one.  A
\* USER_DELETED event names an account that is gone, and an account is gone
\* only with such an event or with its own tenant.  Removals that race may
\* each write one, but only those that had found the account before it went:
\* never more than there are handlers at work.
TrailIsTrue ==
  \A u \in Ids :
    /\ u \in created => state[u] # "unborn" /\ u \notin byHand
    /\ state[u] # "unborn" /\ InitialEmail[u] = None => u \in created \cup byHand
    /\ deleted[u] > 0 => state[u] = "gone"
    /\ state[u] = "gone" => deleted[u] > 0 \/ home[u] \in Tenants \ tenants
    /\ deleted[u] <= Cardinality(Requests)

\* A member acts on its own tenant only: every account it removes or creates,
\* and every password it sets, belongs to the tenant it signed in for, in
\* spite of everything that came and went between its authentication and its
\* commit.
Confined ==
  [][\A q \in Requests : \A u \in Ids :
       /\ request'[q] # request[q] /\ request[q].acts # None
       /\ state'[u] # state[u] \/ u \in rekeyed' \ rekeyed
       => request[q].acts \in {home[u], home'[u]}]_vars

(***************************************************************************)
(* What the documentation says and the code does not keep                  *)
(***************************************************************************)
\* docs/security-model.md:304, "Events are written in the same transaction as
\* the action they record": each USER_DELETED event would remove an account.
\* A removal that read a row before another removal, or the deletion of its
\* tenant, took it commits one too, of a DELETE that matches nothing.
EventsRemove ==
  [][\A u \in Ids : deleted'[u] > deleted[u] => state[u] = "live"]_vars
=============================================================================
