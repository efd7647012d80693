--------------------------- MODULE LoginThrottle ---------------------------
(***************************************************************************)
(* The limiter of failed sign-ins: one counter in Redis per address signed *)
(* in with and one per address signed in from, read before a password is   *)
(* verified and written after it was refused.  Requests interleave at      *)
(* every Redis command, counters expire, and the limiter fails open.       *)
(***************************************************************************)
EXTENDS Naturals, FiniteSets

CONSTANTS
  Emails,     \* addresses in the sign-in form, as the keys normalise them
  Ips,        \* source addresses
  Requests,   \* sign-in requests handled at once
  Limit,      \* settings.login_max_attempts
  Window,     \* settings.login_attempt_window_seconds, in ticks
  HalfSecond, \* ticks of half a second; Redis keeps its expiries in milliseconds
  Faults,     \* which Redis calls may raise, and "stop": the API process dies
  MaxCount    \* bound: no new attempt on a counter that got this far

FaultKinds == {"check", "record", "reset", "stop"}

ASSUME ThrottleAssumption ==
  /\ Limit \in Nat \ {0}
  /\ Window \in Nat \ {0}
  /\ HalfSecond \in Nat \ {0}
  /\ MaxCount \in Nat
  /\ Faults \subseteq FaultKinds
  /\ IsFiniteSet(Requests)
  /\ Emails # {} /\ Ips # {} /\ Emails \cap Ips = {}

Scopes == Emails \cup Ips

VARIABLES
  count,    \* [Scopes -> Nat]: failed attempts, 0 for a key that does not exist
  ttl,      \* [Scopes -> 0..Window]: what is left of its expiry, 0 for none
  waived,   \* scopes that were let through at their limit because Redis had no
            \* answer, or their counter no expiry that was half a second away
  orphaned, \* scopes whose counter lost the request that was to set its expiry
  request   \* [Requests -> Request]

vars == <<count, ttl, waived, orphaned, request>>

Phases == {"idle", "verify", "count email", "arm email", "count ip", "arm ip", "reset"}

Request == [phase : Phases, email : Emails, ip : Ips]

Idle == [phase |-> "idle", email |-> CHOOSE e \in Emails : TRUE, ip |-> CHOOSE i \in Ips : TRUE]

TypeOK ==
  /\ count \in [Scopes -> Nat]
  /\ ttl \in [Scopes -> 0..Window]
  /\ waived \subseteq Scopes /\ orphaned \subseteq Scopes
  /\ request \in [Requests -> Request]
  /\ \A k \in Scopes : ttl[k] > 0 => count[k] > 0

Init ==
  /\ count = [k \in Scopes |-> 0]
  /\ ttl = [k \in Scopes |-> 0]
  /\ waived = {} /\ orphaned = {}
  /\ request = [r \in Requests |-> Idle]

Keys(r)  == {request[r].email, request[r].ip}

\* The requests that are about to give scope k its expiry.
Arming(k) ==
  {r \in Requests : \/ request[r].phase = "arm email" /\ k = request[r].email
                    \/ request[r].phase = "arm ip" /\ k = request[r].ip}

\* A request that has been answered is idle again.
Goto(r, phase) ==
  request' = IF phase = "idle" THEN [request EXCEPT ![r] = Idle]
                               ELSE [request EXCEPT ![r].phase = phase]

\* The answer to TTL counts seconds and is rounded to the nearest: 0 in the last
\* half second of an expiry.  (A key without one answers -1, which the handler
\* treats as it does 0.)
SecondsLeft(k) == (ttl[k] + HalfSecond) \div (2 * HalfSecond)

\* Mutant of HeldBack: the last permitted attempt is one too many.
HeldBackLate(k) == count[k] > Limit /\ SecondsLeft(k) > 0

\* A scope at its limit refuses for the seconds that are left of its window, and
\* 0 of them read as permission.
HeldBack(k) == count[k] >= Limit /\ SecondsLeft(k) > 0

\* check_login_allowed: four reads sent in one batch.  A refusal is answered
\* at once and counts nothing.
Check(r, e, i) ==
  /\ request[r].phase = "idle"
  /\ count[e] < MaxCount /\ count[i] < MaxCount
  /\ ~HeldBack(e) /\ ~HeldBack(i)
  /\ request' = [request EXCEPT ![r] = [phase |-> "verify", email |-> e, ip |-> i]]
  /\ waived' = waived \cup {k \in {e, i} : count[k] >= Limit /\ ttl[k] < HalfSecond}
  /\ UNCHANGED <<count, ttl, orphaned>>

\* The limiter fails open: without an answer from Redis the attempt goes on.
CheckFails(r, e, i) ==
  /\ "check" \in Faults
  /\ request[r].phase = "idle"
  /\ count[e] < MaxCount /\ count[i] < MaxCount
  /\ request' = [request EXCEPT ![r] = [phase |-> "verify", email |-> e, ip |-> i]]
  /\ waived' = waived \cup {e, i}
  /\ UNCHANGED <<count, ttl, orphaned>>

\* The account is read and the password verified: a wrong password, an unknown
\* address and a disabled account are all failures.
Verify(r) ==
  /\ request[r].phase = "verify"
  /\ \E next \in {"count email", "reset"} : Goto(r, next)
  /\ UNCHANGED <<count, ttl, waived, orphaned>>

\* INCR, which creates the key with 1 and no expiry.
Increment(r, k, arm, next) ==
  /\ count' = [count EXCEPT ![k] = @ + 1]
  /\ Goto(r, IF count[k] = 0 THEN arm ELSE next)
  /\ UNCHANGED <<ttl, waived, orphaned>>

\* Mutant of Arm: the key need not be there any more.
ArmAnything(r, k, next) ==
  /\ ttl' = [ttl EXCEPT ![k] = Window]
  /\ orphaned' = orphaned \ {k}
  /\ Goto(r, next)
  /\ UNCHANGED <<count, waived>>

\* EXPIRE, sent by the request whose INCR returned 1; no effect on a key that
\* is gone, and the same effect on one that was created anew.
Arm(r, k, next) ==
  /\ ttl' = [ttl EXCEPT ![k] = IF count[k] > 0 THEN Window ELSE 0]
  /\ orphaned' = orphaned \ {k}
  /\ Goto(r, next)
  /\ UNCHANGED <<count, waived>>

\* Mutant of Record: the counters are kept by sign-ins without an expiry.
RecordNeverArms(r) ==
  \/ request[r].phase = "count email" /\ Increment(r, request[r].email, "count ip", "count ip")
  \/ request[r].phase = "count ip"    /\ Increment(r, request[r].ip, "idle", "idle")

\* record_failed_login, one command at a time; then the 401.
Record(r) ==
  LET e == request[r].email
      i == request[r].ip
  IN  \/ request[r].phase = "count email" /\ Increment(r, e, "arm email", "count ip")
      \/ request[r].phase = "arm email"   /\ Arm(r, e, "count ip")
      \/ request[r].phase = "count ip"    /\ Increment(r, i, "arm ip", "idle")
      \/ request[r].phase = "arm ip"      /\ Arm(r, i, "idle")

\* A request that ends between INCR and EXPIRE leaves its counter as it is.
Abandon(r) ==
  /\ orphaned' = orphaned \cup {k \in Scopes : r \in Arming(k) /\ count[k] > 0 /\ ttl[k] = 0}
  /\ Goto(r, "idle")
  /\ UNCHANGED <<count, ttl, waived>>

\* Whatever was not recorded stays unrecorded; the 401 is sent all the same.
RecordFails(r) ==
  /\ "record" \in Faults
  /\ request[r].phase \in {"count email", "arm email", "count ip", "arm ip"}
  /\ Abandon(r)

\* reset_login_counters: one DEL of both keys, then the token.
Reset(r) ==
  /\ request[r].phase = "reset"
  /\ count' = [k \in Scopes |-> IF k \in Keys(r) THEN 0 ELSE count[k]]
  /\ ttl' = [k \in Scopes |-> IF k \in Keys(r) THEN 0 ELSE ttl[k]]
  /\ waived' = waived \ Keys(r)
  /\ orphaned' = orphaned \ Keys(r)
  /\ Goto(r, "idle")

ResetFails(r) ==
  /\ "reset" \in Faults
  /\ request[r].phase = "reset"
  /\ Goto(r, "idle")
  /\ UNCHANGED <<count, ttl, waived, orphaned>>

\* The API process dies between two commands.
Stop(r) ==
  /\ "stop" \in Faults
  /\ request[r].phase # "idle"
  /\ Abandon(r)

\* Time passes in Redis: an expiry runs down and takes its key with it.
Expired == {k \in Scopes : ttl[k] = 1}

Tick ==
  /\ \E k \in Scopes : ttl[k] > 0
  /\ ttl' = [k \in Scopes |-> IF ttl[k] > 0 THEN ttl[k] - 1 ELSE 0]
  /\ count' = [k \in Scopes |-> IF k \in Expired THEN 0 ELSE count[k]]
  /\ waived' = waived \ Expired
  /\ orphaned' = orphaned \ Expired
  /\ UNCHANGED request

Handle(r) == Verify(r) \/ Record(r) \/ Reset(r)

Next ==
  \/ \E r \in Requests, e \in Emails, i \in Ips : Check(r, e, i) \/ CheckFails(r, e, i)
  \/ \E r \in Requests : Handle(r) \/ RecordFails(r) \/ ResetFails(r) \/ Stop(r)
  \/ Tick

\* Requests that were begun run to their end, and time passes.
Fairness == WF_vars(Tick) /\ \A r \in Requests : WF_vars(Handle(r))

Spec == Init /\ [][Next]_vars /\ Fairness

(***************************************************************************)
(* Properties                                                              *)
(***************************************************************************)
\* Requests past the check that may still add a failure to scope k.
Uncounted(k) ==
  {r \in Requests :
     \/ request[r].phase \in {"verify", "count email"} /\ k \in Keys(r)
     \/ request[r].phase \in {"arm email", "count ip"} /\ k = request[r].ip}

\* The check does not reserve the attempt it permits, so attempts in progress
\* can exceed the limit; but a scope never sees more than one failure short of
\* the limit plus one per request in progress, unless somebody tried it while
\* Redis did not answer, or when it was at its limit with no expiry set or less
\* than half a second of it left.
GuessesBounded ==
  \A k \in Scopes \ waived :
    count[k] + Cardinality(Uncounted(k)) <= Limit - 1 + Cardinality(Requests)

\* INCR and EXPIRE are two commands, and a success may delete the key between
\* them, or a failure create it anew: still, a counter without an expiry has a
\* request on its way to give it one, unless that request ended between the two.
UntimedIsBeingArmed ==
  \A k \in Scopes : count[k] > 0 /\ ttl[k] = 0 => Arming(k) # {} \/ k \in orphaned

\* "The counter clears itself once the window passes": whatever fails and
\* succeeds meanwhile, unless a request ends between INCR and EXPIRE.
CountersClear == \A k \in Scopes : count[k] > 0 ~> count[k] = 0 \/ k \in orphaned

(***************************************************************************)
(* What the documentation says and the code does not keep                  *)
(***************************************************************************)
\* "once a scope reaches the limit its attempts are refused until the window
\* expires": the answer of TTL is 0 before that, in the last half second.
RefusedUntilExpiry ==
  [][\A r \in Requests :
       request[r].phase = "idle" /\ request'[r].phase = "verify" =>
         \A k \in Keys(r)' : count[k] < Limit \/ ttl[k] = 0]_vars
=============================================================================
