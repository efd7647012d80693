------------------------ MODULE LoginThrottleProofs ------------------------
(***************************************************************************)
(* What holds of LoginThrottle for every number of accounts, addresses and *)
(* concurrent requests: its types, that every counter has an expiry or is  *)
(* about to get one, and the bound on the guesses of a window.             *)
(***************************************************************************)
EXTENDS LoginThrottle, FiniteSetTheorems, TLAPS

(***************************************************************************)
(* Types                                                                   *)
(***************************************************************************)
LEMMA IdleIsARequest == Idle \in Request
  BY ThrottleAssumption DEF Idle, Request, Phases

\* A request's move changes its phase, its scopes only when it ends, and no
\* other request.
LEMMA GotoEffect ==
  ASSUME TypeOK, NEW r \in Requests, NEW phase \in Phases, Goto(r, phase)
  PROVE  /\ request' \in [Requests -> Request]
         /\ \A q \in Requests : q # r => request'[q] = request[q]
         /\ request'[r].phase = phase
         /\ phase # "idle" => /\ request'[r].email = request[r].email
                              /\ request'[r].ip = request[r].ip
<1>1. request \in [Requests -> Request]
  BY DEF TypeOK
<1>2. CASE phase = "idle"
  <2>1. request' = [request EXCEPT ![r] = Idle]
    BY <1>2 DEF Goto
  <2>2. Idle.phase = "idle"
    BY DEF Idle
  <2>3. QED
    BY <1>1, <1>2, <2>1, <2>2, IdleIsARequest
<1>3. CASE phase # "idle"
  <2>1. request' = [request EXCEPT ![r].phase = phase]
    BY <1>3 DEF Goto
  <2>2. QED
    BY <1>1, <1>3, <2>1 DEF Request
<1>4. QED
  BY <1>2, <1>3

\* The two commands of record_failed_login, as facts about one key.
LEMMA IncrementEffect ==
  ASSUME TypeOK, NEW r \in Requests, NEW k \in Scopes, NEW arm \in Phases, NEW next \in Phases,
         Increment(r, k, arm, next)
  PROVE  /\ count' \in [Scopes -> Nat]
         /\ count'[k] = count[k] + 1
         /\ \A j \in Scopes : j # k => count'[j] = count[j]
         /\ UNCHANGED <<ttl, waived, orphaned>>
         /\ IF count[k] = 0 THEN Goto(r, arm) ELSE Goto(r, next)
         /\ count[k] \in Nat
<1>1. count \in [Scopes -> Nat]
  BY DEF TypeOK
<1>2. count' = [count EXCEPT ![k] = @ + 1] /\ UNCHANGED <<ttl, waived, orphaned>>
  BY DEF Increment
<1>3. Goto(r, IF count[k] = 0 THEN arm ELSE next)
  BY DEF Increment
<1>4. IF count[k] = 0 THEN Goto(r, arm) ELSE Goto(r, next)
  BY <1>3
<1>5. QED
  BY <1>1, <1>2, <1>4

LEMMA ArmEffect ==
  ASSUME TypeOK, NEW r \in Requests, NEW k \in Scopes, NEW next \in Phases, Arm(r, k, next)
  PROVE  /\ ttl' \in [Scopes -> 0..Window]
         /\ count[k] > 0 => ttl'[k] > 0
         /\ ttl'[k] > 0 => count[k] > 0
         /\ \A j \in Scopes : j # k => ttl'[j] = ttl[j]
         /\ UNCHANGED <<count, waived>> /\ orphaned' = orphaned \ {k}
         /\ Goto(r, next)
<1>1. count \in [Scopes -> Nat] /\ ttl \in [Scopes -> 0..Window]
  BY DEF TypeOK
<1>2. ttl' = [ttl EXCEPT ![k] = IF count[k] > 0 THEN Window ELSE 0]
  BY DEF Arm
<1>3. Goto(r, next) /\ UNCHANGED <<count, waived>> /\ orphaned' = orphaned \ {k}
  BY DEF Arm
<1>4. QED
  BY <1>1, <1>2, <1>3, ThrottleAssumption

\* A check that let the attempt pass.
LEMMA CheckEffect ==
  ASSUME TypeOK, NEW r \in Requests, NEW e \in Emails, NEW i \in Ips,
         Check(r, e, i) \/ CheckFails(r, e, i)
  PROVE  /\ request' \in [Requests -> Request]
         /\ \A q \in Requests : q # r => request'[q] = request[q]
         /\ request'[r] = [phase |-> "verify", email |-> e, ip |-> i]
         /\ request[r].phase = "idle"
         /\ waived \subseteq waived' /\ waived' \subseteq waived \cup {e, i}
         /\ UNCHANGED <<count, ttl, orphaned>>
<1>1. [phase |-> "verify", email |-> e, ip |-> i] \in Request
  BY DEF Request, Phases
<1>2. request \in [Requests -> Request]
  BY DEF TypeOK
<1>3. /\ request' = [request EXCEPT ![r] = [phase |-> "verify", email |-> e, ip |-> i]]
      /\ request[r].phase = "idle"
      /\ UNCHANGED <<count, ttl, orphaned>>
  BY DEF Check, CheckFails
<1>4. waived \subseteq waived' /\ waived' \subseteq waived \cup {e, i}
  BY DEF Check, CheckFails
<1>5. QED
  BY <1>1, <1>2, <1>3, <1>4

\* A request that fails to record, or stops, leaves the counters alone.
LEMMA AbandonEffect ==
  ASSUME TypeOK, NEW r \in Requests, RecordFails(r) \/ Stop(r)
  PROVE  /\ Goto(r, "idle") /\ UNCHANGED <<count, ttl, waived>>
         /\ orphaned \subseteq orphaned' /\ orphaned' \subseteq Scopes
         /\ \A k \in Scopes : r \in Arming(k) /\ count[k] > 0 /\ ttl[k] = 0 => k \in orphaned'
<1>1. Abandon(r)
  BY DEF RecordFails, Stop
<1>2. orphaned \subseteq Scopes
  BY DEF TypeOK
<1>3. QED
  BY <1>1, <1>2 DEF Abandon

\* A sign-in that succeeded clears its two scopes and no other.
LEMMA ResetEffect ==
  ASSUME TypeOK, NEW r \in Requests, Reset(r)
  PROVE  /\ count' \in [Scopes -> Nat] /\ ttl' \in [Scopes -> 0..Window]
         /\ \A k \in Scopes : k \in Keys(r) => count'[k] = 0 /\ ttl'[k] = 0
         /\ \A k \in Scopes : k \notin Keys(r) => count'[k] = count[k] /\ ttl'[k] = ttl[k]
         /\ waived' = waived \ Keys(r) /\ orphaned' = orphaned \ Keys(r)
         /\ request[r].phase = "reset" /\ Goto(r, "idle")
<1>1. count \in [Scopes -> Nat] /\ ttl \in [Scopes -> 0..Window]
  BY DEF TypeOK
<1>2. /\ count' = [k \in Scopes |-> IF k \in Keys(r) THEN 0 ELSE count[k]]
      /\ ttl' = [k \in Scopes |-> IF k \in Keys(r) THEN 0 ELSE ttl[k]]
      /\ waived' = waived \ Keys(r) /\ orphaned' = orphaned \ Keys(r)
      /\ request[r].phase = "reset" /\ Goto(r, "idle")
  BY DEF Reset
<1>3. 0 \in Nat /\ 0 \in 0..Window
  BY ThrottleAssumption
<1>4. QED
  BY <1>1, <1>2, <1>3

\* Time takes away exactly the counters whose expiry runs out.
LEMMA TickEffect ==
  ASSUME TypeOK, Tick
  PROVE  /\ count' \in [Scopes -> Nat] /\ ttl' \in [Scopes -> 0..Window]
         /\ \A k \in Scopes : k \in Expired => count'[k] = 0 /\ ttl'[k] = 0
         /\ \A k \in Scopes : k \notin Expired =>
              count'[k] = count[k] /\ (ttl'[k] = 0 <=> ttl[k] = 0)
         /\ waived' = waived \ Expired /\ orphaned' = orphaned \ Expired
         /\ UNCHANGED request
<1>1. count \in [Scopes -> Nat] /\ ttl \in [Scopes -> 0..Window]
  BY DEF TypeOK
<1>2. /\ ttl' = [k \in Scopes |-> IF ttl[k] > 0 THEN ttl[k] - 1 ELSE 0]
      /\ count' = [k \in Scopes |-> IF k \in Expired THEN 0 ELSE count[k]]
      /\ waived' = waived \ Expired /\ orphaned' = orphaned \ Expired
      /\ UNCHANGED request
  BY DEF Tick
<1>3. \A k \in Scopes : k \in Expired <=> ttl[k] = 1
  BY DEF Expired
<1>4. QED
  BY <1>1, <1>2, <1>3, ThrottleAssumption

LEMMA RecordType ==
  ASSUME TypeOK, NEW r \in Requests, Record(r)
  PROVE  TypeOK'
<1> DEFINE e == request[r].email
           i == request[r].ip
<1>1. e \in Scopes /\ i \in Scopes
  BY DEF TypeOK, Request, Scopes
<1>2. ASSUME NEW k \in Scopes, NEW arm \in Phases, NEW next \in Phases,
             Increment(r, k, arm, next)
      PROVE  TypeOK'
  <2>1. request' \in [Requests -> Request]
    <3>1. Goto(r, arm) \/ Goto(r, next)
      BY <1>2, IncrementEffect
    <3>2. QED
      BY <3>1, GotoEffect
  <2>2. QED
    BY <1>2, <2>1, IncrementEffect DEF TypeOK
<1>3. ASSUME NEW k \in Scopes, NEW next \in Phases, Arm(r, k, next)
      PROVE  TypeOK'
  <2>1. request' \in [Requests -> Request]
    BY <1>3, ArmEffect, GotoEffect
  <2>2. QED
    BY <1>3, <2>1, ArmEffect DEF TypeOK
<1>4. /\ "count email" \in Phases /\ "arm email" \in Phases
      /\ "count ip" \in Phases /\ "arm ip" \in Phases /\ "idle" \in Phases
  BY DEF Phases
<1>5. CASE Increment(r, e, "arm email", "count ip")
  BY <1>1, <1>2, <1>4, <1>5
<1>6. CASE Arm(r, e, "count ip")
  BY <1>1, <1>3, <1>4, <1>6
<1>7. CASE Increment(r, i, "arm ip", "idle")
  BY <1>1, <1>2, <1>4, <1>7
<1>8. CASE Arm(r, i, "idle")
  BY <1>1, <1>3, <1>4, <1>8
<1>9. QED
  BY <1>5, <1>6, <1>7, <1>8 DEF Record

LEMMA NextType == TypeOK /\ [Next]_vars => TypeOK'
<1> SUFFICES ASSUME TypeOK, [Next]_vars PROVE TypeOK'
  OBVIOUS
<1>1. ASSUME NEW r \in Requests, NEW e \in Emails, NEW i \in Ips,
             Check(r, e, i) \/ CheckFails(r, e, i)
      PROVE  TypeOK'
  <2>1. waived' \subseteq Scopes
    <3>1. waived' \subseteq waived \cup {e, i}
      BY <1>1, CheckEffect
    <3>2. waived \subseteq Scopes
      BY DEF TypeOK
    <3>3. QED
      BY <3>1, <3>2 DEF Scopes
  <2>2. request' \in [Requests -> Request] /\ UNCHANGED <<count, ttl, orphaned>>
    BY <1>1, CheckEffect
  <2>3. QED
    BY <2>1, <2>2 DEF TypeOK
<1>2. ASSUME NEW r \in Requests, Verify(r) \/ ResetFails(r) PROVE TypeOK'
  <2>1. request' \in [Requests -> Request]
    BY <1>2, GotoEffect DEF Verify, ResetFails, Phases
  <2>2. QED
    BY <1>2, <2>1 DEF TypeOK, Verify, ResetFails
<1>20. ASSUME NEW r \in Requests, RecordFails(r) \/ Stop(r) PROVE TypeOK'
  <2>1. request' \in [Requests -> Request]
    BY <1>20, AbandonEffect, GotoEffect DEF Phases
  <2>2. QED
    BY <1>20, <2>1, AbandonEffect DEF TypeOK
<1>3. ASSUME NEW r \in Requests, Record(r) PROVE TypeOK'
  BY <1>3, RecordType
<1>4. ASSUME NEW r \in Requests, Reset(r) PROVE TypeOK'
  <2>1. request' \in [Requests -> Request]
    BY <1>4, ResetEffect, GotoEffect DEF Phases
  <2>2. QED
    BY <1>4, <2>1, ResetEffect DEF TypeOK
<1>5. ASSUME Tick PROVE TypeOK'
  BY <1>5, TickEffect DEF TypeOK
<1>6. CASE UNCHANGED vars
  BY <1>6 DEF TypeOK, vars
<1>7. QED
  BY <1>1, <1>2, <1>20, <1>3, <1>4, <1>5, <1>6 DEF Next, Handle

\* The counters, expiries and requests of every instance have their types, and
\* no key has an expiry without a count.
THEOREM TypeCorrect == Spec => []TypeOK
<1>1. Init => TypeOK
  BY IdleIsARequest, ThrottleAssumption DEF Init, TypeOK
<1>2. QED
  BY <1>1, NextType, PTL DEF Spec

(***************************************************************************)
(* Expiries                                                                *)
(***************************************************************************)
\* INCR of a counter that has no expiry leaves somebody to set it.
LEMMA RecordTimes ==
  ASSUME TypeOK, UntimedIsBeingArmed, NEW r \in Requests, Record(r)
  PROVE  UntimedIsBeingArmed'
<1> DEFINE e == request[r].email
           i == request[r].ip
<1> SUFFICES ASSUME NEW k \in Scopes, count'[k] > 0, ttl'[k] = 0
             PROVE  Arming(k)' # {} \/ k \in orphaned'
  BY DEF UntimedIsBeingArmed
<1>0. /\ "count email" \in Phases /\ "arm email" \in Phases
      /\ "count ip" \in Phases /\ "arm ip" \in Phases /\ "idle" \in Phases
  BY DEF Phases
\* Another request that was to set the expiry of k still is.
<1>1. ASSUME NEW phase \in Phases, Goto(r, phase), r \notin Arming(k),
             count[k] > 0, ttl[k] = 0, k \in orphaned => k \in orphaned'
      PROVE  Arming(k)' # {} \/ k \in orphaned'
  <2>1. CASE k \in orphaned
    BY <1>1, <2>1
  <2>2. CASE k \notin orphaned
    <3>1. PICK q \in Arming(k) : TRUE
      BY <1>1, <2>2 DEF UntimedIsBeingArmed
    <3>2. q \in Requests /\ request'[q] = request[q]
      BY <1>1, <3>1, GotoEffect DEF Arming
    <3>3. QED
      BY <3>1, <3>2 DEF Arming
  <2>3. QED
    BY <2>1, <2>2
<1>00. e \in Scopes /\ i \in Scopes
  BY DEF TypeOK, Request, Scopes
<1>2. CASE request[r].phase = "count email" /\ Increment(r, e, "arm email", "count ip")
  <2>1. CASE k = e /\ count[k] = 0
    <3>1. Goto(r, "arm email")
      BY <1>0, <1>00, <1>2, <2>1, IncrementEffect
    <3>2. /\ request'[r].phase = "arm email"
          /\ request'[r].email = e /\ request'[r].ip = i
      BY <1>0, <3>1, GotoEffect
    <3>3. r \in Arming(k)'
      BY <2>1, <3>2 DEF Arming
    <3>4. QED
      BY <3>3
  <2>2. CASE ~(k = e /\ count[k] = 0)
    <3>1. count[k] > 0 /\ ttl[k] = 0 /\ r \notin Arming(k) /\ orphaned' = orphaned
      <4>1. /\ count[e] \in Nat /\ count'[e] = count[e] + 1
            /\ \A j \in Scopes : j # e => count'[j] = count[j]
            /\ ttl' = ttl /\ orphaned' = orphaned
        BY <1>00, <1>2, IncrementEffect DEF Phases
      <4>2. r \notin Arming(k)
        BY <1>2 DEF Arming
      <4>3. QED
        BY <1>00, <2>2, <4>1, <4>2
    <3>2. Goto(r, "arm email") \/ Goto(r, "count ip")
      BY <1>00, <1>2, IncrementEffect DEF Phases
    <3>3. QED
      BY <1>0, <1>1, <3>1, <3>2
  <2>3. QED
    BY <2>1, <2>2
<1>3. CASE request[r].phase = "count ip" /\ Increment(r, i, "arm ip", "idle")
  <2>1. CASE k = i /\ count[k] = 0
    <3>1. Goto(r, "arm ip")
      BY <1>0, <1>00, <1>3, <2>1, IncrementEffect
    <3>2. /\ request'[r].phase = "arm ip"
          /\ request'[r].email = e /\ request'[r].ip = i
      BY <1>0, <3>1, GotoEffect
    <3>3. r \in Arming(k)'
      BY <2>1, <3>2 DEF Arming
    <3>4. QED
      BY <3>3
  <2>2. CASE ~(k = i /\ count[k] = 0)
    <3>1. count[k] > 0 /\ ttl[k] = 0 /\ r \notin Arming(k) /\ orphaned' = orphaned
      <4>1. /\ count[i] \in Nat /\ count'[i] = count[i] + 1
            /\ \A j \in Scopes : j # i => count'[j] = count[j]
            /\ ttl' = ttl /\ orphaned' = orphaned
        BY <1>00, <1>3, IncrementEffect DEF Phases
      <4>2. r \notin Arming(k)
        BY <1>3 DEF Arming
      <4>3. QED
        BY <1>00, <2>2, <4>1, <4>2
    <3>2. Goto(r, "arm ip") \/ Goto(r, "idle")
      BY <1>00, <1>3, IncrementEffect DEF Phases
    <3>3. QED
      BY <1>0, <1>1, <3>1, <3>2
  <2>3. QED
    BY <2>1, <2>2
<1>4. CASE request[r].phase = "arm email" /\ Arm(r, e, "count ip")
  <2>1. k # e
    BY <1>4, ThrottleAssumption DEF Arm, TypeOK
  <2>2. /\ count[k] > 0 /\ ttl[k] = 0 /\ r \notin Arming(k)
        /\ k \in orphaned => k \in orphaned'
    BY <1>4, <2>1 DEF Arm, Arming, TypeOK
  <2>3. QED
    BY <1>0, <1>1, <1>4, <2>2 DEF Arm
<1>5. CASE request[r].phase = "arm ip" /\ Arm(r, i, "idle")
  <2>1. k # i
    BY <1>5, ThrottleAssumption DEF Arm, TypeOK
  <2>2. /\ count[k] > 0 /\ ttl[k] = 0 /\ r \notin Arming(k)
        /\ k \in orphaned => k \in orphaned'
    BY <1>5, <2>1 DEF Arm, Arming, TypeOK
  <2>3. QED
    BY <1>0, <1>1, <1>5, <2>2 DEF Arm
<1>6. QED
  BY <1>2, <1>3, <1>4, <1>5 DEF Record

LEMMA NextTimed == TypeOK /\ UntimedIsBeingArmed /\ [Next]_vars => UntimedIsBeingArmed'
<1> SUFFICES ASSUME TypeOK, UntimedIsBeingArmed, [Next]_vars
             PROVE  UntimedIsBeingArmed'
  OBVIOUS
\* Who is on the way to set an expiry stays so as long as it does not move,
\* and whoever gives up on its way leaves an orphan.
<1>0. ASSUME NEW r \in Requests,
             \A q \in Requests \ {r} : request'[q] = request[q],
             \A k \in Scopes : count'[k] > 0 /\ ttl'[k] = 0 =>
               /\ count[k] > 0 /\ ttl[k] = 0
               /\ k \in orphaned => k \in orphaned'
               /\ r \in Arming(k) => k \in orphaned'
      PROVE  UntimedIsBeingArmed'
  <2> SUFFICES ASSUME NEW k \in Scopes, count'[k] > 0, ttl'[k] = 0, k \notin orphaned'
               PROVE  Arming(k)' # {}
    BY DEF UntimedIsBeingArmed
  <2>1. PICK q \in Arming(k) : TRUE
    BY <1>0 DEF UntimedIsBeingArmed
  <2>2. q \in Requests /\ q # r
    BY <1>0, <2>1 DEF Arming
  <2>3. QED
    BY <1>0, <2>1, <2>2 DEF Arming
<1>1. ASSUME NEW r \in Requests, NEW e \in Emails, NEW i \in Ips,
             Check(r, e, i) \/ CheckFails(r, e, i)
      PROVE  UntimedIsBeingArmed'
  <2>1. \A k \in Scopes : r \notin Arming(k)
    BY <1>1, CheckEffect DEF Arming
  <2>2. QED
    BY <1>0, <1>1, <2>1, CheckEffect
<1>2. ASSUME NEW r \in Requests, Verify(r) \/ ResetFails(r)
      PROVE  UntimedIsBeingArmed'
  <2>1. PICK phase \in Phases : Goto(r, phase)
    BY <1>2 DEF Verify, ResetFails, Phases
  <2>2. \A q \in Requests \ {r} : request'[q] = request[q]
    BY <2>1, GotoEffect
  <2>3. (\A k \in Scopes : r \notin Arming(k)) /\ UNCHANGED <<count, ttl, orphaned>>
    BY <1>2 DEF Arming, Verify, ResetFails
  <2>4. QED
    BY <1>0, <2>2, <2>3
<1>20. ASSUME NEW r \in Requests, RecordFails(r) \/ Stop(r)
      PROVE  UntimedIsBeingArmed'
  <2>1. \A q \in Requests \ {r} : request'[q] = request[q]
    BY <1>20, AbandonEffect, GotoEffect DEF Phases
  <2>2. QED
    BY <1>0, <1>20, <2>1, AbandonEffect
<1>3. ASSUME NEW r \in Requests, Record(r) PROVE UntimedIsBeingArmed'
  BY <1>3, RecordTimes
<1>4. ASSUME NEW r \in Requests, Reset(r) PROVE UntimedIsBeingArmed'
  <2>1. \A q \in Requests \ {r} : request'[q] = request[q]
    BY <1>4, ResetEffect, GotoEffect DEF Phases
  <2>2. \A k \in Scopes : count'[k] > 0 /\ ttl'[k] = 0 =>
          count[k] > 0 /\ ttl[k] = 0 /\ (k \in orphaned => k \in orphaned')
    BY <1>4, ResetEffect
  <2>3. \A k \in Scopes : r \notin Arming(k)
    BY <1>4, ResetEffect DEF Arming
  <2>4. QED
    BY <1>0, <2>1, <2>2, <2>3
<1>5. ASSUME Tick PROVE UntimedIsBeingArmed'
  <2>1. \A k \in Scopes : count'[k] > 0 /\ ttl'[k] = 0 =>
          count[k] > 0 /\ ttl[k] = 0 /\ (k \in orphaned => k \in orphaned')
    BY <1>5, TickEffect
  <2>2. QED
    BY <1>5, <2>1 DEF UntimedIsBeingArmed, Arming, Tick
<1>6. CASE UNCHANGED vars
  BY <1>6 DEF UntimedIsBeingArmed, Arming, vars
<1>7. QED
  BY <1>1, <1>2, <1>20, <1>3, <1>4, <1>5, <1>6 DEF Next, Handle

\* No counter is left without an expiry, whatever other requests delete or
\* create anew between INCR and EXPIRE, unless the request that was to set it
\* failed or stopped there.
THEOREM EveryCounterIsTimed == Spec => []UntimedIsBeingArmed
<1>1. Init => UntimedIsBeingArmed
  BY DEF Init, UntimedIsBeingArmed
<1>2. QED
  BY <1>1, TypeCorrect, NextTimed, PTL DEF Spec

(***************************************************************************)
(* The limit                                                               *)
(***************************************************************************)
LEMMA UncountedFinite ==
  ASSUME NEW k
  PROVE  /\ IsFiniteSet(Uncounted(k)) /\ Cardinality(Uncounted(k)) \in Nat
         /\ Cardinality(Uncounted(k)) <= Cardinality(Requests)
         /\ Cardinality(Requests) \in Nat
<1>1. Uncounted(k) \subseteq Requests
  BY DEF Uncounted
<1>2. QED
  BY <1>1, FS_Subset, FS_CardinalityType, ThrottleAssumption

LEMMA UncountedFiniteNext ==
  ASSUME NEW k
  PROVE  /\ IsFiniteSet(Uncounted(k)') /\ Cardinality(Uncounted(k)') \in Nat
         /\ Cardinality(Uncounted(k)') <= Cardinality(Requests)
<1>1. Uncounted(k)' \subseteq Requests
  BY DEF Uncounted
<1>2. QED
  BY <1>1, FS_Subset, FS_CardinalityType, ThrottleAssumption

Within(k) == count[k] + Cardinality(Uncounted(k)) <= Limit - 1 + Cardinality(Requests)

\* A scope stays within its bound when nobody new may add to it ...
LEMMA StaysWithin ==
  ASSUME TypeOK, TypeOK', NEW k \in Scopes, Within(k),
         count'[k] <= count[k], Uncounted(k)' \subseteq Uncounted(k)
  PROVE  Within(k)'
<1>0. count[k] \in Nat /\ count'[k] \in Nat
  BY DEF TypeOK
<1>1. Cardinality(Uncounted(k)') <= Cardinality(Uncounted(k))
  BY UncountedFinite, FS_Subset
<1>2. QED
  BY <1>0, <1>1, UncountedFinite, UncountedFiniteNext, ThrottleAssumption DEF Within

LEMMA UnchangedWithin ==
  ASSUME TypeOK, NEW k \in Scopes, Within(k),
         count' = count, Uncounted(k)' \subseteq Uncounted(k)
  PROVE  Within(k)'
<1>1. Cardinality(Uncounted(k)') <= Cardinality(Uncounted(k))
  BY UncountedFinite, FS_Subset
<1>2. count[k] \in Nat /\ count'[k] = count[k]
  BY DEF TypeOK
<1>3. QED
  BY <1>1, <1>2, UncountedFinite, UncountedFiniteNext, ThrottleAssumption DEF Within

\* ... and when somebody who was about to add to it has done so.
LEMMA CountedWithin ==
  ASSUME TypeOK, TypeOK', NEW k \in Scopes, Within(k),
         NEW r \in Uncounted(k),
         count'[k] <= count[k] + 1, Uncounted(k)' \subseteq Uncounted(k) \ {r}
  PROVE  Within(k)'
<1>1. /\ IsFiniteSet(Uncounted(k) \ {r})
      /\ Cardinality(Uncounted(k) \ {r}) = Cardinality(Uncounted(k)) - 1
  BY UncountedFinite, FS_RemoveElement
<1>2. Cardinality(Uncounted(k)') <= Cardinality(Uncounted(k) \ {r})
  BY <1>1, FS_Subset
<1>3. QED
  BY <1>1, <1>2, UncountedFinite, UncountedFiniteNext, ThrottleAssumption DEF Within, TypeOK

\* A scope below its limit is within its bound however many are on their way.
LEMMA BelowIsWithin ==
  ASSUME TypeOK', NEW k \in Scopes, count'[k] < Limit
  PROVE  Within(k)'
  BY UncountedFinite, UncountedFiniteNext, ThrottleAssumption DEF Within, TypeOK

\* Who may still add to scope k after request r has moved to a phase.
LEMMA GotoUncounted ==
  ASSUME TypeOK, NEW r \in Requests, NEW phase \in Phases, Goto(r, phase), NEW k
  PROVE  /\ Uncounted(k)' \subseteq Uncounted(k) \cup {r}
         /\ r \in Uncounted(k)' =>
               \/ phase \in {"verify", "count email"} /\ k \in Keys(r)
               \/ phase \in {"arm email", "count ip"} /\ k = request[r].ip
<1>1. \A q \in Requests : q # r => request'[q] = request[q]
  BY GotoEffect
<1>2. Uncounted(k)' \subseteq Uncounted(k) \cup {r}
  BY <1>1 DEF Uncounted, Keys
<1>3. /\ request'[r].phase = phase
      /\ phase # "idle" => /\ request'[r].email = request[r].email
                           /\ request'[r].ip = request[r].ip
  BY GotoEffect
<1>4. QED
  BY <1>2, <1>3 DEF Uncounted, Keys

\* Whoever stops, or starts to clear its scopes, adds to none.
LEMMA LeavesUncounted ==
  ASSUME TypeOK, NEW r \in Requests, NEW k,
         Goto(r, "idle") \/ Goto(r, "arm ip") \/ Goto(r, "reset")
  PROVE  Uncounted(k)' \subseteq Uncounted(k) \ {r}
<1>1. PICK phase \in {"idle", "arm ip", "reset"} : Goto(r, phase)
  OBVIOUS
<1>2. phase \in Phases
  BY DEF Phases
<1>3. Uncounted(k)' \subseteq Uncounted(k) \cup {r}
  BY <1>1, <1>2, GotoUncounted
<1>4. r \notin Uncounted(k)'
  <2>1. ~(\/ phase \in {"verify", "count email"} /\ k \in Keys(r)
          \/ phase \in {"arm email", "count ip"} /\ k = request[r].ip)
    OBVIOUS
  <2>2. QED
    BY <1>1, <1>2, <2>1, GotoUncounted
<1>5. QED
  BY <1>3, <1>4

LEMMA RecordWithin ==
  ASSUME TypeOK, TypeOK', NEW r \in Requests, Record(r), NEW k \in Scopes, Within(k)
  PROVE  Within(k)'
<1> DEFINE e == request[r].email
           i == request[r].ip
<1>0. e \in Emails /\ i \in Ips /\ e # i
  BY ThrottleAssumption DEF TypeOK, Request
<1>00. e \in Scopes /\ i \in Scopes
  BY <1>0 DEF Scopes
<1>1. CASE request[r].phase = "count email" /\ Increment(r, e, "arm email", "count ip")
  <2>1. Goto(r, "arm email") \/ Goto(r, "count ip")
    BY <1>00, <1>1, IncrementEffect DEF Phases
  <2>2. /\ Uncounted(k)' \subseteq Uncounted(k) \cup {r}
        /\ r \in Uncounted(k)' => k = i
    BY <2>1, GotoUncounted DEF Phases
  <2>3. CASE k = e
    <3>1. r \in Uncounted(k) /\ Uncounted(k)' \subseteq Uncounted(k) \ {r}
      BY <1>0, <1>1, <2>2, <2>3 DEF Uncounted, Keys
    <3>2. count'[k] <= count[k] + 1
      <4>1. /\ count[e] \in Nat /\ count'[e] = count[e] + 1
            /\ \A j \in Scopes : j # e => count'[j] = count[j]
        BY <1>00, <1>1, IncrementEffect DEF Phases
      <4>2. QED
        BY <2>3, <4>1
    <3>3. QED
      BY <3>1, <3>2, CountedWithin
  <2>4. CASE k # e
    <3>1. Uncounted(k)' \subseteq Uncounted(k)
      BY <1>1, <2>2 DEF Uncounted, Keys
    <3>2. count'[k] <= count[k]
      <4>1. /\ count[e] \in Nat /\ count'[e] = count[e] + 1
            /\ \A j \in Scopes : j # e => count'[j] = count[j]
        BY <1>00, <1>1, IncrementEffect DEF Phases
      <4>2. count \in [Scopes -> Nat]
        BY DEF TypeOK
      <4>3. QED
        BY <2>4, <4>1, <4>2
    <3>3. QED
      BY <3>1, <3>2, StaysWithin
  <2>5. QED
    BY <2>3, <2>4
<1>2. CASE request[r].phase = "count ip" /\ Increment(r, i, "arm ip", "idle")
  <2>1. Goto(r, "arm ip") \/ Goto(r, "idle")
    BY <1>00, <1>2, IncrementEffect DEF Phases
  <2>2. Uncounted(k)' \subseteq Uncounted(k) \ {r}
    BY <2>1, LeavesUncounted
  <2>3. CASE k = i
    <3>1. r \in Uncounted(k)
      BY <1>2, <2>3 DEF Uncounted
    <3>2. count'[k] <= count[k] + 1
      <4>1. /\ count[i] \in Nat /\ count'[i] = count[i] + 1
            /\ \A j \in Scopes : j # i => count'[j] = count[j]
        BY <1>00, <1>2, IncrementEffect DEF Phases
      <4>2. QED
        BY <2>3, <4>1
    <3>3. QED
      BY <2>2, <3>1, <3>2, CountedWithin
  <2>4. CASE k # i
    <3>1. count'[k] <= count[k]
      <4>1. /\ count[i] \in Nat /\ count'[i] = count[i] + 1
            /\ \A j \in Scopes : j # i => count'[j] = count[j]
        BY <1>00, <1>2, IncrementEffect DEF Phases
      <4>2. count \in [Scopes -> Nat]
        BY DEF TypeOK
      <4>3. QED
        BY <2>4, <4>1, <4>2
    <3>2. QED
      BY <2>2, <3>1, StaysWithin
  <2>5. QED
    BY <2>3, <2>4
<1>3. CASE request[r].phase = "arm email" /\ Arm(r, e, "count ip")
  <2>1. /\ Uncounted(k)' \subseteq Uncounted(k) \cup {r}
        /\ r \in Uncounted(k)' => k = i
    BY <1>3, GotoUncounted DEF Arm, Phases
  <2>2. Uncounted(k)' \subseteq Uncounted(k)
    BY <1>3, <2>1 DEF Uncounted
  <2>3. count' = count
    BY <1>3 DEF Arm
  <2>4. QED
    BY <2>2, <2>3, UnchangedWithin
<1>4. CASE request[r].phase = "arm ip" /\ Arm(r, i, "idle")
  <2>1. Uncounted(k)' \subseteq Uncounted(k)
    BY <1>4, LeavesUncounted DEF Arm
  <2>2. count' = count
    BY <1>4 DEF Arm
  <2>3. QED
    BY <2>1, <2>2, UnchangedWithin
<1>5. QED
  BY <1>1, <1>2, <1>3, <1>4 DEF Record

\* The rounding of TTL: half a second left is answered as one second at least.
LEMMA RoundsUp ==
  ASSUME NEW h \in Nat \ {0}, NEW n \in Nat, n >= h
  PROVE  (n + h) \div (2 * h) > 0
<1> DEFINE d == 2 * h
           q == (n + h) \div d
           m == (n + h) % d
<1>1. d \in Nat \ {0} /\ n + h \in Nat /\ n + h >= d
  OBVIOUS
<1>2. q \in Int /\ m \in 0..(d - 1) /\ n + h = d * q + m
  BY <1>1
<1>3. ASSUME q <= 0 PROVE FALSE
  <2>1. d * q <= 0
    BY <1>1, <1>2, <1>3
  <2>2. QED
    BY <1>1, <1>2, <2>1
<1>4. QED
  BY <1>2, <1>3

LEMMA NextWithin == TypeOK /\ TypeOK' /\ GuessesBounded /\ [Next]_vars => GuessesBounded'
<1> SUFFICES ASSUME TypeOK, TypeOK', GuessesBounded, [Next]_vars,
                    NEW k \in Scopes, k \notin waived'
             PROVE  Within(k)'
  BY DEF GuessesBounded, Within
<1>0. k \notin waived => Within(k)
  BY DEF GuessesBounded, Within
\* A step that leaves the counters alone and lets nobody new count k.
<1>1. ASSUME k \notin waived, count' = count, Uncounted(k)' \subseteq Uncounted(k)
      PROVE  Within(k)'
  BY <1>0, <1>1, UnchangedWithin
<1>2. ASSUME NEW r \in Requests, NEW e \in Emails, NEW i \in Ips,
             Check(r, e, i) \/ CheckFails(r, e, i)
      PROVE  Within(k)'
  <2>1. CASE k \in {e, i}
    <3>1. count'[k] < Limit
      <4>1. Check(r, e, i) /\ ~HeldBack(k)
        BY <1>2, <2>1 DEF Check, CheckFails
      <4>2. ~(count[k] >= Limit /\ ttl[k] < HalfSecond)
        BY <2>1, <4>1 DEF Check
      <4>3. count[k] \in Nat /\ ttl[k] \in Nat /\ count' = count
        BY <4>1, ThrottleAssumption DEF TypeOK, Check
      <4>4. CASE ttl[k] < HalfSecond
        BY <4>2, <4>3, <4>4, ThrottleAssumption
      <4>5. CASE ttl[k] >= HalfSecond
        <5>1. SecondsLeft(k) > 0
          BY <4>3, <4>5, ThrottleAssumption, RoundsUp DEF SecondsLeft
        <5>2. QED
          BY <4>1, <4>3, <5>1, ThrottleAssumption DEF HeldBack
      <4>6. QED
        BY <4>3, <4>4, <4>5, ThrottleAssumption
    <3>2. QED
      BY <3>1, BelowIsWithin
  <2>2. CASE k \notin {e, i}
    <3>1. Uncounted(k)' \subseteq Uncounted(k)
      <4>1. /\ \A q \in Requests : q # r => request'[q] = request[q]
            /\ request'[r].email = e /\ request'[r].ip = i
        <5>1. request'[r] = [phase |-> "verify", email |-> e, ip |-> i]
          BY <1>2, CheckEffect
        <5>2. \A q \in Requests : q # r => request'[q] = request[q]
          BY <1>2, CheckEffect
        <5>3. QED
          BY <5>1, <5>2
      <4>2. r \notin Uncounted(k)'
        BY <2>2, <4>1 DEF Uncounted, Keys
      <4>3. Uncounted(k)' \subseteq Uncounted(k) \cup {r}
        BY <4>1 DEF Uncounted, Keys
      <4>4. QED
        BY <4>2, <4>3
    <3>2. k \notin waived /\ count' = count
      BY <1>2, CheckEffect
    <3>3. QED
      BY <1>1, <3>1, <3>2
  <2>3. QED
    BY <2>1, <2>2
<1>3. ASSUME NEW r \in Requests, Verify(r) PROVE Within(k)'
  <2>1. request[r].phase = "verify" /\ (Goto(r, "count email") \/ Goto(r, "reset"))
    BY <1>3 DEF Verify
  <2>2. /\ Uncounted(k)' \subseteq Uncounted(k) \cup {r}
        /\ r \in Uncounted(k)' => k \in Keys(r)
    BY <2>1, GotoUncounted DEF Phases
  <2>3. k \in Keys(r) => r \in Uncounted(k)
    BY <2>1 DEF Uncounted
  <2>4. k \notin waived /\ count' = count
    BY <1>3 DEF Verify
  <2>5. QED
    BY <1>1, <2>2, <2>3, <2>4
<1>4. ASSUME NEW r \in Requests, RecordFails(r) \/ ResetFails(r) \/ Stop(r)
      PROVE  Within(k)'
  <2>1. Goto(r, "idle") /\ k \notin waived /\ count' = count
    BY <1>4 DEF RecordFails, ResetFails, Stop, Abandon
  <2>2. Uncounted(k)' \subseteq Uncounted(k)
    BY <2>1, LeavesUncounted
  <2>3. QED
    BY <1>1, <2>1, <2>2
<1>5. ASSUME NEW r \in Requests, Record(r) PROVE Within(k)'
  <2>1. k \notin waived
    BY <1>5 DEF Record, Increment, Arm
  <2>2. QED
    BY <1>0, <1>5, <2>1, RecordWithin
<1>6. ASSUME NEW r \in Requests, Reset(r) PROVE Within(k)'
  <2>1. CASE k \in Keys(r)
    <3>1. count'[k] < Limit
      BY <1>6, <2>1, ResetEffect, ThrottleAssumption
    <3>2. QED
      BY <3>1, BelowIsWithin
  <2>2. CASE k \notin Keys(r)
    <3>1. Goto(r, "idle")
      BY <1>6, ResetEffect
    <3>2. Uncounted(k)' \subseteq Uncounted(k)
      BY <3>1, LeavesUncounted
    <3>3. count[k] \in Nat /\ count'[k] <= count[k] /\ k \notin waived
      BY <1>6, <2>2, ResetEffect DEF TypeOK
    <3>4. QED
      BY <1>0, <3>2, <3>3, StaysWithin
  <2>3. QED
    BY <2>1, <2>2
<1>7. ASSUME Tick PROVE Within(k)'
  <2>1. CASE k \in Expired
    <3>1. count'[k] < Limit
      BY <1>7, <2>1, TickEffect, ThrottleAssumption
    <3>2. QED
      BY <3>1, BelowIsWithin
  <2>2. CASE k \notin Expired
    <3>1. Uncounted(k)' \subseteq Uncounted(k)
      BY <1>7, TickEffect DEF Uncounted, Keys
    <3>2. count[k] \in Nat /\ count'[k] <= count[k] /\ k \notin waived
      BY <1>7, <2>2, TickEffect DEF TypeOK
    <3>3. QED
      BY <1>0, <3>1, <3>2, StaysWithin
  <2>3. QED
    BY <2>1, <2>2
<1>8. CASE UNCHANGED vars
  <2>1. Uncounted(k)' \subseteq Uncounted(k) /\ count' = count /\ k \notin waived
    BY <1>8 DEF vars, Uncounted, Keys
  <2>2. QED
    BY <1>1, <2>1
<1>9. QED
  BY <1>2, <1>3, <1>4, <1>5, <1>6, <1>7, <1>8 DEF Next, Handle

\* A scope never sees more failures in a window than one short of the limit plus
\* one per request that passed the check, for every limit, window and number of
\* concurrent requests and under every fault, unless it was tried while Redis did
\* not answer, or at its limit in the last half second of its window or without
\* an expiry.
THEOREM GuessesWithinLimit == Spec => []GuessesBounded
<1>1. Init => GuessesBounded
  <2> SUFFICES ASSUME Init, NEW k \in Scopes PROVE Within(k)
    BY DEF GuessesBounded, Within
  <2>1. count[k] = 0
    BY DEF Init
  <2>2. QED
    BY <2>1, UncountedFinite, ThrottleAssumption DEF Within
<1>2. QED
  BY <1>1, TypeCorrect, NextWithin, PTL DEF Spec
=============================================================================
