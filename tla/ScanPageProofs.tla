---------------------------- MODULE ScanPageProofs ----------------------------
(***************************************************************************)
(* What the page that follows scans never does, for any number of scans    *)
(* and of polls in flight: which states it can be in, that what it shows   *)
(* was once true of the scan whose answer it is, which answers stop its    *)
(* interval, and, while polls are answered in their order, that it does    *)
(* not stop asking about a scan it shows as unfinished.                    *)
(***************************************************************************)
EXTENDS ScanPage, TLAPS

Answers == Active \cup Terminal

(***************************************************************************)
(* The polls                                                               *)
(***************************************************************************)
LEMMA RemoveAtMembers ==
  ASSUME NEW S, NEW s \in Seq(S), NEW i \in DOMAIN s
  PROVE  /\ RemoveAt(s, i) \in Seq(S)
         /\ Len(RemoveAt(s, i)) = Len(s) - 1
         /\ DOMAIN RemoveAt(s, i) = 1..(Len(s) - 1)
         /\ \A k \in 1..(Len(s) - 1) :
              RemoveAt(s, i)[k] = IF k < i THEN s[k] ELSE s[k + 1]
<1> DEFINE a == SubSeq(s, 1, i - 1)
           b == SubSeq(s, i + 1, Len(s))
           N == Len(s)
<1>1. N \in Nat /\ DOMAIN s = 1..N /\ i \in 1..N
  OBVIOUS
<1>2. a \in Seq(S) /\ Len(a) = i - 1 /\ \A k \in 1..(i - 1) : a[k] = s[k]
  BY <1>1
<1>3. b \in Seq(S) /\ Len(b) = N - i /\ \A k \in 1..(N - i) : b[k] = s[k + i]
  BY <1>1
<1>4. RemoveAt(s, i) = a \o b
  BY DEF RemoveAt
<1> HIDE DEF a, b, N
<1>5. /\ a \o b \in Seq(S) /\ Len(a \o b) = Len(a) + Len(b)
      /\ \A k \in 1..(Len(a) + Len(b)) : (a \o b)[k] = IF k <= Len(a) THEN a[k] ELSE b[k - Len(a)]
  BY <1>2, <1>3
<1>6. Len(a) + Len(b) = N - 1 /\ DOMAIN (a \o b) = 1..(N - 1)
  BY <1>1, <1>2, <1>3, <1>5
<1>7. ASSUME NEW k \in 1..(N - 1)
      PROVE  (a \o b)[k] = IF k < i THEN s[k] ELSE s[k + 1]
  <2>1. CASE k < i
    BY <1>1, <1>2, <1>5, <1>6, <2>1
  <2>2. CASE ~(k < i)
    <3>1. k - (i - 1) \in 1..(N - i) /\ ~(k <= Len(a)) /\ (k - (i - 1)) + i = k + 1
      BY <1>1, <1>2, <2>2
    <3>2. (a \o b)[k] = b[k - (i - 1)]
      BY <1>2, <1>5, <1>6, <3>1
    <3>3. QED
      BY <1>3, <2>2, <3>1, <3>2
  <2>3. QED
    BY <2>1, <2>2
<1>8. QED
  BY <1>4, <1>5, <1>6, <1>7 DEF N

\* What is left when an answer is taken: each poll was there before, and they
\* keep their order.
LEMMA Taken ==
  ASSUME NEW S, NEW s \in Seq(S), NEW i \in DOMAIN s, NEW t, t = RemoveAt(s, i)
  PROVE  /\ t \in Seq(S) /\ Len(t) = Len(s) - 1
         /\ \A k \in DOMAIN t : \E l \in DOMAIN s : t[k] = s[l]
         /\ \A k, m \in DOMAIN t : k < m =>
              \E l, n \in DOMAIN s : l < n /\ t[k] = s[l] /\ t[m] = s[n]
<1> DEFINE N == Len(s)
           At(k) == IF k < i THEN k ELSE k + 1
<1>1. N \in Nat /\ DOMAIN s = 1..N /\ i \in 1..N
  OBVIOUS
<1>2. /\ t \in Seq(S) /\ Len(t) = N - 1 /\ DOMAIN t = 1..(N - 1)
      /\ \A k \in 1..(N - 1) : t[k] = s[At(k)]
  BY RemoveAtMembers
<1>3. \A k \in 1..(N - 1) : At(k) \in 1..N
  BY <1>1
<1>4. \A k, m \in 1..(N - 1) : k < m => At(k) < At(m)
  BY <1>1
<1> HIDE DEF At, N
<1>5. ASSUME NEW k \in DOMAIN t
      PROVE  \E l \in DOMAIN s : t[k] = s[l]
  BY <1>1, <1>2, <1>3
<1>6. ASSUME NEW k \in DOMAIN t, NEW m \in DOMAIN t, k < m
      PROVE  \E l, n \in DOMAIN s : l < n /\ t[k] = s[l] /\ t[m] = s[n]
  <2>1. /\ At(k) \in DOMAIN s /\ At(m) \in DOMAIN s /\ At(k) < At(m)
        /\ t[k] = s[At(k)] /\ t[m] = s[At(m)]
    BY <1>1, <1>2, <1>3, <1>4, <1>6
  <2>2. QED
    BY <2>1
<1>7. t \in Seq(S) /\ Len(t) = Len(s) - 1
  BY <1>2 DEF N
<1>8. QED
  BY <1>5, <1>6, <1>7

\* A clean-up changes nothing but whom a poll may tell.
LEMMA CleanedUp ==
  ASSUME NEW p \in Seq(Poll), NEW q, q = [i \in DOMAIN p |-> [p[i] EXCEPT !.live = FALSE]]
  PROVE  /\ q \in Seq(Poll) /\ Len(q) = Len(p) /\ DOMAIN q = DOMAIN p
         /\ \A i \in DOMAIN p : q[i].scan = p[i].scan /\ q[i].answer = p[i].answer /\ q[i].live = FALSE
<1>1. Len(p) \in Nat /\ DOMAIN p = 1..Len(p) /\ \A i \in DOMAIN p : p[i] \in Poll
  OBVIOUS
<1>2. \A e \in Poll : LET f == [e EXCEPT !.live = FALSE]
                      IN  f \in Poll /\ f.scan = e.scan /\ f.answer = e.answer /\ f.live = FALSE
  BY DEF Poll
<1>3. \A i \in DOMAIN p : q[i] = [p[i] EXCEPT !.live = FALSE] /\ q[i] \in Poll
  BY <1>1, <1>2
<1>4. q \in Seq(Poll) /\ Len(q) = Len(p) /\ DOMAIN q = DOMAIN p
  BY <1>1, <1>3
<1>5. QED
  BY <1>1, <1>2, <1>3, <1>4

\* The answer of one poll comes, and the others are as they were.
WithAnswer(p, i, a) == [p EXCEPT ![i].answer = a]

LEMMA Replied ==
  ASSUME NEW p \in Seq(Poll), NEW i \in DOMAIN p, NEW a \in Answers \cup {None, "error"},
         NEW q, q = WithAnswer(p, i, a)
  PROVE  /\ q \in Seq(Poll) /\ Len(q) = Len(p) /\ DOMAIN q = DOMAIN p
         /\ \A j \in DOMAIN p : /\ q[j].scan = p[j].scan /\ q[j].live = p[j].live
                                /\ q[j].answer = IF j = i THEN a ELSE p[j].answer
<1>1. Len(p) \in Nat /\ DOMAIN p = 1..Len(p) /\ \A j \in DOMAIN p : p[j] \in Poll
  OBVIOUS
<1>2. \A e \in Poll : LET f == [e EXCEPT !.answer = a]
                      IN  f \in Poll /\ f.scan = e.scan /\ f.live = e.live /\ f.answer = a
  BY DEF Poll, Answers
<1>3. \A j \in DOMAIN p : q[j] = (IF j = i THEN [p[i] EXCEPT !.answer = a] ELSE p[j])
  BY <1>1 DEF WithAnswer
<1>4. \A j \in DOMAIN p : q[j] \in Poll
  BY <1>1, <1>2, <1>3
<1>5. q \in Seq(Poll) /\ Len(q) = Len(p) /\ DOMAIN q = DOMAIN p
  BY <1>1, <1>4 DEF WithAnswer
<1>6. ASSUME NEW j \in DOMAIN p
      PROVE  /\ q[j].scan = p[j].scan /\ q[j].live = p[j].live
             /\ q[j].answer = IF j = i THEN a ELSE p[j].answer
  <2>1. CASE j = i
    <3>1. q[j] = [p[j] EXCEPT !.answer = a] /\ p[j] \in Poll
      BY <1>1, <1>3, <2>1
    <3>2. q[j].scan = p[j].scan /\ q[j].live = p[j].live /\ q[j].answer = a
      BY <1>2, <3>1
    <3>3. QED
      BY <2>1, <3>2
  <2>2. CASE j # i
    BY <1>3, <2>2
  <2>3. QED
    BY <2>1, <2>2
<1>7. QED
  BY <1>5, <1>6

\* One more poll, behind those in flight.
LEMMA Sent ==
  ASSUME NEW p \in Seq(Poll), NEW e \in Poll, NEW q, q = Append(p, e)
  PROVE  /\ q \in Seq(Poll) /\ Len(q) = Len(p) + 1 /\ DOMAIN q = 1..(Len(p) + 1)
         /\ \A j \in DOMAIN p : j \in DOMAIN q /\ q[j] = p[j]
         /\ q[Len(p) + 1] = e
         /\ \A j \in DOMAIN q : j \in DOMAIN p \/ j = Len(p) + 1
OBVIOUS

(***************************************************************************)
(* The rows                                                                *)
(***************************************************************************)
\* What a row can be once it has been status: a terminal state is final, and
\* any scan can go with its tenant.
Reaches(status) ==
  CASE status = "PENDING" -> Answers \cup {"deleted"}
    [] status = "RUNNING" -> {"RUNNING", "deleted"} \cup Terminal
    [] OTHER -> {status, "deleted"}

Launchable == Server!Statuses \ {"none"}

LEMMA ReachesFacts ==
  /\ \A a \in Launchable : a \in Reaches(a) /\ Reaches(a) \subseteq Launchable
  /\ \A a, b, c \in Launchable : b \in Reaches(a) /\ c \in Reaches(b) => c \in Reaches(a)
  /\ \A a \in Terminal : Reaches(a) = {a, "deleted"}
  /\ Reaches("deleted") = {"deleted"}
  /\ Reaches("PENDING") = Launchable
  /\ Answers \cup {"deleted"} = Launchable
BY DEF Reaches, Launchable, Answers, Active, Terminal, Server!Statuses, Server!Active, Server!Terminal

\* A state with findings is COMPLETED, and no other is.
Settled == \A s \in Scans : stored[s] <=> row[s] = "COMPLETED"

\* One step of the database: rows only move forwards.
RowsMove ==
  /\ row' \in [Scans -> Server!Statuses] /\ stored' \in [Scans -> BOOLEAN]
  /\ \A s \in Scans : row[s] # "none" => row'[s] # "none" /\ row'[s] \in Reaches(row[s])

LEMMA LaunchMoves ==
  ASSUME TypeOK, Settled, NEW s \in Scans, Server!Launch(s)
  PROVE  RowsMove /\ Settled' /\ row'[s] # "none"
<1>1. /\ row \in [Scans -> Server!Statuses] /\ stored \in [Scans -> BOOLEAN]
  BY DEF TypeOK
<1>2. row' = [row EXCEPT ![s] = "PENDING"] /\ stored' = stored /\ row[s] = "none"
  BY DEF Server!Launch
<1>3. \A r \in Scans : row[r] # "none" => row[r] \in Launchable
  BY <1>1 DEF Launchable
<1>4. QED
  BY <1>1, <1>2, <1>3, ReachesFacts DEF RowsMove, Settled, Server!Statuses, Server!Active

LEMMA ProgressMoves ==
  ASSUME TypeOK, Settled, NEW s \in Scans, Server!Claim(s) \/ Server!Complete(s) \/ Server!Fail(s)
  PROVE  RowsMove /\ Settled'
<1>1. /\ row \in [Scans -> Server!Statuses] /\ stored \in [Scans -> BOOLEAN]
  BY DEF TypeOK
<1>2. \A r \in Scans : row[r] # "none" => row[r] \in Launchable
  BY <1>1 DEF Launchable
<1>3. CASE Server!Claim(s)
  <2>1. row' = [row EXCEPT ![s] = "RUNNING"] /\ stored' = stored /\ row[s] = "PENDING"
    BY <1>3 DEF Server!Claim
  <2>2. QED
    BY <1>1, <1>2, <2>1, ReachesFacts DEF RowsMove, Settled, Launchable, Server!Statuses, Server!Active
<1>4. CASE Server!Complete(s)
  <2>1. /\ row' = [row EXCEPT ![s] = "COMPLETED"] /\ row[s] = "RUNNING"
        /\ stored' = [stored EXCEPT ![s] = TRUE]
    BY <1>4 DEF Server!Complete
  <2>2. "COMPLETED" \in Reaches("RUNNING") /\ "COMPLETED" \in Server!Statuses
    BY DEF Reaches, Terminal, Server!Statuses, Server!Terminal
  <2>3. QED
    BY <1>1, <1>2, <2>1, <2>2, ReachesFacts DEF RowsMove, Settled
<1>5. CASE Server!Fail(s)
  <2>1. row' = [row EXCEPT ![s] = "FAILED"] /\ stored' = stored /\ row[s] \in {"PENDING", "RUNNING"}
    BY <1>5 DEF Server!Fail, Server!Active
  <2>2. /\ "FAILED" \in Reaches("RUNNING") /\ "FAILED" \in Reaches("PENDING")
        /\ "FAILED" \in Server!Statuses
    BY DEF Reaches, Answers, Terminal, Server!Statuses, Server!Terminal
  <2>3. QED
    BY <1>1, <1>2, <2>1, <2>2, ReachesFacts DEF RowsMove, Settled
<1>6. QED
  BY <1>3, <1>4, <1>5

LEMMA RemoveMoves ==
  ASSUME TypeOK, Settled, Server!Remove(Scans)
  PROVE  RowsMove /\ Settled'
<1>1. /\ row \in [Scans -> Server!Statuses] /\ stored \in [Scans -> BOOLEAN]
  BY DEF TypeOK
<1>2. /\ row' = [s \in Scans |-> IF row[s] # "none" THEN "deleted" ELSE row[s]]
      /\ stored' = [s \in Scans |-> FALSE]
  BY DEF Server!Remove
<1>3. "deleted" \in Server!Statuses /\ \A a \in Launchable : "deleted" \in Reaches(a)
  BY DEF Server!Statuses, Launchable, Reaches
<1>4. QED
  BY <1>1, <1>2, <1>3 DEF RowsMove, Settled, Launchable

LEMMA RowsStay ==
  ASSUME TypeOK, Settled, UNCHANGED serverVars
  PROVE  RowsMove /\ Settled'
<1>1. row' = row /\ stored' = stored
  BY DEF serverVars
<1>2. \A r \in Scans : row[r] # "none" => row[r] \in Launchable
  BY DEF TypeOK, Launchable
<1>3. QED
  BY <1>1, <1>2, ReachesFacts DEF RowsMove, Settled, TypeOK

(***************************************************************************)
(* The states of the page                                                  *)
(***************************************************************************)
\* Whatever the page names has been launched, it follows a scan as long as it
\* polls, and its interval is that of a scan rendered as unfinished.
Known ==
  /\ launching # None => row[launching] # "none"
  /\ followed # None => row[followed] # "none"
  /\ effect.scan # None => followed # None /\ row[effect.scan] # "none"
  /\ timer => effect.scan # None /\ effect.status \notin Terminal
  /\ polls # <<>> => followed # None
  /\ \A i \in DOMAIN polls : row[polls[i].scan] # "none"

Sound == TypeOK /\ Settled /\ Known

LEMMA NoPolls ==
  ASSUME NEW p, p = <<>>
  PROVE  p \in Seq(Poll) /\ Len(p) <= MaxPolls /\ Len(p) = 0 /\ DOMAIN p = {}
<1>1. MaxPolls \in Nat
  BY PageAssumption
<1>2. p \in Seq(Poll) /\ Len(p) = 0 /\ DOMAIN p = {}
  OBVIOUS
<1>3. QED
  BY <1>1, <1>2

LEMMA SoundInit == Init => Sound
<1> SUFFICES ASSUME Init PROVE Sound
  OBVIOUS
<1>1. /\ row = [s \in Scans |-> "none"] /\ stored = [s \in Scans |-> FALSE]
      /\ listed = {} /\ launching = None
      /\ followed = None /\ shown = None /\ snapshot = None
      /\ effect = [scan |-> None, status |-> None]
      /\ timer = FALSE /\ late = FALSE /\ gaveUp = FALSE
      /\ polls = <<>>
  BY DEF Init, Server!Init
<1>2. TypeOK
  <2>1. polls \in Seq(Poll) /\ Len(polls) <= MaxPolls
    BY <1>1, NoPolls
  <2>2. row \in [Scans -> Server!Statuses] /\ stored \in [Scans -> BOOLEAN]
    BY <1>1 DEF Server!Statuses
  <2>3. effect \in [scan : Scans \cup {None}, status : Active \cup Terminal \cup {None}]
    BY <1>1
  <2>4. QED
    BY <1>1, <2>1, <2>2, <2>3 DEF TypeOK
<1>3. Settled /\ Known
  BY <1>1 DEF Settled, Known
<1>4. QED
  BY <1>2, <1>3 DEF Sound

\* The fields of TypeOK, and a poll's.
LEMMA Fields ==
  ASSUME TypeOK
  PROVE  /\ effect.scan \in Scans \cup {None} /\ effect.status \in Answers \cup {None}
         /\ polls \in Seq(Poll) /\ Len(polls) \in Nat /\ DOMAIN polls = 1..Len(polls)
         /\ \A i \in DOMAIN polls : /\ polls[i] \in Poll /\ polls[i].scan \in Scans
                                    /\ polls[i].live \in BOOLEAN
                                    /\ polls[i].answer \in Answers \cup {None, "error"}
         /\ polls # <<>> <=> Len(polls) # 0
<1>1. polls \in Seq(Poll)
  BY DEF TypeOK
<1>2. \A e \in Poll : /\ e.scan \in Scans /\ e.live \in BOOLEAN
                      /\ e.answer \in Answers \cup {None, "error"}
  BY DEF Poll, Answers
<1>3. /\ Len(polls) \in Nat /\ DOMAIN polls = 1..Len(polls)
      /\ \A i \in DOMAIN polls : polls[i] \in Poll
      /\ polls # <<>> <=> Len(polls) # 0
  BY <1>1
<1>4. effect.scan \in Scans \cup {None} /\ effect.status \in Answers \cup {None}
  BY DEF TypeOK, Answers
<1>5. QED
  BY <1>1, <1>2, <1>3, <1>4

\* Only the database moves.
LEMMA SoundRows ==
  ASSUME Sound, RowsMove, Settled', UNCHANGED <<listed, hookVars, polls>>,
         launching' \in Scans \cup {None}, launching' # None => row'[launching'] # "none"
  PROVE  Sound'
<1>1. /\ followed' = followed /\ shown' = shown /\ snapshot' = snapshot /\ effect' = effect
      /\ timer' = timer /\ late' = late /\ gaveUp' = gaveUp /\ polls' = polls /\ listed' = listed
  BY DEF hookVars
<1>2. TypeOK'
  BY <1>1 DEF Sound, TypeOK, RowsMove
<1>3. \A i \in DOMAIN polls : polls[i].scan \in Scans
  BY Fields DEF Sound
<1>4. \A s \in Scans : row[s] # "none" => row'[s] # "none"
  BY DEF RowsMove
<1>5. effect.scan \in Scans \cup {None} /\ followed \in Scans \cup {None}
  BY Fields DEF Sound, TypeOK
<1>6. Known'
  BY <1>1, <1>3, <1>4, <1>5 DEF Sound, Known
<1>7. QED
  BY <1>2, <1>6 DEF Sound

LEMMA SoundServer ==
  ASSUME Sound, (\E s \in Scans : Submit(s) \/ Progress(s)) \/ DeleteTenant
  PROVE  Sound' /\ RowsMove
<1>0. TypeOK /\ Settled
  BY DEF Sound
<1>1. ASSUME NEW s \in Scans, Submit(s) PROVE Sound' /\ RowsMove
  <2>1. RowsMove /\ Settled' /\ row'[s] # "none" /\ launching' = s
    BY <1>0, <1>1, LaunchMoves DEF Submit
  <2>2. UNCHANGED <<listed, hookVars, polls>>
    BY <1>1 DEF Submit
  <2>3. QED
    BY <2>1, <2>2, SoundRows
<1>2. ASSUME NEW s \in Scans, Progress(s) PROVE Sound' /\ RowsMove
  <2>1. RowsMove /\ Settled'
    BY <1>0, <1>2, ProgressMoves DEF Progress
  <2>2. launching' = launching /\ UNCHANGED <<listed, hookVars, polls>>
    BY <1>2 DEF Progress
  <2>3. launching \in Scans \cup {None} /\ (launching # None => row'[launching] # "none")
    BY <2>1 DEF Sound, TypeOK, Known, RowsMove
  <2>4. QED
    BY <2>1, <2>2, <2>3, SoundRows
<1>3. CASE DeleteTenant
  <2>1. RowsMove /\ Settled'
    BY <1>0, <1>3, RemoveMoves DEF DeleteTenant
  <2>2. launching' = launching /\ UNCHANGED <<listed, hookVars, polls>>
    BY <1>3 DEF DeleteTenant
  <2>3. launching \in Scans \cup {None} /\ (launching # None => row'[launching] # "none")
    BY <2>1 DEF Sound, TypeOK, Known, RowsMove
  <2>4. QED
    BY <2>1, <2>2, <2>3, SoundRows
<1>4. QED
  BY <1>1, <1>2, <1>3

LEMMA SoundPanel ==
  ASSUME Sound, Launched \/ LaunchFails \/ Reload
  PROVE  Sound'
<1>0. TypeOK /\ Settled /\ Known
  BY DEF Sound
<1>1. row' = row /\ stored' = stored
  BY DEF Launched, LaunchFails, Reload, serverVars
<1>2. Settled'
  BY <1>0, <1>1 DEF Settled
<1>3. Finished \subseteq Scans /\ None \notin Scans /\ None \notin Answers
  BY PageAssumption DEF Finished, Answers, Server!Statuses, Active, Terminal
<1>4. CASE Launched
  <2>1. /\ launching \in Scans /\ launching' = None
        /\ followed' = launching /\ shown' = "PENDING" /\ snapshot' = None
        /\ late' = FALSE /\ gaveUp' = FALSE /\ listed' = Finished
        /\ effect' = effect /\ timer' = timer /\ polls' = polls
    BY <1>0, <1>4 DEF Launched, TypeOK
  <2>2. "PENDING" \in Active
    BY DEF Active, Server!Active
  <2>3. TypeOK'
    BY <1>0, <1>1, <1>3, <2>1, <2>2 DEF TypeOK, Answers
  <2>4. Known'
    BY <1>0, <1>1, <1>3, <2>1 DEF Known
  <2>5. QED
    BY <1>2, <2>3, <2>4 DEF Sound
<1>5. CASE LaunchFails
  <2>1. /\ launching' = None /\ followed' = followed /\ shown' = shown /\ snapshot' = snapshot
        /\ effect' = effect /\ timer' = timer /\ late' = late /\ gaveUp' = gaveUp
        /\ polls' = polls /\ listed' = listed
    BY <1>5 DEF LaunchFails, hookVars
  <2>2. TypeOK'
    BY <1>0, <1>1, <2>1 DEF TypeOK
  <2>3. Known'
    BY <1>0, <1>1, <2>1 DEF Known
  <2>4. QED
    BY <1>2, <2>2, <2>3 DEF Sound
<1>6. CASE Reload
  <2>1. PICK s \in Scans \cup {None} :
          /\ s # None => row[s] \in Active
          /\ followed' = s
          /\ shown' = IF s = None THEN None ELSE row[s]
    BY <1>6 DEF Reload
  <2>2. /\ snapshot' = None /\ late' = FALSE /\ gaveUp' = FALSE
        /\ effect' = [scan |-> None, status |-> None] /\ timer' = FALSE
        /\ polls' = <<>> /\ listed' = Finished /\ launching' = None
    BY <1>6 DEF Reload
  <2>3. shown' \in Answers \cup {None} /\ (followed' = None <=> shown' = None)
    BY <1>3, <2>1 DEF Answers
  <2>4. polls' \in Seq(Poll) /\ Len(polls') <= MaxPolls /\ DOMAIN polls' = {}
    BY <2>2, NoPolls
  <2>5. followed' \in Scans \cup {None}
    BY <2>1
  <2>6. effect' \in [scan : Scans \cup {None}, status : Active \cup Terminal \cup {None}]
    BY <2>2
  <2>7. /\ listed' \subseteq Scans /\ launching' \in Scans \cup {None}
        /\ snapshot' \in Scans \cup {None}
        /\ timer' \in BOOLEAN /\ late' \in BOOLEAN /\ gaveUp' \in BOOLEAN
    BY <1>3, <2>2
  <2>8. TypeOK'
    BY <1>0, <1>1, <2>3, <2>4, <2>5, <2>6, <2>7 DEF TypeOK, Answers
  <2>9. followed' # None => row'[followed'] # "none"
    BY <1>1, <2>1 DEF Active, Server!Active
  <2>10. Known'
    BY <2>2, <2>4, <2>9 DEF Known
  <2>11. QED
    BY <1>2, <2>8, <2>10 DEF Sound
<1>7. QED
  BY <1>4, <1>5, <1>6

LEMMA SoundRender ==
  ASSUME Sound, Render
  PROVE  Sound'
<1>0. TypeOK /\ Settled /\ Known
  BY DEF Sound
<1>1. /\ row' = row /\ stored' = stored /\ listed' = listed /\ launching' = launching
      /\ followed' = followed /\ shown' = shown /\ snapshot' = snapshot
      /\ late' = late /\ gaveUp' = gaveUp
      /\ effect' = [scan |-> followed, status |-> shown]
      /\ timer' = (followed # None /\ shown \notin Terminal)
      /\ polls' = [i \in DOMAIN polls |-> [polls[i] EXCEPT !.live = FALSE]]
  BY DEF Render, serverVars
<1>2. /\ polls' \in Seq(Poll) /\ Len(polls') = Len(polls) /\ DOMAIN polls' = DOMAIN polls
      /\ \A i \in DOMAIN polls : polls'[i].scan = polls[i].scan
  BY <1>0, <1>1, Fields, CleanedUp
<1>3. polls' # <<>> => polls # <<>>
  BY <1>0, <1>2, Fields
<1>4. effect'.scan = followed /\ effect'.status = shown
  BY <1>1
<1>5. effect' \in [scan : Scans \cup {None}, status : Active \cup Terminal \cup {None}]
  BY <1>0, <1>1 DEF TypeOK
<1>6. TypeOK'
  BY <1>0, <1>1, <1>2, <1>5 DEF TypeOK
<1>7. Known'
  BY <1>0, <1>1, <1>2, <1>3, <1>4 DEF Known
<1>8. Settled'
  BY <1>0, <1>1 DEF Settled
<1>9. QED
  BY <1>6, <1>7, <1>8 DEF Sound

LEMMA SoundTimer ==
  ASSUME Sound, Tick \/ TickLate \/ TimePasses
  PROVE  Sound'
<1>0. TypeOK /\ Settled /\ Known
  BY DEF Sound
<1>1. CASE Tick
  <2>1. /\ row' = row /\ stored' = stored /\ listed' = listed /\ launching' = launching
        /\ followed' = followed /\ shown' = shown /\ snapshot' = snapshot /\ effect' = effect
        /\ timer' = timer /\ late' = late /\ gaveUp' = gaveUp
    BY <1>1 DEF Tick, serverVars, hookVars
  <2> DEFINE e == [scan |-> effect.scan, live |-> TRUE, answer |-> None]
  <2>2. timer /\ Len(polls) < MaxPolls /\ polls' = Append(polls, e)
    BY <1>1 DEF Tick
  <2>3. effect.scan \in Scans /\ row[effect.scan] # "none" /\ followed # None
    BY <1>0, <2>2, Fields DEF Known
  <2>4. e \in Poll /\ e.scan = effect.scan
    BY <2>3 DEF Poll
  <2> HIDE DEF e
  <2>5. polls \in Seq(Poll) /\ Len(polls) \in Nat /\ MaxPolls \in Nat
    BY <1>0, Fields, PageAssumption
  <2>6. /\ polls' \in Seq(Poll) /\ Len(polls') = Len(polls) + 1
        /\ \A j \in DOMAIN polls' : polls'[j] = e \/ (j \in DOMAIN polls /\ polls'[j] = polls[j])
    BY <2>2, <2>4, <2>5, Sent
  <2>7. Len(polls') <= MaxPolls
    BY <2>2, <2>5, <2>6
  <2>8. TypeOK'
    BY <1>0, <2>1, <2>6, <2>7 DEF TypeOK
  <2>9. \A j \in DOMAIN polls' : row'[polls'[j].scan] # "none"
    BY <1>0, <2>1, <2>3, <2>4, <2>6 DEF Known
  <2>10. Known' /\ Settled'
    BY <1>0, <2>1, <2>3, <2>9 DEF Known, Settled
  <2>11. QED
    BY <2>8, <2>10 DEF Sound
<1>2. CASE TickLate \/ TimePasses
  <2>1. /\ row' = row /\ stored' = stored /\ listed' = listed /\ launching' = launching
        /\ followed' = followed /\ shown' = shown /\ snapshot' = snapshot /\ effect' = effect
        /\ polls' = polls
    BY <1>2 DEF TickLate, TimePasses, serverVars
  <2>1a. /\ timer' \in BOOLEAN /\ late' \in BOOLEAN /\ gaveUp' \in BOOLEAN
         /\ timer' => timer
    <3>1. CASE TickLate
      <4>1. timer' = FALSE /\ gaveUp' = TRUE /\ late' = late
        BY <3>1 DEF TickLate
      <4>2. QED
        BY <1>0, <4>1 DEF TypeOK
    <3>2. CASE TimePasses
      <4>1. timer' = timer /\ gaveUp' = gaveUp /\ late' = TRUE
        BY <3>2 DEF TimePasses
      <4>2. QED
        BY <1>0, <4>1 DEF TypeOK
    <3>3. QED
      BY <1>2, <3>1, <3>2
  <2>2. TypeOK'
    BY <1>0, <2>1, <2>1a DEF TypeOK
  <2>3. Known' /\ Settled'
    BY <1>0, <2>1, <2>1a DEF Known, Settled
  <2>4. QED
    BY <2>2, <2>3 DEF Sound
<1>3. QED
  BY <1>1, <1>2

\* What the route answers: the state of the row, or an error.
LEMMA ServeMeans ==
  ASSUME Sound, NEW i \in DOMAIN polls, Serve(i)
  PROVE  \E a \in Answers \cup {"error"} :
           /\ a # "error" => a = row[polls[i].scan]
           /\ polls' = WithAnswer(polls, i, a)
<1>1. polls[i].scan \in Scans /\ row[polls[i].scan] # "none"
  BY Fields DEF Sound, Known
<1>2. row[polls[i].scan] \in Answers \cup {"deleted"}
  BY <1>1 DEF Sound, TypeOK, Answers, Active, Terminal, Server!Statuses, Server!Active, Server!Terminal
<1>3. PICK a \in {IF row[polls[i].scan] = "deleted" THEN "error" ELSE row[polls[i].scan]}
                   \cup (Faults \cap {"error"}) :
        polls' = WithAnswer(polls, i, a)
  BY DEF Serve, WithAnswer
<1>4. QED
  BY <1>2, <1>3

LEMMA SoundPolls ==
  ASSUME Sound, NEW i \in DOMAIN polls, Serve(i) \/ Answer(i) \/ Lost(i)
  PROVE  Sound'
<1>0. TypeOK /\ Settled /\ Known
  BY DEF Sound
<1>1. /\ row' = row /\ stored' = stored /\ launching' = launching
      /\ followed' = followed /\ effect' = effect /\ late' = late
  BY DEF Serve, Answer, Lost, serverVars, hookVars
<1>2. polls # <<>> /\ polls \in Seq(Poll) /\ Len(polls) \in Nat /\ MaxPolls \in Nat
  BY <1>0, Fields, PageAssumption
<1>3. CASE Serve(i)
  <2>1. /\ listed' = listed /\ shown' = shown /\ snapshot' = snapshot
        /\ timer' = timer /\ gaveUp' = gaveUp
    BY <1>3 DEF Serve, hookVars
  <2>0. PICK a \in Answers \cup {"error"} : polls' = WithAnswer(polls, i, a)
    BY <1>3, ServeMeans
  <2>2. /\ polls' \in Seq(Poll) /\ Len(polls') = Len(polls) /\ DOMAIN polls' = DOMAIN polls
        /\ \A j \in DOMAIN polls : polls'[j].scan = polls[j].scan
    <3>1. a \in Answers \cup {None, "error"}
      OBVIOUS
    <3>2. QED
      BY <1>2, <2>0, <3>1, Replied
  <2>3. TypeOK'
    BY <1>0, <1>1, <2>1, <2>2 DEF TypeOK
  <2>4. Known' /\ Settled'
    BY <1>0, <1>1, <1>2, <2>1, <2>2 DEF Known, Settled
  <2>5. QED
    BY <2>3, <2>4 DEF Sound
<1>4. CASE Answer(i) \/ Lost(i)
  <2>1. polls' = RemoveAt(polls, i)
    BY <1>4 DEF Answer, Lost
  <2>2. /\ polls' \in Seq(Poll) /\ Len(polls') = Len(polls) - 1
        /\ \A k \in DOMAIN polls' : \E l \in DOMAIN polls : polls'[k] = polls[l]
    BY <1>2, <2>1, Taken
  <2>3. Len(polls') <= MaxPolls
    BY <1>0, <1>2, <2>2 DEF TypeOK
  <2>4. \A k \in DOMAIN polls' : row'[polls'[k].scan] # "none"
    BY <1>0, <1>1, <2>2 DEF Known
  <2>5. /\ listed' \in {listed, Finished}
        /\ timer' \in BOOLEAN /\ gaveUp' \in BOOLEAN
        /\ timer' => timer
    <3>1. CASE Answer(i)
      <4> DEFINE ends == polls[i].live /\ polls[i].answer \in Terminal \cup {"error"}
      <4>1. /\ timer' = (timer /\ ~ends) /\ gaveUp' = (gaveUp \/ (ends /\ polls[i].answer = "error"))
            /\ listed' = IF ends THEN Finished ELSE listed
        BY <3>1 DEF Answer
      <4> HIDE DEF ends
      <4>2. listed' \in {listed, Finished}
        BY <4>1
      <4>3. (timer' => timer) /\ timer' \in BOOLEAN /\ gaveUp' \in BOOLEAN
        BY <4>1
      <4>4. QED
        BY <4>2, <4>3
    <3>2. CASE Lost(i)
      <4>1. listed' = listed /\ timer' = timer /\ gaveUp' = gaveUp
        BY <3>2 DEF Lost, hookVars
      <4>2. QED
        BY <1>0, <4>1 DEF TypeOK
    <3>3. QED
      BY <1>4, <3>1, <3>2
  <2>5a. \/ shown' = shown /\ snapshot' = snapshot
         \/ shown' \in Answers /\ snapshot' \in Scans
    <3>1. CASE Answer(i)
      <4>1. polls[i].scan \in Scans /\ polls[i].answer \in Answers \cup {None, "error"}
        BY <1>0, Fields
      <4>2. polls[i].answer # None
        BY <3>1 DEF Answer, Served, Unserved
      <4>3. IF polls[i].answer = "error" THEN UNCHANGED <<shown, snapshot>>
            ELSE shown' = polls[i].answer /\ snapshot' = polls[i].scan
        BY <3>1 DEF Answer
      <4>4. QED
        BY <4>1, <4>2, <4>3
    <3>2. CASE Lost(i)
      BY <3>2 DEF Lost, hookVars
    <3>3. QED
      BY <1>4, <3>1, <3>2
  <2>6. Finished \subseteq Scans /\ None \notin Answers /\ followed # None
    BY <1>0, <1>2, PageAssumption
    DEF Finished, Known, Answers, Active, Terminal, Server!Statuses
  <2>7. TypeOK'
    BY <1>0, <1>1, <2>2, <2>3, <2>5, <2>5a, <2>6 DEF TypeOK, Answers
  <2>8. Known' /\ Settled'
    BY <1>0, <1>1, <2>4, <2>5, <2>5a, <2>6 DEF Known, Settled
  <2>9. QED
    BY <2>7, <2>8 DEF Sound
<1>5. QED
  BY <1>3, <1>4

LEMMA SoundStep ==
  ASSUME Sound, [Next]_vars
  PROVE  Sound' /\ RowsMove
<1>1. CASE (\E s \in Scans : Submit(s) \/ Progress(s)) \/ DeleteTenant
  BY <1>1, SoundServer
<1>2. ASSUME UNCHANGED serverVars PROVE RowsMove
  BY <1>2, RowsStay DEF Sound
<1>3. CASE Launched \/ LaunchFails \/ Reload
  <2>1. UNCHANGED serverVars
    BY <1>3 DEF Launched, LaunchFails, Reload
  <2>2. QED
    BY <1>2, <1>3, <2>1, SoundPanel
<1>4. CASE Render
  BY <1>2, <1>4, SoundRender DEF Render
<1>5. CASE Tick \/ TickLate \/ TimePasses
  <2>1. UNCHANGED serverVars
    BY <1>5 DEF Tick, TickLate, TimePasses
  <2>2. QED
    BY <1>2, <1>5, <2>1, SoundTimer
<1>6. ASSUME NEW i \in DOMAIN polls, Serve(i) \/ Answer(i) \/ Lost(i)
      PROVE  Sound' /\ RowsMove
  <2>1. UNCHANGED serverVars
    BY <1>6 DEF Serve, Answer, Lost
  <2>2. QED
    BY <1>2, <1>6, <2>1, SoundPolls
<1>7. CASE UNCHANGED vars
  <2>1. UNCHANGED serverVars
    BY <1>7 DEF vars
  <2>2. Sound'
    BY <1>7 DEF vars, serverVars, hookVars, Sound, TypeOK, Settled, Known
  <2>3. QED
    BY <1>2, <2>1, <2>2
<1>8. QED
  BY <1>1, <1>3, <1>4, <1>5, <1>6, <1>7 DEF Next

LEMMA SoundHolds == Spec => []Sound
<1>1. Sound /\ [Next]_vars => Sound'
  BY SoundStep
<1>2. QED
  BY <1>1, SoundInit, PTL DEF Spec

(***************************************************************************)
(* What is shown                                                           *)
(***************************************************************************)
\* The scan that the status on the page is an answer about.
Subject == IF snapshot = None THEN followed ELSE snapshot

\* Every answer, on its way or shown, was true when the route gave it.
AnswersWereTrue ==
  \A i \in DOMAIN polls :
    polls[i].answer \in Answers => row[polls[i].scan] \in Reaches(polls[i].answer)

ShownWasTrue == shown # None => row[Subject] \in Reaches(shown)

ListedHaveFinished == \A s \in listed : row[s] \in Terminal \cup {"deleted"}

Past == AnswersWereTrue /\ ShownWasTrue /\ ListedHaveFinished

LEMMA PastInit == Init => Past
<1> SUFFICES ASSUME Init PROVE Past
  OBVIOUS
<1>1. listed = {} /\ shown = None /\ polls = <<>>
  BY DEF Init
<1>2. DOMAIN polls = {}
  BY <1>1, NoPolls
<1>3. QED
  BY <1>1, <1>2 DEF Past, AnswersWereTrue, ShownWasTrue, ListedHaveFinished

\* What was true of a row stays true, however the row moves.
LEMMA StaysTrue ==
  ASSUME Sound, RowsMove, NEW s \in Scans, row[s] # "none", NEW a \in Answers,
         row[s] \in Reaches(a)
  PROVE  row'[s] \in Reaches(a)
<1>1. row[s] \in Launchable /\ a \in Launchable
  BY ReachesFacts DEF Sound, TypeOK, Launchable
<1>2. row'[s] \in Launchable /\ row'[s] \in Reaches(row[s])
  BY DEF RowsMove, Launchable
<1>3. QED
  BY <1>1, <1>2, ReachesFacts

\* Nobody is told anything: only rows may move.
LEMMA PastRows ==
  ASSUME Sound, Past, RowsMove, UNCHANGED <<listed, followed, shown, snapshot>>,
         \A i \in DOMAIN polls' : polls'[i].answer \in Answers =>
           \E j \in DOMAIN polls : polls[j].scan = polls'[i].scan /\ polls[j].answer = polls'[i].answer
  PROVE  Past'
<1>1. ASSUME NEW i \in DOMAIN polls', polls'[i].answer \in Answers
      PROVE  row'[polls'[i].scan] \in Reaches(polls'[i].answer)
  <2>1. PICK j \in DOMAIN polls :
          polls[j].scan = polls'[i].scan /\ polls[j].answer = polls'[i].answer
    BY <1>1
  <2>2. /\ polls[j].scan \in Scans /\ row[polls[j].scan] # "none"
        /\ row[polls[j].scan] \in Reaches(polls[j].answer)
    BY <1>1, <2>1, Fields DEF Sound, Known, Past, AnswersWereTrue
  <2>3. QED
    BY <1>1, <2>1, <2>2, StaysTrue
<1>2. ASSUME shown # None PROVE row'[Subject] \in Reaches(shown)
  <2>1. shown \in Answers /\ Subject \in Scans
    BY <1>2 DEF Sound, TypeOK, Answers, Subject
  <2>2. row[Subject] \in Reaches(shown)
    BY <1>2 DEF Past, ShownWasTrue
  <2>3. row[Subject] # "none"
    <3>1. Reaches(shown) \subseteq Launchable
      BY <2>1, ReachesFacts
    <3>2. QED
      BY <2>2, <3>1 DEF Launchable
  <2>4. QED
    BY <2>1, <2>2, <2>3, StaysTrue
<1>3. Subject' = Subject
  BY DEF Subject
<1>4. ASSUME NEW s \in listed PROVE row'[s] \in Terminal \cup {"deleted"}
  <2>1. s \in Scans /\ row[s] \in Terminal \cup {"deleted"}
    BY DEF Sound, TypeOK, Past, ListedHaveFinished
  <2>2. row[s] # "none"
    BY <2>1 DEF Terminal, Server!Terminal
  <2>3. row'[s] \in Reaches(row[s])
    BY <2>1, <2>2 DEF RowsMove
  <2>4. QED
    BY <2>1, <2>3, ReachesFacts
<1>5. AnswersWereTrue'
  BY <1>1 DEF AnswersWereTrue
<1>6. ShownWasTrue'
  BY <1>2, <1>3 DEF ShownWasTrue
<1>7. ListedHaveFinished'
  BY <1>4 DEF ListedHaveFinished
<1>8. QED
  BY <1>5, <1>6, <1>7 DEF Past

LEMMA PastPanel ==
  ASSUME Sound, Past, Launched \/ LaunchFails \/ Reload
  PROVE  Past'
<1>0. TypeOK /\ Settled /\ Known
  BY DEF Sound
<1>1. row' = row
  BY DEF Launched, LaunchFails, Reload, serverVars
<1>2. \A s \in Finished : s \in Scans /\ row[s] \in Terminal
  BY DEF Finished
<1>3. None \notin Scans
  BY PageAssumption
<1>4. CASE Launched
  <2>1. /\ launching \in Scans /\ followed' = launching /\ shown' = "PENDING" /\ snapshot' = None
        /\ listed' = Finished /\ polls' = polls
    BY <1>0, <1>4 DEF Launched, TypeOK
  <2>2. row[launching] \in Reaches("PENDING")
    BY <1>0, <1>3, <2>1, ReachesFacts DEF TypeOK, Known, Launchable
  <2>3. Subject' = launching
    BY <2>1 DEF Subject
  <2>4. QED
    BY <1>1, <1>2, <2>1, <2>2, <2>3 DEF Past, AnswersWereTrue, ShownWasTrue, ListedHaveFinished
<1>5. CASE LaunchFails
  <2>1. /\ followed' = followed /\ shown' = shown /\ snapshot' = snapshot
        /\ polls' = polls /\ listed' = listed
    BY <1>5 DEF LaunchFails, hookVars
  <2>2. Subject' = Subject
    BY <2>1 DEF Subject
  <2>3. QED
    BY <1>1, <2>1, <2>2 DEF Past, AnswersWereTrue, ShownWasTrue, ListedHaveFinished
<1>6. CASE Reload
  <2>1. PICK s \in Scans \cup {None} :
          /\ s # None => row[s] \in Active
          /\ followed' = s
          /\ shown' = IF s = None THEN None ELSE row[s]
    BY <1>6 DEF Reload
  <2>2. snapshot' = None /\ polls' = <<>> /\ listed' = Finished
    BY <1>6 DEF Reload
  <2>3. DOMAIN polls' = {}
    BY <2>2, NoPolls
  <2>4. Subject' = s
    BY <2>1, <2>2 DEF Subject
  <2>5. ASSUME s # None PROVE row[s] \in Reaches(row[s])
    <3>1. row[s] \in Launchable
      BY <2>1, <2>5, ReachesFacts DEF Answers
    <3>2. QED
      BY <3>1, ReachesFacts
  <2>6. ShownWasTrue'
    BY <1>1, <2>1, <2>4, <2>5 DEF ShownWasTrue
  <2>7. AnswersWereTrue' /\ ListedHaveFinished'
    BY <1>1, <1>2, <2>2, <2>3 DEF AnswersWereTrue, ListedHaveFinished
  <2>8. QED
    BY <2>6, <2>7 DEF Past
<1>7. QED
  BY <1>4, <1>5, <1>6

LEMMA PastPolls ==
  ASSUME Sound, Past, NEW i \in DOMAIN polls, Serve(i) \/ Answer(i)
  PROVE  Past'
<1>0. TypeOK /\ Settled /\ Known
  BY DEF Sound
<1>1. row' = row /\ followed' = followed
  BY DEF Serve, Answer, serverVars, hookVars
<1>2. polls \in Seq(Poll)
  BY <1>0, Fields
<1>3. CASE Serve(i)
  <2>1. PICK a \in Answers \cup {"error"} :
          /\ a # "error" => a = row[polls[i].scan]
          /\ polls' = WithAnswer(polls, i, a)
    BY <1>3, ServeMeans
  <2>2. a \in Answers \cup {None, "error"}
    OBVIOUS
  <2>3. /\ DOMAIN polls' = DOMAIN polls
        /\ \A j \in DOMAIN polls : /\ polls'[j].scan = polls[j].scan
                                   /\ polls'[j].answer = IF j = i THEN a ELSE polls[j].answer
    BY <1>2, <2>1, <2>2, Replied
  <2>4. a \in Answers => row[polls[i].scan] \in Reaches(a)
    <3>1. "error" \notin Answers
      BY DEF Answers, Active, Terminal, Server!Active, Server!Terminal
    <3>2. QED
      BY <2>1, <3>1, ReachesFacts
  <2>5. AnswersWereTrue'
    BY <1>1, <2>3, <2>4 DEF Past, AnswersWereTrue
  <2>6. listed' = listed /\ shown' = shown /\ snapshot' = snapshot
    BY <1>3 DEF Serve, hookVars
  <2>7. ShownWasTrue' /\ ListedHaveFinished'
    BY <1>1, <2>6 DEF Past, ShownWasTrue, Subject, ListedHaveFinished
  <2>8. QED
    BY <2>5, <2>7 DEF Past
<1>4. CASE Answer(i)
  <2>1. polls' = RemoveAt(polls, i)
    BY <1>4 DEF Answer
  <2>2. \A k \in DOMAIN polls' : \E l \in DOMAIN polls : polls'[k] = polls[l]
    BY <1>2, <2>1, Taken
  <2>3. AnswersWereTrue'
    BY <1>1, <2>2 DEF Past, AnswersWereTrue
  <2>4. listed' = listed \/ listed' = Finished
    BY <1>4 DEF Answer
  <2>5. ListedHaveFinished'
    BY <1>1, <2>4 DEF Past, ListedHaveFinished, Finished
  <2>6. polls[i].scan \in Scans /\ polls[i].answer \in Answers \cup {None, "error"}
    BY <1>0, Fields
  <2>7. polls[i].answer # None
    BY <1>4 DEF Answer, Served, Unserved
  <2>8. IF polls[i].answer = "error" THEN UNCHANGED <<shown, snapshot>>
        ELSE shown' = polls[i].answer /\ snapshot' = polls[i].scan
    BY <1>4 DEF Answer
  <2>9. CASE polls[i].answer = "error"
    BY <1>1, <2>3, <2>5, <2>8, <2>9 DEF Past, ShownWasTrue, Subject
  <2>10. CASE polls[i].answer # "error"
    <3>1. polls[i].answer \in Answers /\ shown' = polls[i].answer /\ snapshot' = polls[i].scan
      BY <2>6, <2>7, <2>8, <2>10
    <3>2. Subject' = polls[i].scan
      BY <2>6, <3>1, PageAssumption DEF Subject
    <3>3. row[polls[i].scan] \in Reaches(polls[i].answer)
      BY <3>1 DEF Past, AnswersWereTrue
    <3>4. ShownWasTrue'
      BY <1>1, <3>1, <3>2, <3>3 DEF ShownWasTrue
    <3>5. QED
      BY <2>3, <2>5, <3>4 DEF Past
  <2>11. QED
    BY <2>9, <2>10
<1>5. QED
  BY <1>3, <1>4

LEMMA PastStep ==
  ASSUME Sound, Past, [Next]_vars
  PROVE  Past'
<1>0. Sound' /\ RowsMove
  BY SoundStep
<1>1. ASSUME UNCHANGED <<listed, followed, shown, snapshot, polls>> PROVE Past'
  BY <1>0, <1>1, PastRows
<1>2. CASE (\E s \in Scans : Submit(s) \/ Progress(s)) \/ DeleteTenant
  BY <1>1, <1>2 DEF Submit, Progress, DeleteTenant, hookVars
<1>3. CASE Launched \/ LaunchFails \/ Reload
  BY <1>3, PastPanel
<1>4. CASE Render
  <2>1. /\ UNCHANGED <<listed, followed, shown, snapshot>>
        /\ polls' = [i \in DOMAIN polls |-> [polls[i] EXCEPT !.live = FALSE]]
    BY <1>4 DEF Render
  <2>2. polls \in Seq(Poll)
    BY Fields DEF Sound
  <2>3. /\ DOMAIN polls' = DOMAIN polls
        /\ \A i \in DOMAIN polls : polls'[i].scan = polls[i].scan /\ polls'[i].answer = polls[i].answer
    BY <2>1, <2>2, CleanedUp
  <2>4. QED
    BY <1>0, <2>1, <2>3, PastRows
<1>5. CASE Tick
  <2>1. UNCHANGED <<listed, followed, shown, snapshot>>
    BY <1>5 DEF Tick, hookVars
  <2> DEFINE e == [scan |-> effect.scan, live |-> TRUE, answer |-> None]
  <2>2. timer /\ polls' = Append(polls, e)
    BY <1>5 DEF Tick
  <2>3. e \in Poll /\ e.answer = None
    BY <2>2, Fields DEF Sound, Known, Poll
  <2> HIDE DEF e
  <2>4. polls \in Seq(Poll)
    BY Fields DEF Sound
  <2>5. \A j \in DOMAIN polls' : polls'[j] = e \/ (j \in DOMAIN polls /\ polls'[j] = polls[j])
    BY <2>2, <2>3, <2>4, Sent
  <2>6. None \notin Answers
    BY PageAssumption DEF Answers, Active, Terminal, Server!Statuses
  <2>7. \A j \in DOMAIN polls' : polls'[j].answer \in Answers =>
          \E k \in DOMAIN polls : polls[k].scan = polls'[j].scan /\ polls[k].answer = polls'[j].answer
    BY <2>3, <2>5, <2>6
  <2>8. QED
    BY <1>0, <2>1, <2>7, PastRows
<1>6. CASE TickLate \/ TimePasses
  BY <1>1, <1>6 DEF TickLate, TimePasses
<1>7. ASSUME NEW i \in DOMAIN polls, Lost(i) PROVE Past'
  <2>1. UNCHANGED <<listed, followed, shown, snapshot>> /\ polls' = RemoveAt(polls, i)
    BY <1>7 DEF Lost, hookVars
  <2>2. polls \in Seq(Poll)
    BY Fields DEF Sound
  <2>3. \A k \in DOMAIN polls' : \E l \in DOMAIN polls : polls'[k] = polls[l]
    BY <2>1, <2>2, Taken
  <2>4. QED
    BY <1>0, <2>1, <2>3, PastRows
<1>8. ASSUME NEW i \in DOMAIN polls, Serve(i) \/ Answer(i) PROVE Past'
  BY <1>8, PastPolls
<1>9. CASE UNCHANGED vars
  BY <1>1, <1>9 DEF vars, hookVars
<1>10. QED
  BY <1>2, <1>3, <1>4, <1>5, <1>6, <1>7, <1>8, <1>9 DEF Next

LEMMA PastHolds == Spec => [](Sound /\ Past)
<1>1. Init => Sound /\ Past
  BY SoundInit, PastInit
<1>2. (Sound /\ Past) /\ [Next]_vars => (Sound /\ Past)'
  BY SoundStep, PastStep
<1>3. QED
  BY <1>1, <1>2, PTL DEF Spec

(***************************************************************************)
(* When the interval runs                                                  *)
(***************************************************************************)
\* A poll that may still end the polling is one of the scan that is rendered,
\* and the scan is rendered as unfinished.
LiveIsCurrent ==
  \A i \in DOMAIN polls :
    polls[i].live => polls[i].scan = effect.scan /\ effect.status \notin Terminal

LEMMA LiveStep ==
  ASSUME Sound, LiveIsCurrent, [Next]_vars
  PROVE  LiveIsCurrent'
<1>0. polls \in Seq(Poll) /\ Len(polls) \in Nat
  BY Fields DEF Sound
<1>1. ASSUME UNCHANGED <<effect, polls>> PROVE LiveIsCurrent'
  BY <1>1 DEF LiveIsCurrent
<1>2. CASE (\E s \in Scans : Submit(s) \/ Progress(s)) \/ DeleteTenant
  BY <1>1, <1>2 DEF Submit, Progress, DeleteTenant, hookVars
<1>3. CASE Launched \/ LaunchFails
  BY <1>1, <1>3 DEF Launched, LaunchFails, hookVars
<1>4. CASE Reload
  <2>1. DOMAIN polls' = {}
    BY <1>4, NoPolls DEF Reload
  <2>2. QED
    BY <2>1 DEF LiveIsCurrent
<1>5. CASE Render
  <2>1. polls' = [i \in DOMAIN polls |-> [polls[i] EXCEPT !.live = FALSE]]
    BY <1>5 DEF Render
  <2>2. DOMAIN polls' = DOMAIN polls /\ \A i \in DOMAIN polls : polls'[i].live = FALSE
    BY <1>0, <2>1, CleanedUp
  <2>3. QED
    BY <2>2 DEF LiveIsCurrent
<1>6. CASE Tick
  <2> DEFINE e == [scan |-> effect.scan, live |-> TRUE, answer |-> None]
  <2>1. timer /\ polls' = Append(polls, e) /\ effect' = effect
    BY <1>6 DEF Tick, hookVars
  <2>2. e \in Poll /\ e.scan = effect.scan /\ effect.status \notin Terminal
    BY <2>1, Fields DEF Sound, Known, Poll
  <2> HIDE DEF e
  <2>3. \A j \in DOMAIN polls' : polls'[j] = e \/ (j \in DOMAIN polls /\ polls'[j] = polls[j])
    BY <1>0, <2>1, <2>2, Sent
  <2>4. QED
    BY <2>1, <2>2, <2>3 DEF LiveIsCurrent
<1>7. CASE TickLate \/ TimePasses
  BY <1>1, <1>7 DEF TickLate, TimePasses
<1>8. ASSUME NEW i \in DOMAIN polls, Serve(i) PROVE LiveIsCurrent'
  <2>1. PICK a \in Answers \cup {"error"} : polls' = WithAnswer(polls, i, a)
    BY <1>8, ServeMeans
  <2>2. a \in Answers \cup {None, "error"}
    OBVIOUS
  <2>3. /\ DOMAIN polls' = DOMAIN polls
        /\ \A j \in DOMAIN polls : polls'[j].scan = polls[j].scan /\ polls'[j].live = polls[j].live
    BY <1>0, <2>1, <2>2, Replied
  <2>4. effect' = effect
    BY <1>8 DEF Serve, hookVars
  <2>5. QED
    BY <2>3, <2>4 DEF LiveIsCurrent
<1>9. ASSUME NEW i \in DOMAIN polls, Answer(i) \/ Lost(i) PROVE LiveIsCurrent'
  <2>1. polls' = RemoveAt(polls, i) /\ effect' = effect
    BY <1>9 DEF Answer, Lost, hookVars
  <2>2. \A k \in DOMAIN polls' : \E l \in DOMAIN polls : polls'[k] = polls[l]
    BY <1>0, <2>1, Taken
  <2>3. QED
    BY <2>1, <2>2 DEF LiveIsCurrent
<1>10. CASE UNCHANGED vars
  BY <1>1, <1>10 DEF vars, hookVars
<1>11. QED
  BY <1>2, <1>3, <1>4, <1>5, <1>6, <1>7, <1>8, <1>9, <1>10 DEF Next

LEMMA LiveHolds == Spec => [](Sound /\ Past /\ LiveIsCurrent)
<1>1. Init => LiveIsCurrent
  <2> SUFFICES ASSUME Init PROVE LiveIsCurrent
    OBVIOUS
  <2>1. DOMAIN polls = {}
    BY NoPolls DEF Init
  <2>2. QED
    BY <2>1 DEF LiveIsCurrent
<1>2. Sound /\ LiveIsCurrent /\ [Next]_vars => LiveIsCurrent'
  BY LiveStep
<1>3. QED
  BY <1>1, <1>2, PastHolds, PTL DEF Spec

(***************************************************************************)
(* Answers in their order                                                  *)
(***************************************************************************)
\* f was sent after e: it is not cut off before e, and not answered before e or
\* with anything older.
Follows(e, f) ==
  /\ e.live => f.live
  /\ f.answer # None => e.answer # None
  /\ e.scan = f.scan /\ e.answer \in Answers /\ f.answer \in Answers =>
       f.answer \in Reaches(e.answer)

QueueInOrder == \A i, j \in DOMAIN polls : i < j => Follows(polls[i], polls[j])

LEMMA QueueStep ==
  ASSUME "overtake" \notin Faults, Sound, Past, QueueInOrder, [Next]_vars
  PROVE  QueueInOrder'
<1>12. polls \in Seq(Poll)
  BY Fields DEF Sound
<1>0. polls \in Seq(Poll) /\ Len(polls) \in Nat /\ DOMAIN polls = 1..Len(polls)
  BY Fields DEF Sound
<1>1. ASSUME UNCHANGED polls PROVE QueueInOrder'
  BY <1>1 DEF QueueInOrder
<1>2. CASE (\E s \in Scans : Submit(s) \/ Progress(s)) \/ DeleteTenant
  BY <1>1, <1>2 DEF Submit, Progress, DeleteTenant
<1>3. CASE Launched \/ LaunchFails
  BY <1>1, <1>3 DEF Launched, LaunchFails
<1>4. CASE Reload
  <2>1. DOMAIN polls' = {}
    BY <1>4, NoPolls DEF Reload
  <2>2. QED
    BY <2>1 DEF QueueInOrder
<1>5. CASE Render
  <2>1. polls' = [i \in DOMAIN polls |-> [polls[i] EXCEPT !.live = FALSE]]
    BY <1>5 DEF Render
  <2>2. /\ DOMAIN polls' = DOMAIN polls
        /\ \A i \in DOMAIN polls : /\ polls'[i].scan = polls[i].scan
                                   /\ polls'[i].answer = polls[i].answer
                                   /\ polls'[i].live = FALSE
    BY <1>12, <2>1, CleanedUp
  <2>3. ASSUME NEW i \in DOMAIN polls, NEW j \in DOMAIN polls, i < j
        PROVE  Follows(polls'[i], polls'[j])
    <3>1. Follows(polls[i], polls[j])
      BY <2>3 DEF QueueInOrder
    <3>2. QED
      BY <2>2, <3>1 DEF Follows
  <2>4. QED
    BY <2>2, <2>3 DEF QueueInOrder
<1>6. CASE Tick
  <2> DEFINE e == [scan |-> effect.scan, live |-> TRUE, answer |-> None]
  <2>1. timer /\ polls' = Append(polls, e)
    BY <1>6 DEF Tick
  <2>2. e \in Poll /\ e.live = TRUE /\ e.answer = None
    BY <2>1, Fields DEF Sound, Known, Poll
  <2> HIDE DEF e
  <2>3. /\ DOMAIN polls' = 1..(Len(polls) + 1) /\ polls'[Len(polls) + 1] = e
        /\ \A j \in DOMAIN polls : j \in DOMAIN polls' /\ polls'[j] = polls[j]
    BY <1>0, <2>1, <2>2, Sent
  <2>4. None \notin Answers
    BY PageAssumption DEF Answers, Active, Terminal, Server!Statuses
  <2>5. ASSUME NEW i \in DOMAIN polls', NEW j \in DOMAIN polls', i < j
        PROVE  Follows(polls'[i], polls'[j])
    <3>1. i \in DOMAIN polls /\ (j \in DOMAIN polls \/ j = Len(polls) + 1)
      BY <1>0, <2>3, <2>5
    <3>2. CASE j \in DOMAIN polls
      BY <2>3, <2>5, <3>1, <3>2 DEF QueueInOrder
    <3>3. CASE j = Len(polls) + 1
      BY <2>2, <2>3, <2>4, <3>3 DEF Follows
    <3>4. QED
      BY <3>1, <3>2, <3>3
  <2>6. QED
    BY <2>5 DEF QueueInOrder
<1>7. CASE TickLate \/ TimePasses
  BY <1>1, <1>7 DEF TickLate, TimePasses
<1>8. ASSUME NEW i \in DOMAIN polls, Serve(i) PROVE QueueInOrder'
  <2>1. PICK a \in Answers \cup {"error"} :
          /\ a # "error" => a = row[polls[i].scan]
          /\ polls' = WithAnswer(polls, i, a)
    BY <1>8, ServeMeans
  <2>2. a \in Answers \cup {None, "error"} /\ a # None /\ "error" \notin Answers
    BY PageAssumption DEF Answers, Active, Terminal, Server!Statuses, Server!Active, Server!Terminal
  <2>3. /\ DOMAIN polls' = DOMAIN polls
        /\ \A j \in DOMAIN polls : /\ polls'[j].scan = polls[j].scan /\ polls'[j].live = polls[j].live
                                   /\ polls'[j].answer = IF j = i THEN a ELSE polls[j].answer
    BY <1>12, <2>1, <2>2, Replied
  <2>4. polls[i].answer = None /\ \A j \in DOMAIN polls : polls[j].answer = None => i <= j
    BY <1>8 DEF Serve, InTurn, Unserved
  <2>5. ASSUME NEW j \in DOMAIN polls, NEW k \in DOMAIN polls, j < k
        PROVE  Follows(polls'[j], polls'[k])
    <3>1. Follows(polls[j], polls[k])
      BY <2>5 DEF QueueInOrder
    <3>2. CASE j # i /\ k # i
      BY <2>3, <3>1, <3>2 DEF Follows
    <3>3. CASE k = i
      <4>1. j # i /\ ~(i <= j)
        BY <1>0, <2>5, <3>3
      <4>2. polls[j].answer # None
        BY <2>4, <4>1
      <4>3. polls[j].answer \in Answers => row[polls[j].scan] \in Reaches(polls[j].answer)
        BY DEF Past, AnswersWereTrue
      <4>4. /\ polls'[j].scan = polls[j].scan /\ polls'[j].live = polls[j].live
            /\ polls'[j].answer = polls[j].answer
            /\ polls'[k].scan = polls[k].scan /\ polls'[k].live = polls[k].live
            /\ polls'[k].answer = a
        BY <2>3, <3>3, <4>1
      <4>5. a \in Answers => a = row[polls[k].scan]
        BY <2>1, <2>2, <3>3
      <4>6. QED
        BY <3>1, <4>2, <4>3, <4>4, <4>5 DEF Follows
    <3>4. CASE j = i
      <4>1. polls[k].answer = None /\ k # i
        BY <1>0, <2>4, <2>5, <3>1, <3>4 DEF Follows
      <4>2. None \notin Answers
        BY PageAssumption DEF Answers, Active, Terminal, Server!Statuses
      <4>3. /\ polls'[j].live = polls[j].live
            /\ polls'[k].live = polls[k].live /\ polls'[k].answer = None
        BY <2>3, <4>1
      <4>4. QED
        BY <3>1, <4>2, <4>3 DEF Follows
    <3>5. QED
      BY <3>2, <3>3, <3>4
  <2>6. QED
    BY <2>3, <2>5 DEF QueueInOrder
<1>9. ASSUME NEW i \in DOMAIN polls, Answer(i) \/ Lost(i) PROVE QueueInOrder'
  <2>1. polls' = RemoveAt(polls, i)
    BY <1>9 DEF Answer, Lost
  <2>2. \A k, m \in DOMAIN polls' : k < m =>
          \E l, n \in DOMAIN polls : l < n /\ polls'[k] = polls[l] /\ polls'[m] = polls[n]
    BY <1>12, <2>1, Taken
  <2>3. ASSUME NEW k \in DOMAIN polls', NEW m \in DOMAIN polls', k < m
        PROVE  Follows(polls'[k], polls'[m])
    <3>1. PICK l \in DOMAIN polls, n \in DOMAIN polls :
            l < n /\ polls'[k] = polls[l] /\ polls'[m] = polls[n]
      BY <2>2, <2>3
    <3>2. Follows(polls[l], polls[n])
      BY <3>1 DEF QueueInOrder
    <3>3. QED
      BY <3>1, <3>2
  <2>4. QED
    BY <2>3 DEF QueueInOrder
<1>10. CASE UNCHANGED vars
  BY <1>1, <1>10 DEF vars
<1>11. QED
  BY <1>2, <1>3, <1>4, <1>5, <1>6, <1>7, <1>8, <1>9, <1>10 DEF Next

\* The scan of a launch that has yet to be answered is new to the page.
Fresh == launching # None => launching # followed /\ launching # effect.scan

LEMMA FreshStep ==
  ASSUME Sound, Fresh, [Next]_vars
  PROVE  Fresh'
<1>1. CASE UNCHANGED <<launching, followed, effect>>
  BY <1>1 DEF Fresh
<1>2. ASSUME NEW s \in Scans, Submit(s) PROVE Fresh'
  <2>1. row[s] = "none" /\ launching' = s /\ followed' = followed /\ effect' = effect
    BY <1>2 DEF Submit, Server!Launch, hookVars
  <2>2. s # None
    BY PageAssumption
  <2>3. QED
    BY <2>1, <2>2 DEF Fresh, Sound, Known
<1>3. CASE Launched \/ LaunchFails \/ Reload
  BY <1>3 DEF Launched, LaunchFails, Reload, Fresh
<1>4. CASE Render
  <2>1. launching' = launching /\ followed' = followed /\ effect'.scan = followed
    BY <1>4 DEF Render
  <2>2. QED
    BY <2>1 DEF Fresh
<1>5. QED
  BY <1>1, <1>2, <1>3, <1>4
  DEF Next, Progress, DeleteTenant, Tick, TickLate, TimePasses, Serve, Answer, Lost, vars, hookVars

\* The interval of the scan that is followed has stopped, with no render, error
\* or timeout: the page knows the end of the scan, and no answer on its way
\* says anything else.
Stopped == effect.scan = followed /\ followed # None /\ effect.status \notin Terminal /\ ~timer /\ ~gaveUp

EndIsKnown ==
  /\ shown \in Terminal /\ row[followed] \in {shown, "deleted"}
  /\ \A i \in DOMAIN polls :
       polls[i].scan = followed /\ polls[i].answer \in {None, "error", shown}

LEMMA StoppedStep ==
  ASSUME "overtake" \notin Faults, Sound, Past, LiveIsCurrent, QueueInOrder, Fresh,
         Stopped => EndIsKnown, [Next]_vars, Stopped'
  PROVE  EndIsKnown'
<1>0. /\ polls \in Seq(Poll) /\ followed \in Scans \cup {None} /\ None \notin Scans
      /\ RowsMove
  BY Fields, PageAssumption, SoundStep DEF Sound, TypeOK
<1>1. ASSUME UNCHANGED <<followed, shown, effect, timer, gaveUp, polls>> PROVE EndIsKnown'
  <2>1. Stopped /\ EndIsKnown
    BY <1>1 DEF Stopped
  <2>2. followed \in Scans /\ row[followed] \in {shown, "deleted"} /\ shown \in Terminal
    BY <1>0, <2>1 DEF Stopped, EndIsKnown
  <2>3. row[followed] \in Launchable /\ row[followed] # "none"
    BY <2>2, ReachesFacts DEF Launchable, Answers, Terminal, Server!Terminal, Server!Statuses
  <2>4. row'[followed] \in Reaches(row[followed])
    BY <1>0, <2>2, <2>3 DEF RowsMove
  <2>5. row'[followed] \in {shown, "deleted"}
    BY <2>2, <2>4, ReachesFacts
  <2>6. QED
    BY <1>1, <2>1, <2>2, <2>5 DEF EndIsKnown
<1>2. CASE (\E s \in Scans : Submit(s) \/ Progress(s)) \/ DeleteTenant
  BY <1>1, <1>2 DEF Submit, Progress, DeleteTenant, hookVars
<1>3. CASE LaunchFails
  BY <1>1, <1>3 DEF LaunchFails, hookVars
<1>4. CASE Launched
  BY <1>4 DEF Launched, Fresh, Stopped
<1>5. CASE Reload
  <2>1. effect'.scan = None
    BY <1>5 DEF Reload
  <2>2. QED
    BY <2>1 DEF Stopped
<1>6. CASE Render
  <2>1. /\ followed' = followed /\ effect'.status = shown
        /\ timer' = (followed # None /\ shown \notin Terminal)
    BY <1>6 DEF Render
  <2>2. QED
    BY <2>1 DEF Stopped
<1>7. CASE Tick
  BY <1>7 DEF Tick, hookVars, Stopped
<1>8. CASE TickLate
  BY <1>8 DEF TickLate, Stopped
<1>9. CASE TimePasses
  BY <1>1, <1>9 DEF TimePasses
<1>10. ASSUME NEW i \in DOMAIN polls, Serve(i) PROVE EndIsKnown'
  <2>1. /\ row' = row /\ followed' = followed /\ shown' = shown /\ effect' = effect
        /\ timer' = timer /\ gaveUp' = gaveUp
    BY <1>10 DEF Serve, serverVars, hookVars
  <2>2. Stopped /\ EndIsKnown
    BY <2>1 DEF Stopped
  <2>3. PICK a \in Answers \cup {"error"} :
          /\ a # "error" => a = row[polls[i].scan]
          /\ polls' = WithAnswer(polls, i, a)
    BY <1>10, ServeMeans
  <2>4. a \in Answers \cup {None, "error"}
    OBVIOUS
  <2>5. /\ DOMAIN polls' = DOMAIN polls
        /\ \A j \in DOMAIN polls : /\ polls'[j].scan = polls[j].scan
                                   /\ polls'[j].answer = IF j = i THEN a ELSE polls[j].answer
    <3>1. polls \in Seq(Poll)
      BY <1>0
    <3>2. QED
      BY <2>3, <2>4, <3>1, Replied
  <2>6. a \in {"error", shown}
    <3>1. polls[i].scan = followed /\ row[followed] \in {shown, "deleted"}
      BY <2>2 DEF EndIsKnown
    <3>2. "deleted" \notin Answers \cup {"error"}
      BY DEF Answers, Active, Terminal, Server!Active, Server!Terminal
    <3>3. QED
      BY <2>3, <3>1, <3>2
  <2>7. \A j \in DOMAIN polls : polls'[j].scan = followed /\ polls'[j].answer \in {None, "error", shown}
    BY <2>2, <2>5, <2>6 DEF EndIsKnown
  <2>8. QED
    BY <2>1, <2>2, <2>5, <2>7 DEF EndIsKnown
<1>11. ASSUME NEW i \in DOMAIN polls, Lost(i) PROVE EndIsKnown'
  <2>1. /\ row' = row /\ followed' = followed /\ shown' = shown /\ effect' = effect
        /\ timer' = timer /\ gaveUp' = gaveUp /\ polls' = RemoveAt(polls, i)
    BY <1>11 DEF Lost, serverVars, hookVars
  <2>2. Stopped /\ EndIsKnown
    BY <2>1 DEF Stopped
  <2>3. \A k \in DOMAIN polls' : \E l \in DOMAIN polls : polls'[k] = polls[l]
    BY <1>0, <2>1, Taken
  <2>4. QED
    BY <2>1, <2>2, <2>3 DEF EndIsKnown
<1>12. ASSUME NEW i \in DOMAIN polls, Answer(i) PROVE EndIsKnown'
  <2> DEFINE answer == polls[i].answer
             ends   == polls[i].live /\ answer \in Terminal \cup {"error"}
  <2>1. /\ row' = row /\ followed' = followed /\ effect' = effect
        /\ timer' = (timer /\ ~ends)
        /\ gaveUp' = (gaveUp \/ (ends /\ answer = "error"))
        /\ polls' = RemoveAt(polls, i)
        /\ IF answer = "error" THEN UNCHANGED <<shown, snapshot>>
           ELSE shown' = answer /\ snapshot' = polls[i].scan
    BY <1>12 DEF Answer, serverVars
  <2>2. answer # None
    BY <1>12 DEF Answer, Served, Unserved
  <2>3. \A k \in DOMAIN polls' : \E l \in DOMAIN polls : polls'[k] = polls[l]
    BY <1>0, <2>1, Taken
  <2>4. CASE ~timer
    <3>1. Stopped /\ EndIsKnown
      BY <2>1, <2>4 DEF Stopped
    <3>2. shown' = shown
      BY <2>1, <2>2, <3>1 DEF EndIsKnown
    <3>3. QED
      BY <2>1, <2>3, <3>1, <3>2 DEF EndIsKnown
  <2>5. CASE timer
    <3>1. ~timer' /\ ~gaveUp' /\ effect.scan = followed
      BY <2>1 DEF Stopped
    <3>2. polls[i].live /\ answer \in Terminal /\ answer # "error"
      BY <2>1, <2>5, <3>1
    <3>3. polls[i].scan = followed
      BY <3>1, <3>2 DEF LiveIsCurrent
    <3>4. row[followed] \in Reaches(answer) /\ Reaches(answer) = {answer, "deleted"}
      BY <3>2, <3>3, ReachesFacts DEF Past, AnswersWereTrue, Answers
    <3>5. shown' = answer
      BY <2>1, <3>2
    <3>6. \A l \in DOMAIN polls : i <= l
      BY <1>12 DEF Answer, InTurn
    <3> HIDE DEF answer, ends
    <3>7. ASSUME NEW l \in DOMAIN polls
          PROVE  polls[l].scan = followed /\ polls[l].answer \in {None, "error", answer}
      <4>1. polls[l].answer \in Answers \cup {None, "error"}
        BY Fields DEF Sound
      <4>2. CASE l = i
        BY <3>3, <4>2 DEF answer
      <4>3. CASE l # i
        <5>1. i < l
          BY <1>0, <3>6, <4>3
        <5>2. Follows(polls[i], polls[l])
          BY <5>1 DEF QueueInOrder
        <5>3. polls[l].live
          BY <3>2, <5>2 DEF Follows
        <5>4. polls[l].scan = followed
          BY <3>1, <5>3 DEF LiveIsCurrent
        <5>5. polls[l].answer \in Answers => polls[l].answer \in {answer, "deleted"}
          BY <3>2, <3>3, <3>4, <5>2, <5>4 DEF Follows, Answers, answer
        <5>6. "deleted" \notin Answers
          BY DEF Answers, Active, Terminal, Server!Active, Server!Terminal
        <5>7. QED
          BY <4>1, <5>4, <5>5, <5>6
      <4>4. QED
        BY <4>2, <4>3
    <3>8. \A k \in DOMAIN polls' :
            polls'[k].scan = followed /\ polls'[k].answer \in {None, "error", answer}
      BY <2>3, <3>7
    <3>9. QED
      BY <2>1, <3>2, <3>4, <3>5, <3>8 DEF EndIsKnown
  <2>6. QED
    BY <2>4, <2>5
<1>13. CASE UNCHANGED vars
  BY <1>1, <1>13 DEF vars, hookVars
<1>14. QED
  BY <1>2, <1>3, <1>4, <1>5, <1>6, <1>7, <1>8, <1>9, <1>10, <1>11, <1>12, <1>13 DEF Next

(***************************************************************************)
(* Theorems                                                                *)
(***************************************************************************)
\* TypeOK: whatever is launched, lost, late, deleted or reloaded, no answer
\* leaves the page in a state the hook does not know, and never more polls are
\* in flight than may be.
THEOREM PageTypeCorrect == Spec => []TypeOK
<1>1. Sound => TypeOK
  BY DEF Sound
<1>2. QED
  BY <1>1, SoundHolds, PTL

\* What the page shows was true of the scan that was asked about, and what its
\* lists show as finished is.  When that scan is the one that is followed, a
\* completed scan has its report: what useScanProgress gets wrong, it gets wrong
\* because the answer is another scan's.
ShowsThePast ==
  /\ ShownWasTrue /\ ListedHaveFinished
  /\ shown = "COMPLETED" /\ Subject = followed => stored[followed] \/ row[followed] = "deleted"

THEOREM PageShowsThePast == Spec => []ShowsThePast
<1>1. Sound /\ Past => ShowsThePast
  <2> SUFFICES ASSUME Sound, Past PROVE ShowsThePast
    OBVIOUS
  <2>1. ASSUME shown = "COMPLETED", Subject = followed
        PROVE  stored[followed] \/ row[followed] = "deleted"
    <3>1. shown # None /\ "COMPLETED" \in Terminal
      BY <2>1, PageAssumption DEF Server!Statuses, Terminal, Server!Terminal
    <3>2. followed \in Scans
      BY <3>1 DEF Sound, TypeOK
    <3>3. row[followed] \in {"COMPLETED", "deleted"}
      BY <2>1, <3>1, ReachesFacts DEF Past, ShownWasTrue
    <3>4. QED
      BY <3>2, <3>3 DEF Sound, Settled
  <2>2. QED
    BY <2>1 DEF ShowsThePast, Past
<1>2. QED
  BY <1>1, PastHolds, PTL

\* A page that has rendered a scan as finished has no interval, and no poll in
\* flight will refresh it: "a completed scan does not leave a timer running".
NothingLeftRunning ==
  Rendered /\ shown \in Terminal => ~timer /\ \A i \in DOMAIN polls : ~polls[i].live

THEOREM FinishedPagesAreQuiet == Spec => []NothingLeftRunning
<1>1. Sound /\ LiveIsCurrent => NothingLeftRunning
  <2> SUFFICES ASSUME Sound, LiveIsCurrent, Rendered, shown \in Terminal
               PROVE  ~timer /\ \A i \in DOMAIN polls : ~polls[i].live
    BY DEF NothingLeftRunning
  <2>1. effect.status = shown
    BY DEF Rendered
  <2>2. QED
    BY <2>1 DEF Sound, Known, LiveIsCurrent
<1>2. QED
  BY <1>1, LiveHolds, PTL

\* The interval stops for a reason: an error or the timeout, a render of
\* another state or scan, or the end of the very scan it asks about.
IntervalStops ==
  timer /\ ~timer' =>
    \/ gaveUp'
    \/ effect' # effect
    \/ row[effect.scan] \in Terminal \cup {"deleted"}

THEOREM IntervalsStopForAReason == Spec => [][IntervalStops]_vars
<1>1. ASSUME Sound, Past, LiveIsCurrent, [Next]_vars PROVE IntervalStops
  <2> SUFFICES ASSUME timer, ~timer', ~gaveUp', effect' = effect
               PROVE  row[effect.scan] \in Terminal \cup {"deleted"}
    BY DEF IntervalStops
  <2>1. ASSUME timer' = timer PROVE FALSE
    BY <2>1
  <2>2. ~ (\E s \in Scans : Submit(s) \/ Progress(s))
    BY <2>1 DEF Submit, Progress, hookVars
  <2>3. ~ (DeleteTenant \/ Launched \/ LaunchFails \/ Tick \/ TimePasses \/ UNCHANGED vars)
    BY <2>1 DEF DeleteTenant, Launched, LaunchFails, Tick, TimePasses, hookVars, vars
  <2>4. ~TickLate
    BY DEF TickLate
  <2>5. ASSUME Reload PROVE FALSE
    <3>1. effect'.scan = None
      BY <2>5 DEF Reload
    <3>2. effect.scan = None
      BY <3>1
    <3>3. QED
      BY <1>1, <3>2 DEF Sound, Known
  <2>6. CASE Render
    <3>1. effect' = [scan |-> followed, status |-> shown] /\ ~(effect = [scan |-> followed, status |-> shown])
      BY <2>6 DEF Render, Rendered
    <3>2. QED
      BY <3>1
  <2>7. ASSUME NEW i \in DOMAIN polls, Serve(i) \/ Lost(i) PROVE FALSE
    BY <2>1, <2>7 DEF Serve, Lost, hookVars
  <2>8. ASSUME NEW i \in DOMAIN polls, Answer(i)
        PROVE  row[effect.scan] \in Terminal \cup {"deleted"}
    <3> DEFINE ends == polls[i].live /\ polls[i].answer \in Terminal \cup {"error"}
    <3>1. /\ timer' = (timer /\ ~ends)
          /\ gaveUp' = (gaveUp \/ (ends /\ polls[i].answer = "error"))
      BY <2>8 DEF Answer
    <3>2. ends /\ polls[i].answer # "error"
      BY <3>1
    <3>3. polls[i].scan = effect.scan /\ polls[i].answer \in Terminal
      <4>1. polls[i].live /\ polls[i].answer \in Terminal
        BY <3>2
      <4> HIDE DEF ends
      <4>2. QED
        BY <1>1, <4>1 DEF LiveIsCurrent
    <3> HIDE DEF ends
    <3>4. row[polls[i].scan] \in Reaches(polls[i].answer)
      BY <1>1, <3>3 DEF Past, AnswersWereTrue, Answers
    <3>5. QED
      BY <3>3, <3>4, ReachesFacts
  <2>9. QED
    BY <1>1, <2>2, <2>3, <2>4, <2>5, <2>6, <2>7, <2>8 DEF Next
<1>2. QED
  BY <1>1, LiveHolds, PTL DEF Spec

\* While polls are answered in the order in which they were sent, a page that
\* has rendered a scan as unfinished goes on asking about it, unless an error or
\* the timeout ended the polling: overlapping, late and lost polls, and those of
\* the scan before, do not leave it with a state that nothing corrects.
KeepsAsking == Rendered /\ shown \in Active /\ ~gaveUp => timer

THEOREM UnfinishedPagesKeepAsking ==
  ASSUME "overtake" \notin Faults
  PROVE  Spec => []KeepsAsking
<1> DEFINE Known1 == Sound /\ Past /\ LiveIsCurrent
           Known2 == QueueInOrder /\ Fresh /\ (Stopped => EndIsKnown)
<1>1. Init => Known2
  <2> SUFFICES ASSUME Init PROVE Known2
    OBVIOUS
  <2>1. DOMAIN polls = {} /\ launching = None /\ followed = None
    BY NoPolls DEF Init
  <2>2. QED
    BY <2>1 DEF QueueInOrder, Fresh, Stopped
<1>2. Known1 /\ Known2 /\ [Next]_vars => Known2'
  BY QueueStep, FreshStep, StoppedStep
<1>3. Known1 /\ Known2 => KeepsAsking
  <2> SUFFICES ASSUME Known1, Known2, Rendered, shown \in Active, ~gaveUp, ~timer
               PROVE  FALSE
    BY DEF KeepsAsking
  <2>1. effect.scan = followed /\ effect.status = shown
    BY DEF Rendered
  <2>2. shown # None /\ shown \notin Terminal
    BY PageAssumption DEF Active, Terminal, Server!Active, Server!Terminal, Server!Statuses
  <2>3. followed # None
    BY <2>2 DEF Sound, TypeOK
  <2>4. Stopped
    BY <2>1, <2>2, <2>3 DEF Stopped
  <2>5. QED
    BY <2>2, <2>4 DEF EndIsKnown
<1> HIDE DEF Known1, Known2
<1>4. Spec => []Known1
  BY LiveHolds DEF Known1
<1>5. QED
  BY <1>1, <1>2, <1>3, <1>4, PTL DEF Spec
=============================================================================
