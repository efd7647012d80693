------------------------------ MODULE ScanPage ------------------------------
(***************************************************************************)
(* The page that launches scans of a tenant and follows the latest: the    *)
(* hook useScanProgress with the panel around it, between the operator and *)
(* the rows that ScanStatus promises.  The browser runs one callback at a  *)
(* time, so an action is one callback; polls overlap, answers take any     *)
(* time, and React renders some time after a state change.                 *)
(***************************************************************************)
EXTENDS Naturals, SequencesExt

CONSTANTS
  Scans,    \* scans of the tenant of the page
  None,     \* null
  MaxPolls, \* bound: polls in flight at once
  Faults    \* what else may happen

FaultKinds == {"error",    \* the route, or the launch, answers with an error
               "lost",     \* fetch rejects
               "overtake", \* polls are served and answered in any order
               "timeout",  \* POLL_TIMEOUT_MS pass
               "reload"}   \* the operator reloads the page

VARIABLES
  row, stored,  \* the rows of the scans and whether they have findings
  listed,       \* the scans that the lists of the page show as finished
  launching,    \* the scan whose launch has yet to be answered
  followed,     \* scanId
  shown,        \* status
  snapshot,     \* the scan whose counts are shown
  effect,       \* [scan, status] the effect ran for last, which is what is rendered
  timer,        \* its interval is running
  late,         \* POLL_TIMEOUT_MS have passed since startedAt
  gaveUp,       \* history: an error or the timeout ended the polling
  polls         \* those in flight, in the order in which they were sent

Server == INSTANCE ScanStatus WITH status <- row, hasFindings <- stored

serverVars == <<row, stored>>
hookVars   == <<followed, shown, snapshot, effect, timer, late, gaveUp>>
vars       == <<serverVars, listed, launching, hookVars, polls>>

Active   == Server!Active
Terminal == Server!Terminal
Finished == {s \in Scans : row[s] \in Terminal}

ASSUME PageAssumption ==
  /\ None \notin Scans \cup Server!Statuses \cup {"error"}
  /\ MaxPolls \in Nat \ {0} /\ Faults \subseteq FaultKinds

\* answer is None until the route has served the poll; live says that the
\* effect which sent it has not been cleaned up.
Poll == [scan : Scans, live : BOOLEAN, answer : Active \cup Terminal \cup {None, "error"}]

TypeOK ==
  /\ row \in [Scans -> Server!Statuses]
  /\ stored \in [Scans -> BOOLEAN]
  /\ listed \subseteq Scans
  /\ launching \in Scans \cup {None}
  /\ followed \in Scans \cup {None} /\ snapshot \in Scans \cup {None}
  /\ shown \in Active \cup Terminal \cup {None}
  /\ effect \in [scan : Scans \cup {None}, status : Active \cup Terminal \cup {None}]
  /\ timer \in BOOLEAN /\ late \in BOOLEAN /\ gaveUp \in BOOLEAN
  /\ polls \in Seq(Poll) /\ Len(polls) <= MaxPolls
  /\ followed = None <=> shown = None

\* A page that was opened before any scan was launched.
Init ==
  /\ Server!Init
  /\ listed = {} /\ launching = None
  /\ followed = None /\ shown = None /\ snapshot = None
  /\ effect = [scan |-> None, status |-> None]
  /\ timer = FALSE /\ late = FALSE /\ gaveUp = FALSE
  /\ polls = <<>>

Rendered == effect = [scan |-> followed, status |-> shown]

(***************************************************************************)
(* The panel                                                               *)
(***************************************************************************)
\* The button is enabled by what was rendered.  The API inserts the row.
Submit(s) ==
  /\ launching = None
  /\ Rendered /\ shown \notin Active
  /\ \A r \in Scans : row[r] # "deleted"
  /\ Server!Launch(s)
  /\ launching' = s
  /\ UNCHANGED <<listed, hookVars, polls>>

\* The action is answered, with the page refreshed, and the effect of the panel
\* calls watch.
Launched ==
  /\ launching # None
  /\ launching' = None
  /\ followed' = launching /\ shown' = "PENDING" /\ snapshot' = None
  /\ late' = FALSE /\ gaveUp' = FALSE
  /\ listed' = Finished
  /\ UNCHANGED <<serverVars, effect, timer, polls>>

\* The API fails after the insert: the panel shows a message and follows what
\* it followed before.
LaunchFails ==
  /\ "error" \in Faults
  /\ launching # None
  /\ launching' = None
  /\ UNCHANGED <<serverVars, listed, hookVars, polls>>

\* The page is opened anew, and follows a scan of its history that has not
\* finished, if there is one.  The polls of the old page have nobody to tell.
Reload ==
  /\ "reload" \in Faults
  /\ LET found == {s \in Scans : row[s] \in Active}
     IN  \E s \in IF found = {} THEN {None} ELSE found :
           /\ followed' = s
           /\ shown' = IF s = None THEN None ELSE row[s]
  /\ snapshot' = None /\ late' = FALSE /\ gaveUp' = FALSE
  /\ effect' = [scan |-> None, status |-> None] /\ timer' = FALSE
  /\ polls' = <<>>
  /\ listed' = Finished
  /\ launching' = None
  /\ UNCHANGED serverVars

(***************************************************************************)
(* The hook                                                                *)
(***************************************************************************)
\* Mutant of Render: a scan that is being followed is not followed again.
RenderOnce ==
  /\ ~Rendered
  /\ effect' = [scan |-> followed, status |-> shown]
  /\ timer' = (followed # effect.scan /\ followed # None /\ shown \notin Terminal)
  /\ polls' = [i \in DOMAIN polls |-> [polls[i] EXCEPT !.live = FALSE]]
  /\ UNCHANGED <<serverVars, listed, launching, followed, shown, snapshot, late, gaveUp>>

\* A render with a new scan or status cleans the effect up, which cancels the
\* polls it sent and its interval, and runs it again.
Render ==
  /\ ~Rendered
  /\ effect' = [scan |-> followed, status |-> shown]
  /\ timer' = (followed # None /\ shown \notin Terminal)
  /\ polls' = [i \in DOMAIN polls |-> [polls[i] EXCEPT !.live = FALSE]]
  /\ UNCHANGED <<serverVars, listed, launching, followed, shown, snapshot, late, gaveUp>>

\* The interval elapses: another poll, whatever became of the last.
Tick ==
  /\ timer /\ ~late
  /\ Len(polls) < MaxPolls
  /\ polls' = Append(polls, [scan |-> effect.scan, live |-> TRUE, answer |-> None])
  /\ UNCHANGED <<serverVars, listed, launching, hookVars>>

TickLate ==
  /\ timer /\ late
  /\ timer' = FALSE /\ gaveUp' = TRUE
  /\ UNCHANGED <<serverVars, listed, launching, followed, shown, snapshot, effect, late, polls>>

TimePasses ==
  /\ "timeout" \in Faults
  /\ followed # None /\ ~late
  /\ late' = TRUE
  /\ UNCHANGED <<serverVars, listed, launching, followed, shown, snapshot, effect, timer, gaveUp, polls>>

InTurn(i, waiting) == "overtake" \in Faults \/ \A j \in waiting : i <= j
Unserved == {i \in DOMAIN polls : polls[i].answer = None}
Served   == DOMAIN polls \ Unserved

\* Mutant of Serve: the route passes on the row of a scan that is gone.
ServeAnything(i) ==
  /\ i \in Unserved /\ InTurn(i, Unserved)
  /\ polls' = [polls EXCEPT ![i].answer = row[polls[i].scan]]
  /\ UNCHANGED <<serverVars, listed, launching, hookVars>>

\* The route of the console reads the row through the API, and answers 404 for
\* one that is gone.
Serve(i) ==
  /\ i \in Unserved /\ InTurn(i, Unserved)
  /\ LET status == row[polls[i].scan]
     IN  \E answer \in {IF status = "deleted" THEN "error" ELSE status}
                         \cup (Faults \cap {"error"}) :
           polls' = [polls EXCEPT ![i].answer = answer]
  /\ UNCHANGED <<serverVars, listed, launching, hookVars>>

\* Mutant of Answer: an error is not taken for the end.
AnswerRetriesErrors(i) ==
  /\ i \in Served /\ InTurn(i, DOMAIN polls)
  /\ LET answer == polls[i].answer
     IN  /\ IF answer = "error"
            THEN UNCHANGED <<shown, snapshot>>
            ELSE shown' = answer /\ snapshot' = polls[i].scan
         /\ timer' = (timer /\ ~(polls[i].live /\ answer \in Terminal))
  /\ polls' = RemoveAt(polls, i)
  /\ UNCHANGED <<serverVars, listed, launching, followed, effect, late, gaveUp>>

\* poll and what follows it: the status is set whoever asked, but only a poll
\* of the current effect clears the interval and refreshes the page.  An error
\* counts as finished.
Answer(i) ==
  /\ i \in Served /\ InTurn(i, DOMAIN polls)
  /\ LET answer == polls[i].answer
         ends   == polls[i].live /\ answer \in Terminal \cup {"error"}
     IN  /\ IF answer = "error"
            THEN UNCHANGED <<shown, snapshot>>
            ELSE shown' = answer /\ snapshot' = polls[i].scan
         /\ timer' = (timer /\ ~ends)
         /\ gaveUp' = (gaveUp \/ (ends /\ answer = "error"))
         /\ listed' = IF ends THEN Finished ELSE listed
  /\ polls' = RemoveAt(polls, i)
  /\ UNCHANGED <<serverVars, launching, followed, effect, late>>

\* A fetch that rejects is handled by nobody.
Lost(i) ==
  /\ "lost" \in Faults
  /\ polls' = RemoveAt(polls, i)
  /\ UNCHANGED <<serverVars, listed, launching, hookVars>>

(***************************************************************************)
(* The rest of the system                                                  *)
(***************************************************************************)
Progress(s) ==
  /\ Server!Claim(s) \/ Server!Complete(s) \/ Server!Fail(s)
  /\ UNCHANGED <<listed, launching, hookVars, polls>>

DeleteTenant ==
  /\ Server!Remove(Scans)
  /\ UNCHANGED <<listed, launching, hookVars, polls>>

Next ==
  \/ \E s \in Scans : Submit(s) \/ Progress(s)
  \/ Launched \/ LaunchFails \/ Reload
  \/ Render \/ Tick \/ TickLate \/ TimePasses
  \/ \E i \in DOMAIN polls : Serve(i) \/ Answer(i) \/ Lost(i)
  \/ DeleteTenant

Spec == Init /\ [][Next]_vars

\* Scans finish, which ScanLifecycle shows; the browser renders and keeps its
\* intervals; requests are answered, if need be when they are asked again.
Fairness ==
  /\ \A s \in Scans : WF_vars(Progress(s))
  /\ WF_vars(Launched \/ LaunchFails) /\ WF_vars(Render) /\ WF_vars(Tick) /\ WF_vars(TickLate)
  /\ SF_vars(\E i \in DOMAIN polls : Serve(i)) /\ SF_vars(\E i \in DOMAIN polls : Answer(i))

FairSpec == Spec /\ Fairness

(***************************************************************************)
(* Properties                                                              *)
(***************************************************************************)
JustFollowed(s) ==
  followed = s /\ shown \in Active /\ effect.scan # s /\ ~timer /\ polls = <<>>

\* "Follow a scan until it reaches a terminal state": a page that begins to
\* follow a scan, with no poll of its past in flight, ends on the state in which
\* the scan ended, however many of its polls overlap or are lost, unless an
\* error or the timeout ends the polling, the tenant goes, or another scan is
\* followed.  It needs answers that keep their order: with fault overtake, which
\* the run leaves out, an older answer may replace the final one.
EndsOnFinalState ==
  \A s \in Scans :
    JustFollowed(s) ~>
      \/ shown = row[s] /\ row[s] \in Terminal
      \/ followed # s \/ row[s] = "deleted" \/ gaveUp

\* "A completed scan does not leave a timer running": whatever is launched,
\* lost, late or deleted, in the end nothing polls any more.
PollingEnds == <>[](~timer /\ polls = <<>>)

(***************************************************************************)
(* What the code does not keep                                             *)
(***************************************************************************)
\* A page that shows a scan as completed links to its report.  A late answer
\* about the scan before shows the new one as completed too, and no poll ever
\* corrects it.
ShownCompletedIsStored ==
  shown = "COMPLETED" => stored[followed] \/ row[followed] = "deleted"

\* "History and reports pick up the finished scan without a manual reload": not
\* when the answer that says so was asked for before the last render.
FinishedIsListed ==
  \A s \in Scans :
    followed = s /\ shown \in Terminal ~> s \in listed \/ followed # s \/ row[s] = "deleted"
=============================================================================
