----------------------------- MODULE Connectivity -----------------------------
(***************************************************************************)
(* The connectivity of one source: its last_status and the alert without a *)
(* rule that the alert router opens and resolves.                          *)
(*                                                                         *)
(* The lines of a pull report, then its outcome; so do the records of push *)
(* requests, at the same time. A report writes last_status and, if it is a *)
(* check or an outcome, goes through EvaluateSourceStatus: under the       *)
(* router's mutex it counts unreachable reports, then it looks for an open *)
(* alert and opens or resolves one in statements of their own.             *)
(***************************************************************************)
EXTENDS Naturals, FiniteSets

CONSTANTS
    Pullers,    \* pull loops of the source
    Pushers,    \* push requests to it, one record after the other
    AlertIds,   \* bound: alerts open or in hand at once
    Threshold,  \* unreachableConsecutiveThreshold
    Window,     \* unreachableContinuousWindow
    MaxTime     \* bound: the clock stops here

ASSUME ConnectivityAssumption ==
    /\ Pullers \cap Pushers = {}
    /\ AlertIds # {}
    /\ Threshold \in Nat \ {0} /\ Window \in Nat /\ MaxTime \in Nat

VARIABLES
    lastStatus,  \* the last_status column of the source
    open,        \* its alerts without a rule that are not resolved
    memo,        \* sourceStatuses: unreachable reports counted, and since when
    rep,         \* what each reporter is doing
    clock,
    overlapped,  \* history: evaluations met since the table was last in order
    failed,      \* history: a statement failed, or a restart cut an evaluation off
    failures,    \* history: unreachable reports since another was counted, and since when
    verdict      \* history: the status of the last report that was counted

world == <<lastStatus, open, memo, clock>>
histories == <<overlapped, failed, failures, verdict>>
vars == <<world, rep, histories>>

-----------------------------------------------------------------------------
Reporters == Pullers \cup Pushers
Statuses == {"ok", "unreachable", "error"}
Times == 0..MaxTime

\* Counts above the threshold are not told apart.
Count == [count: 0..Threshold, since: Times]
NoCount == [count |-> 0, since |-> 0]
CountOn(c, now) == [count |-> IF c.count < Threshold THEN c.count + 1 ELSE Threshold,
                    since |-> IF c.count = 0 THEN now ELSE c.since]

\* A pull that is "running" reads lines; "outcome" marks the report of its end.
Reporter == [pc: {"idle", "running", "mark", "enter", "count", "find", "fire", "resolve"},
             status: Statuses, check: BOOLEAN, outcome: BOOLEAN, emitted: BOOLEAN,
             now: Times, alert: AlertIds]
Idle == [pc |-> "idle", status |-> "ok", check |-> FALSE, outcome |-> FALSE,
         emitted |-> FALSE, now |-> 0, alert |-> CHOOSE a \in AlertIds : TRUE]

\* Inside EvaluateSourceStatus.
Evaluating(r) == rep[r].pc \in {"count", "find", "fire", "resolve"}
Quiet == \A r \in Reporters : rep[r].pc \in {"idle", "running"}

\* Back to the next line, or done.
Return(r) == IF r \in Pullers /\ ~rep[r].outcome
             THEN [Idle EXCEPT !.pc = "running", !.emitted = rep[r].emitted]
             ELSE Idle

\* An evaluation of the latest report ends, alone, and leaves the table as its status
\* wants it: whatever had put it out of order is made good.
MakesGood(r, table) ==
    /\ verdict = rep[r].status
    /\ \A q \in Reporters \ {r} : ~Evaluating(q)
    /\ Cardinality(table) = IF rep[r].status = "ok" THEN 0 ELSE 1

EndsWith(r, table) ==
    /\ rep' = [rep EXCEPT ![r] = Return(r)]
    /\ overlapped' = (overlapped /\ ~MakesGood(r, table))
    /\ failed' = (failed /\ ~MakesGood(r, table))

Init ==
    /\ lastStatus = "unreachable"
    /\ open = {}
    /\ memo = NoCount
    /\ rep = [r \in Reporters |-> Idle]
    /\ clock = 0
    /\ overlapped = FALSE
    /\ failed = FALSE
    /\ failures = NoCount
    /\ verdict = "ok"

-----------------------------------------------------------------------------
(* What is reported                                                         *)

StartPull(r) ==
    /\ r \in Pullers
    /\ rep[r].pc = "idle"
    /\ rep' = [rep EXCEPT ![r].pc = "running"]
    /\ UNCHANGED <<world, histories>>

\* Deviation: the status of a check is passed on as it is.
IngestRaw(r, s, isCheck) ==
    /\ \/ r \in Pullers /\ rep[r].pc = "running"
       \/ r \in Pushers /\ rep[r].pc = "idle"
    /\ s = "ok" \/ (s = "error" /\ isCheck)
    /\ rep' = [rep EXCEPT ![r] = [Idle EXCEPT !.pc = "mark", !.check = isCheck,
                     !.status = IF s = "error" THEN "critical" ELSE s, !.emitted = TRUE]]
    /\ UNCHANGED <<world, histories>>

\* A metric, a check or an event is stored. A check that is "critical" is an error,
\* anything else is "ok".
Ingest(r, s, isCheck) ==
    /\ \/ r \in Pullers /\ rep[r].pc = "running"
       \/ r \in Pushers /\ rep[r].pc = "idle"
    /\ s = "ok" \/ (s = "error" /\ isCheck)
    /\ rep' = [rep EXCEPT ![r] = [Idle EXCEPT !.pc = "mark", !.status = s,
                                              !.check = isCheck, !.emitted = TRUE]]
    /\ UNCHANGED <<world, histories>>

\* ReportPullOutcome: invalid lines are an error, a subprocess or an ingest that
\* fails is unreachable. The outcome "ok" leaves the status of emitted lines alone.
Outcome(r, s) ==
    /\ r \in Pullers
    /\ rep[r].pc = "running"
    /\ rep' = [rep EXCEPT ![r] = [@ EXCEPT !.status = s, !.outcome = TRUE,
                                           !.pc = IF s # "ok" \/ ~rep[r].emitted
                                                  THEN "mark" ELSE "enter"]]
    /\ UNCHANGED <<world, histories>>

\* A cancelled pull reports nothing.
Cancelled(r) ==
    /\ r \in Pullers
    /\ rep[r].pc = "running"
    /\ rep' = [rep EXCEPT ![r] = Idle]
    /\ UNCHANGED <<world, histories>>

\* MarkSeen; its error is dropped.
Mark(r) ==
    /\ rep[r].pc = "mark"
    /\ \/ lastStatus' = rep[r].status
       \/ UNCHANGED lastStatus
    /\ rep' = [rep EXCEPT ![r] = IF rep[r].check \/ rep[r].outcome
                                 THEN [rep[r] EXCEPT !.pc = "enter"] ELSE Return(r)]
    /\ UNCHANGED <<open, memo, clock, histories>>

-----------------------------------------------------------------------------
(* EvaluateSourceStatus                                                     *)

\* The time is taken before the mutex.
Enter(r) ==
    /\ rep[r].pc = "enter"
    /\ rep' = [rep EXCEPT ![r] = [@ EXCEPT !.pc = "count", !.now = clock]]
    /\ overlapped' = (overlapped \/ \E q \in Reporters \ {r} : Evaluating(q))
    /\ UNCHANGED <<world, failed, failures, verdict>>

\* Deviation: an error does not end the count.
ErrorCountsOn(r) ==
    LET s == rep[r].status
        c == CASE s = "unreachable" -> CountOn(memo, rep[r].now)
               [] s = "error" -> memo
               [] OTHER -> NoCount IN
    /\ rep[r].pc = "count"
    /\ memo' = c
    /\ verdict' = s
    /\ failures' = IF s = "unreachable" THEN CountOn(failures, rep[r].now) ELSE NoCount
    /\ rep' = [rep EXCEPT ![r] =
                 IF /\ s = "unreachable" /\ c.count < Threshold
                    /\ rep[r].now < c.since + Window
                 THEN Return(r) ELSE [rep[r] EXCEPT !.pc = "find"]]
    /\ UNCHANGED <<lastStatus, open, clock, overlapped, failed>>

\* Under the mutex: an unreachable report is counted, any other ends the count.
CountReport(r) ==
    LET s == rep[r].status
        c == IF s = "unreachable" THEN CountOn(memo, rep[r].now) ELSE NoCount IN
    /\ rep[r].pc = "count"
    /\ memo' = c
    /\ verdict' = s
    /\ failures' = IF s = "unreachable" THEN CountOn(failures, rep[r].now) ELSE NoCount
    /\ rep' = [rep EXCEPT ![r] =
                 IF /\ s = "unreachable" /\ c.count < Threshold
                    /\ rep[r].now < c.since + Window
                 THEN Return(r) ELSE [rep[r] EXCEPT !.pc = "find"]]
    /\ UNCHANGED <<lastStatus, open, clock, overlapped, failed>>

\* Deviation: an alert is opened without looking for one.
FindNoOne(r) ==
    /\ rep[r].pc = "find"
    /\ \/ /\ rep[r].status = "ok"
          /\ \E a \in open :
                rep' = [rep EXCEPT ![r] = [@ EXCEPT !.pc = "resolve", !.alert = a]]
       \/ /\ rep[r].status # "ok"
          /\ rep' = [rep EXCEPT ![r].pc = "fire"]
    /\ UNCHANGED <<world, histories>>

\* FindOpenSystemAlert has what the status wants: an "ok" no open alert, any other one.
FindInOrder(r) ==
    /\ rep[r].pc = "find"
    /\ (rep[r].status = "ok") <=> (open = {})
    /\ EndsWith(r, open)
    /\ UNCHANGED <<world, failures, verdict>>

\* FindOpenSystemAlert has not: an open alert, one of them, is to be resolved, or one
\* to be opened.
FindWork(r) ==
    /\ rep[r].pc = "find"
    /\ \/ /\ rep[r].status = "ok"
          /\ \E a \in open :
                rep' = [rep EXCEPT ![r] = [@ EXCEPT !.pc = "resolve", !.alert = a]]
       \/ /\ rep[r].status # "ok" /\ open = {}
          /\ rep' = [rep EXCEPT ![r].pc = "fire"]
    /\ UNCHANGED <<world, histories>>

\* fire: the alert gets an identifier no one has.
Fire(r, a) ==
    /\ rep[r].pc = "fire"
    /\ a \notin open
    /\ \A q \in Reporters : rep[q].pc = "resolve" => rep[q].alert # a
    /\ open' = open \cup {a}
    /\ EndsWith(r, open')
    /\ UNCHANGED <<lastStatus, memo, clock, failures, verdict>>

\* Deviation: an alert is resolved in the frame only.
ResolveNothing(r) ==
    /\ rep[r].pc = "resolve"
    /\ EndsWith(r, open \ {rep[r].alert})
    /\ UNCHANGED <<world, failures, verdict>>

Resolve(r) ==
    /\ rep[r].pc = "resolve"
    /\ open' = open \ {rep[r].alert}
    /\ EndsWith(r, open')
    /\ UNCHANGED <<lastStatus, memo, clock, failures, verdict>>

\* A statement fails: the error is logged or dropped.
Fail(r) ==
    /\ rep[r].pc \in {"find", "fire", "resolve"}
    /\ failed' = TRUE
    /\ rep' = [rep EXCEPT ![r] = Return(r)]
    /\ UNCHANGED <<world, overlapped, failures, verdict>>

-----------------------------------------------------------------------------
Tick ==
    /\ clock < MaxTime
    /\ clock' = clock + 1
    /\ UNCHANGED <<lastStatus, open, memo, rep, histories>>

\* The process dies and starts again: the count is lost, the tables stay.
Restart ==
    /\ memo' = NoCount
    /\ rep' = [r \in Reporters |-> Idle]
    /\ failed' = (failed \/ ~Quiet)
    /\ UNCHANGED <<lastStatus, open, clock, overlapped, failures, verdict>>

Report(r) ==
    \/ StartPull(r)
    \/ \E s \in Statuses, isCheck \in BOOLEAN : Ingest(r, s, isCheck)
    \/ \E s \in Statuses : Outcome(r, s)
    \/ Cancelled(r)
    \/ Mark(r)
    \/ Enter(r) \/ CountReport(r)
    \/ FindInOrder(r) \/ FindWork(r) \/ Resolve(r) \/ Fail(r)
    \/ \E a \in AlertIds : Fire(r, a)

Next ==
    \/ \E r \in Reporters : Report(r)
    \/ Tick
    \/ Restart

Spec == Init /\ [][Next]_vars

-----------------------------------------------------------------------------
(* Properties                                                               *)

TypeOK ==
    /\ lastStatus \in Statuses
    /\ open \subseteq AlertIds
    /\ memo \in Count
    /\ rep \in [Reporters -> Reporter]
    /\ clock \in Times
    /\ overlapped \in BOOLEAN
    /\ failed \in BOOLEAN
    /\ failures \in Count
    /\ verdict \in Statuses

\* A source has one open connectivity alert, unless evaluations of it met: pulls and
\* pushes look for one and open one in two statements (fireSystemAlertIfNotOpen).
OneSystemAlert == overlapped \/ Cardinality(open) <= 1

\* An alert for an unreachable source is opened only after Threshold reports in a row,
\* or Window after the first of them, whatever restarts and other reports came in
\* between, unless evaluations met (EvaluateSourceStatus).
UnreachableIsDebounced ==
    [][\A r \in Reporters, a \in AlertIds :
          Fire(r, a) /\ rep[r].status = "unreachable" /\ ~overlapped =>
             \/ failures.count = Threshold
             \/ rep[r].now >= failures.since + Window]_vars

\* When no report is on its way, the table agrees with the reports, unless evaluations
\* met or a statement failed: no alert is open after an "ok", one is after an error
\* and after unreachable reports enough (EvaluateSourceStatus).
AlertFollowsReports ==
    Quiet /\ ~overlapped /\ ~failed =>
        /\ verdict = "ok" => open = {}
        /\ verdict = "error" \/ memo.count = Threshold => open # {}
=============================================================================
