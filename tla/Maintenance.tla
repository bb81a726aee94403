----------------------------- MODULE Maintenance -----------------------------
(***************************************************************************)
(* Retention of metrics: the maintenance that rolls old samples up into    *)
(* hours, deletes them, deletes hours that are older still, and keeps a    *)
(* row about each of its runs.                                             *)
(*                                                                         *)
(* The roll-up, the deletions and the commit are one transaction, and the  *)
(* database has one connection: no other statement runs in between. The    *)
(* row of the run is written before and after it, outside of it. Samples   *)
(* arrive meanwhile, with any time stamp their sender chose, as long as it *)
(* is not too far in the future; one that was deleted may be sent again.   *)
(*                                                                         *)
(* What PushIngest names as well carries an M here, so that one module can *)
(* be about both.                                                          *)
(***************************************************************************)
EXTENDS Integers

CONSTANTS
    Samples,            \* metric samples of one series
    HourLen,            \* length of an hour
    Retention,          \* how long samples are kept
    RollupRetention,    \* how long hours are kept
    Ahead,              \* how far in the future a time stamp may be
    MaxTime,            \* bound on the clock
    MaxRuns             \* bound on the runs of the maintenance

ASSUME MaintenanceAssumption ==
    /\ HourLen \in Nat \ {0}
    /\ Retention \in Nat
    /\ RollupRetention \in Nat
    /\ Ahead \in Nat
    /\ MaxTime \in Nat
    /\ MaxRuns \in Nat

VARIABLES
    now,        \* the clock
    time,       \* the time stamp of each sample
    raw,        \* the metrics table
    rollup,     \* the metrics_rollup table: the samples each hour's row is computed from
    runs,       \* the maintenance_runs table: the status of each run
    run,        \* the run under way
    pruned,     \* history: samples deleted
    committed,  \* history: runs whose transaction was committed
    unmarked,   \* history: runs that could not be marked as ok
    cut,        \* history: hours a run's cutoff has divided
    late        \* history: hours that got a sample older than the retention

mvars == <<now, time, raw, rollup, runs, run, pruned, committed, unmarked, cut, late>>

-----------------------------------------------------------------------------
Times == 0..(MaxTime + Ahead)
Hours == Times
Start(h) == h * HourLen
\* The hour a time is in, as a set.
HourOf(t) == {h \in Hours : Start(h) <= t /\ t < Start(h + 1)}

Ids == 1..MaxRuns
\* A row before it is inserted; the others are the statuses of the table.
Status == {"absent", "running", "ok", "error"}

\* The run under way: its row and the time it started at.
Run == [pc: {"idle", "begun", "committed", "failed"}, id: Ids \cup {0}, started: 0..MaxTime]
NoRun == [pc |-> "idle", id |-> 0, started |-> 0]

Cutoff(t) == t - Retention
Old(t) == {s \in raw : time[s] < Cutoff(t)}
InHour(S, h) == {s \in S : h \in HourOf(time[s])}

MInit ==
    /\ now = 0
    /\ time = [s \in Samples |-> 0]
    /\ raw = {}
    /\ rollup = [h \in Hours |-> {}]
    /\ runs = [i \in Ids |-> "absent"]
    /\ run = NoRun
    /\ pruned = {}
    /\ committed = {}
    /\ unmarked = {}
    /\ cut = {}
    /\ late = {}

-----------------------------------------------------------------------------
Tick ==
    /\ now < MaxTime
    /\ now' = now + 1
    /\ UNCHANGED <<time, raw, rollup, runs, run, pruned, committed, unmarked, cut, late>>

\* A sample is stored unless the table has it; one that was deleted is what it was,
\* its time stamp included, when it is sent again.
Arrive(s, t) ==
    /\ s \notin raw
    /\ s \in pruned => t = time[s]
    /\ t <= now + Ahead
    /\ time' = [time EXCEPT ![s] = t]
    /\ raw' = raw \cup {s}
    /\ late' = IF t < Cutoff(now) THEN late \cup HourOf(t) ELSE late
    /\ UNCHANGED <<now, rollup, runs, run, pruned, committed, unmarked, cut>>

\* Deviation: the id of the row is not known.
BeginNoId(i) ==
    /\ run.pc = "idle"
    /\ runs[i] = "absent"
    /\ \A j \in Ids : runs[j] = "absent" => i <= j
    /\ runs' = [runs EXCEPT ![i] = "running"]
    /\ run' = [pc |-> "begun", id |-> 0, started |-> now]
    /\ UNCHANGED <<now, time, raw, rollup, pruned, committed, unmarked, cut, late>>

\* The row of the run is inserted.
Begin(i) ==
    /\ run.pc = "idle"
    /\ runs[i] = "absent"
    /\ \A j \in Ids : runs[j] = "absent" => i <= j
    /\ runs' = [runs EXCEPT ![i] = "running"]
    /\ run' = [pc |-> "begun", id |-> i, started |-> now]
    /\ UNCHANGED <<now, time, raw, rollup, pruned, committed, unmarked, cut, late>>

\* The transaction does not even start: Run returns, and nothing is said in the row.
BeginTxFails ==
    /\ run.pc = "begun"
    /\ run' = NoRun
    /\ UNCHANGED <<now, time, raw, rollup, runs, pruned, committed, unmarked, cut, late>>

\* Old samples are rolled up: the row of an hour there is one for is replaced.
RolledUp(S, h) == IF InHour(S, h) # {} THEN InHour(S, h) ELSE rollup[h]
Expired(h) == Start(h) < run.started - RollupRetention

\* Deviation: whole hours are rolled up, and what is old of them deleted.
RollUpHours ==
    LET S == Old(run.started)
        hours == UNION {HourOf(time[s]) : s \in S}
    IN  /\ run.pc = "begun"
        /\ rollup' = [h \in Hours |-> IF Expired(h) THEN {}
                                     ELSE IF h \in hours THEN InHour(raw, h) ELSE rollup[h]]
        /\ raw' = raw \ S
        /\ pruned' = pruned \cup S
        /\ committed' = committed \cup {run.id}
        /\ run' = [run EXCEPT !.pc = "committed"]
        /\ UNCHANGED <<now, time, runs, unmarked, cut, late>>

\* Deviation: samples are deleted before they are rolled up.
PruneFirst ==
    /\ run.pc = "begun"
    /\ rollup' = [h \in Hours |-> IF Expired(h) THEN {} ELSE rollup[h]]
    /\ raw' = raw \ Old(run.started)
    /\ pruned' = pruned \cup Old(run.started)
    /\ committed' = committed \cup {run.id}
    /\ run' = [run EXCEPT !.pc = "committed"]
    /\ UNCHANGED <<now, time, runs, unmarked, cut, late>>

\* Roll-up, deletions, commit.
Commit ==
    LET S == Old(run.started)
        cutoff == Cutoff(run.started)
    IN  /\ run.pc = "begun"
        /\ rollup' = [h \in Hours |-> IF Expired(h) THEN {} ELSE RolledUp(S, h)]
        /\ raw' = raw \ S
        /\ pruned' = pruned \cup S
        /\ cut' = cut \cup {h \in Hours : Start(h) < cutoff /\ cutoff < Start(h + 1)}
        /\ committed' = committed \cup {run.id}
        /\ run' = [run EXCEPT !.pc = "committed"]
        /\ UNCHANGED <<now, time, runs, unmarked, late>>

\* Any of the statements or the commit fails: nothing has happened.
RollBack ==
    /\ run.pc = "begun"
    /\ run' = [run EXCEPT !.pc = "failed"]
    /\ UNCHANGED <<now, time, raw, rollup, runs, pruned, committed, unmarked, cut, late>>

\* Deviation: the deferred function marks every run that ends.
MarkOkAnyway ==
    /\ run.pc \in {"committed", "failed"}
    /\ runs' = [runs EXCEPT ![run.id] = "ok"]
    /\ run' = NoRun
    /\ UNCHANGED <<now, time, raw, rollup, pruned, committed, unmarked, cut, late>>

MarkOk ==
    /\ run.pc = "committed"
    /\ runs' = [runs EXCEPT ![run.id] = "ok"]
    /\ run' = NoRun
    /\ UNCHANGED <<now, time, raw, rollup, pruned, committed, unmarked, cut, late>>

\* The statement fails, and the deferred function takes it for a failed run.
MarkOkFails ==
    /\ run.pc = "committed"
    /\ unmarked' = unmarked \cup {run.id}
    /\ run' = [run EXCEPT !.pc = "failed"]
    /\ UNCHANGED <<now, time, raw, rollup, runs, pruned, committed, cut, late>>

MarkError ==
    /\ run.pc = "failed"
    /\ runs' = [runs EXCEPT ![run.id] = "error"]
    /\ run' = NoRun
    /\ UNCHANGED <<now, time, raw, rollup, pruned, committed, unmarked, cut, late>>

\* The process dies, or the row cannot be marked as failed either.
GiveUp ==
    /\ run.pc # "idle"
    /\ run' = NoRun
    /\ UNCHANGED <<now, time, raw, rollup, runs, pruned, committed, unmarked, cut, late>>

MNext ==
    \/ Tick
    \/ \E s \in Samples, t \in Times : Arrive(s, t)
    \/ \E i \in Ids : Begin(i)
    \/ BeginTxFails \/ Commit \/ RollBack
    \/ MarkOk \/ MarkOkFails \/ MarkError
    \/ GiveUp

MSpec == MInit /\ [][MNext]_mvars

-----------------------------------------------------------------------------
(* Properties                                                               *)

MTypeOK ==
    /\ now \in 0..MaxTime
    /\ time \in [Samples -> Times]
    /\ raw \subseteq Samples
    /\ rollup \in [Hours -> SUBSET Samples]
    /\ runs \in [Ids -> Status]
    /\ run \in Run
    /\ run.pc # "idle" => run.id \in Ids
    /\ pruned \subseteq Samples
    /\ committed \subseteq Ids
    /\ unmarked \subseteq Ids
    /\ cut \subseteq Hours
    /\ late \subseteq Hours

\* Whatever runs fail, die or come late, an hour's row is computed from every sample
\* of the hour that was deleted, until it is too old itself: unless a cutoff fell
\* inside the hour, or a sample came to it when it was past the retention already
\* (Run: roll up, prune).
RollupHoldsPruned ==
    \A h \in Hours \ (cut \cup late) :
        \/ rollup[h] = InHour(pruned, h)
        \/ rollup[h] = {} /\ Start(h) < now - RollupRetention

\* No sample is in an hour's row and still in the metrics table, where the next run
\* would find it again, unless one came to that hour, or came again, when it was past
\* the retention (Run, its one cutoff).
NothingCountedTwice == \A h \in Hours \ late : rollup[h] \cap raw = {}

\* The row of a run tells whether its transaction was committed, except that a
\* committed run whose row could not be updated is reported as failed, and a run
\* may leave its row as running (Run, its deferred function).
OutcomeIsTrue ==
    \A i \in Ids : /\ runs[i] = "ok" => i \in committed
                   /\ runs[i] = "error" => i \notin committed \ unmarked
=============================================================================
