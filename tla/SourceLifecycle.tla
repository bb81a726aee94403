--------------------------- MODULE SourceLifecycle ---------------------------
(***************************************************************************)
(* A Source's row, the service operations that read and write it, and the  *)
(* pull loops the adapter engine's Scheduler runs for it.                  *)
(*                                                                         *)
(* sources/application.Service reads a row, changes the copy and writes    *)
(* the whole row back; only the single SQL statements are atomic, so two   *)
(* operations on one Source interleave between the read, the write and the *)
(* OnChange hook (cmd/server's reconcileSchedule) that follows the write.  *)
(* The operations run in HTTP handlers (Callers) and in the pull loops     *)
(* themselves (Jobs): every ingested line and every pull outcome is a      *)
(* MarkSeen, and ten bad lines in a row are a Disable.                     *)
(***************************************************************************)
EXTENDS Integers, FiniteSets

CONSTANTS
    Sources,         \* identifiers that sources may be created with
    PullSources,     \* those whose adapter's manifest says mode "pull"
    Configs,         \* values of config_json
    Callers,         \* concurrent HTTP handlers
    Jobs,            \* bound: pull loops that can be alive at the same time
    NoJob,           \* "no entry in Scheduler.cancels"
    Keep,            \* a field that a patch leaves unchanged
    MaxInvalid,      \* maxConsecutiveInvalidLines
    ReconcileMaySkip \* reconcileSchedule may log an error and return early

ASSUME SourcesAssumption ==
    /\ PullSources \subseteq Sources
    /\ Configs # {}
    /\ Sources # {}
    /\ NoJob \notin Jobs
    /\ Callers \cap Jobs = {}
    /\ Keep \notin Configs
    /\ Keep \notin BOOLEAN
    /\ MaxInvalid \in Nat \ {0}
    /\ ReconcileMaySkip \in BOOLEAN

VARIABLES
    life,     \* is the row of a source not created yet, stored, or deleted
    rows,     \* the sources table (meaningful while life[s] = "stored")
    call,     \* the service operation each caller and each job is inside
    jobs,     \* per pull loop: its source, its config, is its context cancelled
    run,      \* per pull loop: where it is and what the current pull has seen
    cancels,  \* Scheduler.cancels: the loop that owns a source's entry
    suspect   \* history: sources whose schedule an overlap or a skipped
              \* reconcile may have put out of step with the row

vars == <<life, rows, call, jobs, run, cancels, suspect>>

-----------------------------------------------------------------------------
Procs  == Callers \cup Jobs
Row    == [config: Configs, enabled: BOOLEAN]
Patch  == [config: Configs \cup {Keep}, enabled: BOOLEAN \cup {Keep}]

Call == [kind: {"create", "update", "seen", "delete"},
         stage: {"idle", "write", "notify"},
         src: Sources, row: Row, alone: BOOLEAN]

Job == [src: Sources, config: Configs, cancelled: BOOLEAN]

\* What a pull has come to: nothing yet, LinesProcessed > 0, an error of RunOnce,
\* InvalidLines > 0, AutoDisabled. Each outranks the ones before it, which is
\* all that invoke's switch over them tells apart.
Results == {"quiet", "emitted", "failed", "invalid", "auto"}

Run == [pc: {"off", "spawn", "read", "hung", "ingest", "disable", "finish",
             "report", "sleep"},
        bad: 0..MaxInvalid,  \* consecutive invalid lines
        result: Results]

NoConfig == CHOOSE c \in Configs : TRUE
NoSource == CHOOSE s \in Sources : TRUE
NewRow(c) == [config |-> c, enabled |-> TRUE]
IdleCall == [kind |-> "seen", stage |-> "idle", src |-> NoSource,
             row |-> NewRow(NoConfig), alone |-> TRUE]
NoRun    == [src |-> NoSource, config |-> NoConfig, cancelled |-> TRUE]
AtPc(pc, result) == [pc |-> pc, bad |-> 0, result |-> result]
FreshRun(pc) == AtPc(pc, "quiet")

Or(field, old) == IF field = Keep THEN old ELSE field

\* The copy of the row an operation writes back: what it read, patched.
Patched(row, p) == [config  |-> Or(p.config, row.config),
                    enabled |-> Or(p.enabled, row.enabled)]

Disabling == [config |-> Keep, enabled |-> FALSE]

\* Deviation: statements do not look at the context.
NeverCancelled(p) == FALSE

\* database/sql refuses a statement under a cancelled context.
Cancelled(p) == p \in Jobs /\ jobs[p].cancelled

InFlight(q, s) == call[q].stage # "idle" /\ call[q].src = s

\* Operations that conflict: same source, and not two MarkSeen.
Conflicts(kind, s) ==
    {q \in Procs : InFlight(q, s) /\ ~(kind = "seen" /\ call[q].kind = "seen")}

-----------------------------------------------------------------------------
Init ==
    /\ life    = [s \in Sources |-> "fresh"]
    /\ rows    = [s \in Sources |-> NewRow(NoConfig)]
    /\ call    = [p \in Procs |-> IdleCall]
    /\ jobs    = [j \in Jobs |-> NoRun]
    /\ run     = [j \in Jobs |-> FreshRun("off")]
    /\ cancels = [s \in Sources |-> NoJob]
    /\ suspect = {}

\* p enters an operation on s: it has read the row (or, for a create, written
\* it) and holds the copy `row`. Operations it overlaps stop being alone.
Enter(p, kind, stage, s, row) ==
    LET others == Conflicts(kind, s)
    IN  /\ call' = [q \in Procs |->
                      IF q = p THEN [kind |-> kind, stage |-> stage, src |-> s,
                                     row |-> row, alone |-> others = {}]
                      ELSE IF q \in others THEN [call[q] EXCEPT !.alone = FALSE]
                      ELSE call[q]]
        /\ suspect' = IF others = {} THEN suspect ELSE suspect \cup {s}

\* The operation of p returns; a job goes on where it called the service.
AfterCall(r) == CASE r.pc = "ingest"  -> AtPc("read", r.result)
                  [] r.pc = "disable" -> AtPc("finish", r.result)
                  [] r.pc = "report"  -> FreshRun("sleep")
                  [] OTHER            -> r
Resumed(p) == IF p \in Jobs THEN [run EXCEPT ![p] = AfterCall(@)]
              ELSE run

-----------------------------------------------------------------------------
(* Service.CreateInProject, Update, Delete and MarkSeen up to their write   *)

Create(c, s, cfg) ==
    /\ call[c].stage = "idle"
    /\ life[s] = "fresh"
    /\ life' = [life EXCEPT ![s] = "stored"]
    /\ rows' = [rows EXCEPT ![s] = NewRow(cfg)]
    /\ Enter(c, "create", "notify", s, NewRow(cfg))
    /\ UNCHANGED <<jobs, run, cancels>>

BeginUpdate(c, s, p) ==
    /\ call[c].stage = "idle"
    /\ life[s] = "stored"
    /\ Enter(c, "update", "write", s, Patched(rows[s], p))
    /\ UNCHANGED <<life, rows, jobs, run, cancels>>

BeginDelete(c, s) ==
    /\ call[c].stage = "idle"
    /\ life[s] = "stored"
    /\ Enter(c, "delete", "write", s, rows[s])
    /\ UNCHANGED <<life, rows, jobs, run, cancels>>

\* A pushed record: the push handler's MarkSeen.
BeginSeen(c, s) ==
    /\ call[c].stage = "idle"
    /\ life[s] = "stored"
    /\ Enter(c, "seen", "write", s, rows[s])
    /\ UNCHANGED <<life, rows, jobs, run, cancels>>

-----------------------------------------------------------------------------
(* The statement that writes, and the OnChange hook                         *)

\* The write fails: the row is gone, the job's context is cancelled, or a
\* caller's request was cut off or the database refused.
WriteFails(p) ==
    /\ call[p].stage = "write"
    /\ \/ p \in Callers
       \/ Cancelled(p)
       \/ life[call[p].src] # "stored"
    /\ call' = [call EXCEPT ![p] = IdleCall]
    /\ run' = Resumed(p)
    /\ UNCHANGED <<life, rows, jobs, cancels, suspect>>

\* Deviation: an update returns without calling the hook.
WriteRowNoHook(p) ==
    /\ call[p].stage = "write"
    /\ call[p].kind \in {"update", "seen"}
    /\ ~Cancelled(p)
    /\ life[call[p].src] = "stored"
    /\ rows' = [rows EXCEPT ![call[p].src] = call[p].row]
    /\ call' = [call EXCEPT ![p] = IdleCall]
    /\ run' = Resumed(p)
    /\ UNCHANGED <<life, jobs, cancels, suspect>>

\* Deviation: the statement is an upsert.
UpsertRow(p) ==
    /\ call[p].stage = "write"
    /\ call[p].kind \in {"update", "seen"}
    /\ ~Cancelled(p)
    /\ rows' = [rows EXCEPT ![call[p].src] = call[p].row]
    /\ life' = [life EXCEPT ![call[p].src] = "stored"]
    /\ IF call[p].kind = "update"
       THEN call' = [call EXCEPT ![p].stage = "notify"] /\ run' = run
       ELSE call' = [call EXCEPT ![p] = IdleCall] /\ run' = Resumed(p)
    /\ UNCHANGED <<jobs, cancels, suspect>>

\* SQLiteRepository.Update writes every column of the copy.
WriteRow(p) ==
    /\ call[p].stage = "write"
    /\ call[p].kind \in {"update", "seen"}
    /\ ~Cancelled(p)
    /\ life[call[p].src] = "stored"
    /\ rows' = [rows EXCEPT ![call[p].src] = call[p].row]
    /\ IF call[p].kind = "update"
       THEN call' = [call EXCEPT ![p].stage = "notify"] /\ run' = run
       ELSE call' = [call EXCEPT ![p] = IdleCall] /\ run' = Resumed(p)
    /\ UNCHANGED <<life, jobs, cancels, suspect>>

DeleteRow(p) ==
    /\ call[p].stage = "write"
    /\ call[p].kind = "delete"
    /\ ~Cancelled(p)
    /\ life[call[p].src] = "stored"
    /\ life' = [life EXCEPT ![call[p].src] = "deleted"]
    /\ call' = [call EXCEPT ![p].stage = "notify"]
    /\ UNCHANGED <<rows, jobs, run, cancels, suspect>>

Wanted(kind, s, row) == kind # "delete" /\ row.enabled /\ s \in PullSources

\* The hook has run: an operation that met no other leaves the schedule in
\* step with the row; one that did not settles nothing.
Settle(p) ==
    /\ call' = [call EXCEPT ![p] = IdleCall]
    /\ suspect' = IF call[p].alone THEN suspect \ {call[p].src} ELSE suspect

\* Scheduler.Cancel.
NotifyCancel(p) ==
    LET s == call[p].src IN
    /\ call[p].stage = "notify"
    /\ call[p].kind = "delete" \/ ~call[p].row.enabled
    /\ jobs' = [j \in Jobs |-> IF j = cancels[s]
                               THEN [jobs[j] EXCEPT !.cancelled = TRUE]
                               ELSE jobs[j]]
    /\ cancels' = [cancels EXCEPT ![s] = NoJob]
    /\ Settle(p)
    /\ run' = Resumed(p)
    /\ UNCHANGED <<life, rows>>

\* Deviation: Schedule overwrites the entry and leaves the old loop running.
ScheduleOverOld(p, j) ==
    LET s == call[p].src IN
    /\ call[p].stage = "notify"
    /\ Wanted(call[p].kind, s, call[p].row)
    /\ run[j].pc = "off"
    /\ jobs' = [jobs EXCEPT ![j] = [src |-> s, config |-> call[p].row.config,
                                    cancelled |-> FALSE]]
    /\ cancels' = [cancels EXCEPT ![s] = j]
    /\ Settle(p)
    /\ run' = [Resumed(p) EXCEPT ![j] = FreshRun("spawn")]
    /\ UNCHANGED <<life, rows>>

\* Scheduler.Schedule: the old loop's context is cancelled, a new loop starts.
NotifySchedule(p, j) ==
    LET s == call[p].src IN
    /\ call[p].stage = "notify"
    /\ Wanted(call[p].kind, s, call[p].row)
    /\ run[j].pc = "off"
    /\ jobs' = [k \in Jobs |->
                  IF k = j THEN [src |-> s, config |-> call[p].row.config,
                                 cancelled |-> FALSE]
                  ELSE IF k = cancels[s] THEN [jobs[k] EXCEPT !.cancelled = TRUE]
                  ELSE jobs[k]]
    /\ cancels' = [cancels EXCEPT ![s] = j]
    /\ Settle(p)
    /\ run' = [Resumed(p) EXCEPT ![j] = FreshRun("spawn")]
    /\ UNCHANGED <<life, rows>>

\* A push or stream adapter: no loop to start, and none is stopped.
NotifyPassive(p) ==
    /\ call[p].stage = "notify"
    /\ call[p].kind # "delete" /\ call[p].row.enabled
    /\ call[p].src \notin PullSources
    /\ Settle(p)
    /\ run' = Resumed(p)
    /\ UNCHANGED <<life, rows, jobs, cancels>>

\* The adapter is not installed, its directory cannot be listed or a secret
\* does not resolve: reconcileSchedule logs and leaves any old loop running.
NotifySkip(p) ==
    /\ ReconcileMaySkip
    /\ call[p].stage = "notify"
    /\ Wanted(call[p].kind, call[p].src, call[p].row)
    /\ call' = [call EXCEPT ![p] = IdleCall]
    /\ suspect' = suspect \cup {call[p].src}
    /\ run' = Resumed(p)
    /\ UNCHANGED <<life, rows, jobs, cancels>>

-----------------------------------------------------------------------------
(* A pull loop: Scheduler.runLoop, invoke and Runner.RunOnce                *)

EmittedTo(result) == IF result = "quiet" THEN "emitted" ELSE result
FailedTo(result)  == IF result \in {"quiet", "emitted"} THEN "failed" ELSE result

\* runLoop invokes at once, then at each tick, which may win runLoop's select even
\* when the context is done. The subprocess starts, or does not (never under a
\* cancelled context).
Spawn(j) ==
    /\ run[j].pc \in {"spawn", "sleep"}
    /\ \/ ~jobs[j].cancelled /\ run' = [run EXCEPT ![j] = FreshRun("read")]
       \/ run' = [run EXCEPT ![j] = AtPc("finish", "failed")]
    /\ UNCHANGED <<life, rows, call, jobs, cancels, suspect>>

\* A schema-valid line is inserted, then MarkSeen is called; a missing row makes
\* it fail and the error is dropped.
ReadValid(j) ==
    LET s == jobs[j].src
        result == EmittedTo(run[j].result)
    IN
    /\ run[j].pc = "read"
    /\ ~jobs[j].cancelled
    /\ IF life[s] = "stored"
       THEN /\ Enter(j, "seen", "write", s, rows[s])
            /\ run' = [run EXCEPT ![j] = AtPc("ingest", result)]
       ELSE /\ UNCHANGED <<call, suspect>>
            /\ run' = [run EXCEPT ![j] = AtPc("read", result)]
    /\ UNCHANGED <<life, rows, jobs, cancels>>

\* A schema-valid line whose insert fails, as it does under a cancelled context:
\* RunOnce returns at once.
IngestFails(j) ==
    /\ run[j].pc = "read"
    /\ run' = [run EXCEPT ![j] = AtPc("finish", FailedTo(@.result))]
    /\ UNCHANGED <<life, rows, call, jobs, cancels, suspect>>

\* A schema-valid line of type "alert" is counted and not ingested.
ReadAlert(j) ==
    /\ run[j].pc = "read"
    /\ run' = [run EXCEPT ![j] = AtPc("read", EmittedTo(@.result))]
    /\ UNCHANGED <<life, rows, call, jobs, cancels, suspect>>

\* Deviation: the count runs past its limit.
ReadInvalidUncapped(j) ==
    /\ run[j].pc = "read"
    /\ run' = [run EXCEPT ![j].bad = @ + 1, ![j].result = "invalid"]
    /\ UNCHANGED <<life, rows, call, jobs, cancels, suspect>>

ReadInvalid(j) ==
    /\ run[j].pc = "read"
    /\ run[j].bad + 1 < MaxInvalid
    /\ run' = [run EXCEPT ![j].bad = @ + 1, ![j].result = "invalid"]
    /\ UNCHANGED <<life, rows, call, jobs, cancels, suspect>>

\* One bad line too many: the pull disables its own source and stops reading.
AutoDisable(j) ==
    LET s == jobs[j].src IN
    /\ run[j].pc = "read"
    /\ run[j].bad + 1 = MaxInvalid
    /\ IF ~jobs[j].cancelled /\ life[s] = "stored"
       THEN /\ Enter(j, "update", "write", s, Patched(rows[s], Disabling))
            /\ run' = [run EXCEPT ![j] = AtPc("disable", "auto")]
       ELSE /\ run' = [run EXCEPT ![j] = AtPc("finish", "auto")]
            /\ UNCHANGED <<call, suspect>>
    /\ UNCHANGED <<life, rows, jobs, cancels>>

\* The subprocess exits, or its output cannot be read.
Exit(j) ==
    /\ run[j].pc = "read"
    /\ \E result \in {run[j].result, FailedTo(run[j].result)} :
          run' = [run EXCEPT ![j] = AtPc("finish", result)]
    /\ UNCHANGED <<life, rows, call, jobs, cancels, suspect>>

\* The subprocess stays alive and silent: only the context can end it.
Hang(j) ==
    /\ run[j].pc = "read"
    /\ ~jobs[j].cancelled
    /\ run' = [run EXCEPT ![j].pc = "hung"]
    /\ UNCHANGED <<life, rows, call, jobs, cancels, suspect>>

\* Deviation: the subprocess is started without the context.
NotKilled(j) == FALSE

Killed(j) ==
    /\ run[j].pc = "hung"
    /\ jobs[j].cancelled
    /\ run' = [run EXCEPT ![j] = AtPc("finish", FailedTo(@.result))]
    /\ UNCHANGED <<life, rows, call, jobs, cancels, suspect>>

\* invoke after RunOnce: nothing under a cancelled context; otherwise the outcome
\* goes to ReportPullOutcome, which marks the source unless the pull was fine
\* and its lines have already marked it.
Report(j) ==
    LET s == jobs[j].src IN
    /\ run[j].pc = "finish"
    /\ ~jobs[j].cancelled
    /\ IF run[j].result # "emitted" /\ life[s] = "stored"
       THEN /\ Enter(j, "seen", "write", s, rows[s])
            /\ run' = [run EXCEPT ![j].pc = "report"]
       ELSE /\ run' = [run EXCEPT ![j] = FreshRun("sleep")]
            /\ UNCHANGED <<call, suspect>>
    /\ UNCHANGED <<life, rows, jobs, cancels>>

StaySilent(j) ==
    /\ run[j].pc = "finish"
    /\ jobs[j].cancelled
    /\ run' = [run EXCEPT ![j] = FreshRun("sleep")]
    /\ UNCHANGED <<life, rows, call, jobs, cancels, suspect>>

\* runLoop's select sees the done context.
EndLoop(j) ==
    /\ run[j].pc = "sleep"
    /\ jobs[j].cancelled
    /\ run'  = [run EXCEPT ![j] = FreshRun("off")]
    /\ jobs' = [jobs EXCEPT ![j] = NoRun]
    /\ UNCHANGED <<life, rows, call, cancels, suspect>>

-----------------------------------------------------------------------------
\* The process dies and main starts again: every operation and loop is lost,
\* the rows stay, and each stored source is reconciled before the server
\* listens. start maps the sources that get a loop to the loop they get.
Restart ==
    \E start \in [Sources -> Jobs \cup {NoJob}] :
        LET due == {s \in PullSources : life[s] = "stored" /\ rows[s].enabled}
            got == {s \in Sources : start[s] # NoJob}
        IN
        /\ got \subseteq due
        /\ ReconcileMaySkip \/ got = due
        /\ \A s, t \in got : start[s] = start[t] => s = t
        /\ call'    = [p \in Procs |-> IdleCall]
        /\ cancels' = start
        /\ jobs'    = [j \in Jobs |->
                         IF \E s \in got : start[s] = j
                         THEN LET s == CHOOSE s \in got : start[s] = j
                              IN [src |-> s, config |-> rows[s].config,
                                  cancelled |-> FALSE]
                         ELSE NoRun]
        /\ run'     = [j \in Jobs |-> IF \E s \in got : start[s] = j
                                      THEN FreshRun("spawn")
                                      ELSE FreshRun("off")]
        /\ suspect' = due \ got
        /\ UNCHANGED <<life, rows>>

CallerStep(c) ==
    \E s \in Sources :
          \/ \E cfg \in Configs : Create(c, s, cfg)
          \/ \E p \in Patch : BeginUpdate(c, s, p)
          \/ BeginDelete(c, s)
          \/ BeginSeen(c, s)

CallStep(p) ==
    \/ WriteFails(p)
    \/ WriteRow(p)
    \/ DeleteRow(p)
    \/ NotifyCancel(p)
    \/ \E j \in Jobs : NotifySchedule(p, j)
    \/ NotifyPassive(p)
    \/ NotifySkip(p)

PullStep(j) ==
    \/ Spawn(j)
    \/ ReadValid(j)
    \/ ReadAlert(j)
    \/ IngestFails(j)
    \/ ReadInvalid(j)
    \/ AutoDisable(j)
    \/ Exit(j)
    \/ Hang(j)
    \/ Killed(j)
    \/ Report(j)
    \/ StaySilent(j)
    \/ EndLoop(j)

Next ==
    \/ \E c \in Callers : CallerStep(c)
    \/ \E p \in Procs : CallStep(p)
    \/ \E j \in Jobs : PullStep(j)
    \/ Restart

Spec == Init /\ [][Next]_vars

\* A goroutine that can run does run. Cancelling a context kills the
\* subprocess, so the output of a cancelled pull ends; and select chooses among
\* ready cases at random, so a loop that keeps coming back to a done context
\* takes that case in the end. HTTP callers and the adapters' output are the
\* environment's.
Fairness ==
    /\ \A p \in Procs : WF_vars(CallStep(p))
    /\ \A j \in Jobs :
          /\ WF_vars(PullStep(j))
          /\ SF_vars(jobs[j].cancelled /\ Exit(j))
          /\ SF_vars(EndLoop(j))

FairSpec == Spec /\ Fairness

-----------------------------------------------------------------------------
(* Properties                                                               *)

\* Every variable has its type; a source without a row has no stored life.
TypeOK ==
    /\ life \in [Sources -> {"fresh", "stored", "deleted"}]
    /\ rows \in [Sources -> Row]
    /\ call \in [Procs -> Call]
    /\ jobs \in [Jobs -> Job]
    /\ run \in [Jobs -> Run]
    /\ cancels \in [Sources -> Jobs \cup {NoJob}]
    /\ suspect \subseteq Sources

\* However Schedule and Cancel calls of different operations interleave, a loop
\* whose context is live is the one its source's entry names: no source has two
\* live loops, and none runs that Cancel could not reach (Scheduler.Schedule,
\* Cancel).
OneLiveLoop ==
    /\ \A j \in Jobs : ~jobs[j].cancelled => cancels[jobs[j].src] = j
    /\ \A s \in Sources : cancels[s] # NoJob =>
          /\ jobs[cancels[s]].src = s
          /\ ~jobs[cancels[s]].cancelled
          /\ run[cancels[s]].pc # "off"

\* The schedule matches the row: an enabled pull source has a live loop with
\* the config its row holds, any other source has none.
InSync(s) ==
    IF life[s] = "stored" /\ rows[s].enabled /\ s \in PullSources
    THEN cancels[s] # NoJob /\ jobs[cancels[s]].config = rows[s].config
    ELSE cancels[s] = NoJob

Busy(s) == \E p \in Procs : InFlight(p, s) /\ call[p].kind # "seen"

\* While nobody creates, updates or deletes a source, its schedule matches its
\* row unless operations on it overlapped (or a reconcile was skipped) and no
\* operation has had it alone since. So operations one after another stay in
\* step, the pull's own Disable included, a restart repairs everything, and so
\* does one more update that meets nobody (Service.notifyChange,
\* reconcileSchedule, the bootstrap in main).
InSyncUnlessSuspect ==
    \A s \in Sources \ suspect : ~Busy(s) => InSync(s)

\* A deleted source never comes back, whatever write was still in flight: the
\* UPDATE matches no row (SQLiteRepository.Update).
DeletedStaysDeleted ==
    [][\A s \in Sources : life[s] = "deleted" => life'[s] = "deleted"]_vars

\* A pull loop whose context is cancelled changes no row: a pull that outlives
\* its Disable or Delete cannot mark the source (the comment on ctx.Err() in
\* Scheduler.invoke).
CancelledLoopIsSilent ==
    [][\A j \in Jobs :
          /\ jobs[j].cancelled
          /\ call'[j] # call[j] \/ run'[j] # run[j]
          => rows' = rows /\ life' = life]_vars

\* What the Scheduler runs for a source, told by the loops themselves, what the
\* hooks still to come will ask of it, and the copies that are written without one.
LiveConfigs(s) == {jobs[j].config : j \in {i \in Jobs : /\ jobs[i].src = s
                                                        /\ ~jobs[i].cancelled}}
Asks(c) == IF Wanted(c.kind, c.src, c.row) THEN {c.row.config} ELSE {}
Owed(s) == {Asks(call[p]) : p \in {q \in Procs : /\ call[q].src = s
                                                 /\ call[q].stage = "notify"}}
Held(s) == {call[p].row : p \in {q \in Procs : /\ call[q].src = s
                                               /\ call[q].stage = "write"
                                               /\ call[q].kind = "seen"}}

Sched == INSTANCE LoopSchedule WITH loop  <- [s \in Sources |-> LiveConfigs(s)],
                                    asked <- [s \in Sources |-> Owed(s)],
                                    held  <- [s \in Sources |-> Held(s)]

\* Operations, pulls and loops together change a source's row and its schedule only
\* as LoopSchedule says: a loop is started, replaced or stopped by the hook of an
\* operation that has just written the row, with the config of that very write, or by
\* a restart from the row; nothing a pull meets starts or stops one in another way,
\* and two loops never pull with different configs (notifyChange, reconcileSchedule,
\* Schedule, Cancel).
ScheduleSpec == Sched!Spec

\* A cancelled pull loop ends: neither a hung adapter nor the ticker keeps the
\* goroutine alive (exec.CommandContext, the select in runLoop).
Ending(j) == jobs[j].cancelled /\ run[j].pc # "off"
CancelledLoopEnds == \A j \in Jobs : Ending(j) ~> ~Ending(j)

-----------------------------------------------------------------------------
(* What the documentation says and the code does not do                     *)

\* "10 consecutive invalid lines (default) auto-disables the source and raises
\* an 'adapter misbehaving' Alert" (docs/SPEC.md:257): the pull that
\* auto-disabled its source reports the error outcome the alert comes from.
AutoDisableIsReported ==
    [][\A j \in Jobs : run[j].result = "auto" => ~StaySilent(j)]_vars
=============================================================================
